---------------------------- MODULE FsearchMatch ----------------------------
(***************************************************************************)
(* Whether one index entry is accepted by a search, as decided in the loop *)
(* bodies of search_thread and search_regex_thread                        *)
(* (src/3rdparty/fsearch/database_search.c).                               *)
(*                                                                         *)
(* The string matchers (strstr, strcasestr, utf8casestr, pcre2_match) are  *)
(* abstracted to their verdicts: node.hits[q] is the set of the node's     *)
(* haystacks ("name", "path", "firstPy", "fullPy") on which the matcher    *)
(* selected for query q succeeds.  node.hasPy is strlen(full_py_name) > 0. *)
(***************************************************************************)
EXTENDS Naturals, Sequences

Haystacks == {"name", "path", "firstPy", "fullPy"}
Filters == {"none", "files", "folders"}     \* FSEARCH_FILTER_*

\* Node(Q): BTreeNode records for the queries Q.
Node(Q) == [isDir : BOOLEAN, hasPy : BOOLEAN, hits : [Q -> SUBSET Haystacks]]

\* Options read from the DatabaseSearch by each worker.
Options == [searchInPath : BOOLEAN, autoSearchInPath : BOOLEAN, enablePy : BOOLEAN]

\* search_query_t: id stands for the query text, hasSep for has_separator.
Query(Q) == [id : Q, hasSep : BOOLEAN]

\* filter_node
FilterNode(node, filter) ==
    \/ filter = "none"
    \/ filter = "files" /\ ~node.isDir
    \/ filter = "folders" /\ node.isDir

\* The haystack of query q: the full path if search_in_path, or if
\* auto_search_in_path and the query contains '/'; otherwise the name.
Haystack(q, opts) ==
    IF opts.searchInPath \/ (opts.autoSearchInPath /\ q.hasSep)
    THEN "path" ELSE "name"

Hit(node, q, h) == h \in node.hits[q.id]

\* Slip: the pinyin fallback without the strlen(full_py_name) test.
QueryMatchesAnyPy(node, q, opts) ==
    \/ Hit(node, q, Haystack(q, opts))
    \/ opts.enablePy /\ (Hit(node, q, "firstPy") \/ Hit(node, q, "fullPy"))

\* One query of the chain: the haystack, else (pinyin enabled and the node
\* has a full pinyin name) the first-letter pinyin, else the full pinyin.
QueryMatches(node, q, opts) ==
    \/ Hit(node, q, Haystack(q, opts))
    \/ /\ opts.enablePy /\ node.hasPy
       /\ Hit(node, q, "firstPy") \/ Hit(node, q, "fullPy")

\* The while (true) loop of search_thread over queries[0 .. num_queries-1]:
\* numFound counts the queries matched so far; the first failure breaks.
RECURSIVE MatchQueries(_, _, _, _)
MatchQueries(node, queries, opts, numFound) ==
    IF numFound = Len(queries) THEN TRUE
    ELSE /\ QueryMatches(node, queries[numFound + 1], opts)
         /\ MatchQueries(node, queries, opts, numFound + 1)

\* search_thread: a present node is appended to the worker's results.
SearchAccepts(node, queries, filter, opts) ==
    FilterNode(node, filter) /\ MatchQueries(node, queries, opts, 0)

\* search_regex_thread (regex compiled): only queries[0] is used; the same
\* haystack, then first_py_name, then full_py_name under the same test.
RegexAccepts(node, q, filter, opts) ==
    /\ FilterNode(node, filter)
    /\ \/ Hit(node, q, Haystack(q, opts))
       \/ opts.enablePy /\ node.hasPy /\ Hit(node, q, "firstPy")
       \/ opts.enablePy /\ node.hasPy /\ Hit(node, q, "fullPy")

-----------------------------------------------------------------------------
(* What the spec (sections 4.3, 4.4) says is accepted: every predicate of *)
(* the AND-chain matches one of the haystack, the first transliteration   *)
(* or the full transliteration, the latter two only when the fallback is  *)
(* enabled and the entry carries them; and the entry passes the filter.   *)
SpecHaystacks(node, q, opts) ==
    LET primary == IF opts.searchInPath THEN "path"
                   ELSE IF opts.autoSearchInPath /\ q.hasSep THEN "path"
                   ELSE "name"
    IN {primary} \cup (IF opts.enablePy /\ node.hasPy
                       THEN {"firstPy", "fullPy"} ELSE {})

SpecAccepts(node, queries, filter, opts) ==
    /\ CASE filter = "none"    -> TRUE
         [] filter = "files"   -> ~node.isDir
         [] filter = "folders" -> node.isDir
    /\ \A i \in DOMAIN queries :
          node.hits[queries[i].id] \cap SpecHaystacks(node, queries[i], opts) # {}

=============================================================================
