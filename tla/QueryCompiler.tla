--------------------------- MODULE QueryCompiler ---------------------------
(***************************************************************************)
(* How src/3rdparty/fsearch/database_search.c compiles a query: the text   *)
(* is a sequence of characters, each a short string; "mb" stands for     *)
(* any character UTF-8 encodes in two bytes.  A compiled query is named   *)
(* by the matcher it selects, so that an entry's verdict can depend on    *)
(* the matcher (FsearchMatch's node.hits[id]).                            *)
(***************************************************************************)
EXTENDS Naturals, Sequences, SequencesExt

\* isspace() characters of the query alphabet.
Spaces == {" "}

\* Characters encoded in more than one byte.
MultiByte == {"mb"}

\* The search functions a query may select, and the two pcre2 variants.
MatcherIds == {"normal", "icase", "icase_u8", "regex", "regex_icase"}

ByteLen(s) == Len(s) + Len(SelectSeq(s, LAMBDA c : c \in MultiByte))

-----------------------------------------------------------------------------
\* The regex_chars of is_regex.
RegexChars == {"$", "(", ")", "*", "+", ".", "?", "[", "\\", "^", "{", "|"}

\* Slip: '*' and '?' left out, as if only regex-only syntax counted.
IsRegexNoGlob(s) == \E i \in DOMAIN s : s[i] \in RegexChars \ {"*", "?"}

\* is_regex: strpbrk(query, regex_chars) != NULL.
IsRegex(s) == \E i \in DOMAIN s : s[i] \in RegexChars

\* g_strstrip: leading and trailing whitespace removed.
RECURSIVE Strip(_)
Strip(s) ==
    IF s # <<>> /\ Head(s) \in Spaces THEN Strip(Tail(s))
    ELSE IF s # <<>> /\ Last(s) \in Spaces THEN Strip(SubSeq(s, 1, Len(s) - 1))
    ELSE s

\* Slip: the byte-wise case-insensitive matcher whatever the encoding.
SearchQueryNewAscii(s, matchCase) ==
    [hasSep |-> "/" \in ToSet(s),
     id     |-> IF matchCase THEN "normal" ELSE "icase"]

\* search_query_new: has_separator, is_utf8 (utf8len differs from the byte
\* length) and the search function it implies.
SearchQueryNew(s, matchCase) ==
    LET isUtf8 == Len(s) # ByteLen(s)
    IN [hasSep |-> "/" \in ToSet(s),
        id     |-> IF matchCase THEN "normal"
                   ELSE IF isUtf8 THEN "icase_u8" ELSE "icase"]

\* build_queries: one query from the stripped text.
BuildQueries(text, matchCase) == <<SearchQueryNew(Strip(text), matchCase)>>

\* search_regex_thread compiles queries[0] caseless unless match_case.
RegexQuery(q, matchCase) ==
    [q EXCEPT !.id = IF matchCase THEN "regex" ELSE "regex_icase"]

-----------------------------------------------------------------------------
(* The compiled query of the spec (section 4.1): trimmed text, a separator *)
(* test, and one matcher - case-sensitive substring, case-insensitive      *)
(* codepoint-aware for multi-byte text and byte-wise otherwise, or a regex *)
(* (caseless unless match-case) when regex mode is enabled and the raw     *)
(* text holds one of $()*+.?[\^{|.                                         *)
SpecRegexMode(text, enableRegex) ==
    enableRegex /\ \E c \in ToSet(text) : c \in {"$", "(", ")", "*", "+", ".", "?", "[", "\\", "^", "{", "|"}

SpecTrim(s) ==
    LET kept == {i \in DOMAIN s : s[i] \notin Spaces}
    IN IF kept = {} THEN <<>>
       ELSE SubSeq(s, CHOOSE i \in kept : \A j \in kept : i <= j,
                      CHOOSE i \in kept : \A j \in kept : j <= i)

SpecCompile(text, matchCase, enableRegex) ==
    LET t == SpecTrim(text)
    IN [hasSep |-> \E i \in DOMAIN t : t[i] = "/",
        id     |-> CASE SpecRegexMode(text, enableRegex) /\ matchCase  -> "regex"
                     [] SpecRegexMode(text, enableRegex)               -> "regex_icase"
                     [] matchCase                                      -> "normal"
                     [] \E i \in DOMAIN t : t[i] \in MultiByte         -> "icase_u8"
                     [] OTHER                                          -> "icase"]

=============================================================================
