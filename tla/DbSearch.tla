------------------------------ MODULE DbSearch ------------------------------
(***************************************************************************)
(* One search as the search thread runs it (fsearch_search_thread's body, *)
(* db_search_empty and db_search in src/3rdparty/fsearch/database_search.c)*)
(* : the entries are split into contiguous ranges, one per pool thread,   *)
(* the workers (search_thread or search_regex_thread) scan their ranges   *)
(* concurrently into private buffers, the search thread waits for every   *)
(* pool thread, then concatenates the buffers in range order under the    *)
(* result cap.                                                             *)
(*                                                                         *)
(* The fields of the DatabaseSearch (req) are read where the code reads    *)
(* them: db_search copies the query chain and max_results when it         *)
(* dispatches (dq), each worker copies max_results, filter, the path       *)
(* options and match_case when its thread function starts (wreq), and      *)
(* enable_py is read per entry.  The query text is the FsearchQuery's own  *)
(* (query), fixed when db_perform_search created it.  Alone, req never     *)
(* changes; SearchPipeline lets db_search_update change it meanwhile.      *)
(***************************************************************************)
EXTENDS Naturals, Sequences, FiniteSets, SequencesExt, FsearchMatch, QueryCompiler

CONSTANTS
    NodeSet,      \* BTreeNode values an entry may hold
    Absent,       \* darray_get_item returned NULL
    MaxEntries,   \* bound on num_entries
    Requests,     \* the search requests considered
    PoolSize      \* fsearch_thread_pool_get_num_threads(search->pool)

ASSUME PoolSize \in Nat \ {0}

QueryIds == MatcherIds
Workers == 1..PoolSize

VARIABLES
    entries,      \* search->entries[0 .. num_entries-1]
    req,          \* the query and the parameters stored in the DatabaseSearch
    query,        \* the running FsearchQuery: its text and whether it compiles as a regex
    dq,           \* db_search's locals: queries[0] and max_results
    wreq,         \* the fields of req each worker copied when it started
    phase,        \* "start", "searching" (workers dispatched) or "done"
    numThreads,   \* num_threads of db_search
    range,        \* start_pos / end_pos of each worker's context
    useRegex,     \* is_reg && search->enable_regex: the worker function
    wstate,       \* "idle", "run" or "done" per pool thread
    wpos,         \* the loop index i of each worker
    wres,         \* ctx->results[0 .. num_results-1] of each worker
    result,       \* the DatabaseSearchResult entries: [node, pos]
    numFolders, numFiles

vars == <<entries, req, query, dq, wreq, phase, numThreads, range, useRegex, wstate, wpos, wres,
          result, numFolders, numFiles>>

Entry == NodeSet \cup {Absent}

\* fs_str_is_empty: nothing but whitespace.
FsStrIsEmpty(t) == \A i \in DOMAIN t : t[i] \in Spaces

\* queries[0] of build_queries: the query's own text, the stored match_case.
TheQuery(t, matchCase) == BuildQueries(t, matchCase)[1]

MinOf(a, b) == IF a < b THEN a ELSE b
MaxOf(a, b) == IF a < b THEN b ELSE a

NodeAt(i) == entries[i + 1]       \* darray_get_item(entries, i)
NumEntries == Len(entries)

\* A result sequence built from entry indices, with positions 0, 1, ...
Numbered(s) == [k \in 1..Len(s) |-> [node |-> s[k], pos |-> k - 1]]

CountDirs(res, isDir) ==
    Cardinality({k \in DOMAIN res : NodeAt(res[k].node).isDir = isDir})

-----------------------------------------------------------------------------
(* db_search_empty: the first MIN(max_results, num_entries) present       *)
(* entries passing the filter.                                            *)
DbSearchEmpty ==
    LET Listed(i) == NodeAt(i) # Absent /\ FilterNode(NodeAt(i), req.filter)
        listed == SelectSeq([k \in 1..NumEntries |-> k - 1], Listed)
        numResults == MinOf(req.maxResults, NumEntries)
    IN SubSeq(listed, 1, MinOf(numResults, Len(listed)))

\* search_thread_context_new: a worker's range; its buffer starts empty.
ThreadContextNew(s, e) == [start |-> s, end |-> e]

\* Slip: the last range ends like the others.
PartitionNoRemainder(n, t) ==
    LET per == MaxOf(n \div t, 1)
    IN [w \in Workers |-> ThreadContextNew((w - 1) * per, w * per - 1)]

\* Ranges of db_search: num_items_per_thread entries each, the last thread
\* taking everything up to num_entries - 1.
Partition(n, t) ==
    LET per == MaxOf(n \div t, 1)
    IN [w \in Workers |->
          ThreadContextNew((w - 1) * per, IF w = t THEN n - 1 ELSE w * per - 1)]

\* Slip: one thread per entry, however many threads the pool has.
ThreadCountEntries(n) == n

\* num_threads = MIN(pool threads, num_entries).
ThreadCount(n) == MinOf(PoolSize, n)

\* The concatenation loop: buffers in range order, stopping at max_results.
Collected == FlattenSeq([w \in 1..numThreads |-> wres[w]])

Aggregate ==
    IF dq.maxResults = 0 THEN Collected
    ELSE SubSeq(Collected, 1, MinOf(dq.maxResults, Len(Collected)))

\* Everything but the search's own variables stays.
Frame == UNCHANGED <<entries, req, query>>

-----------------------------------------------------------------------------
(* fsearch_search_thread, empty query: an empty result when hide_results, *)
(* else db_search_empty.                                                   *)
EmptyQuery ==
    /\ phase = "start" /\ FsStrIsEmpty(query.text)
    /\ result' = IF req.hide THEN <<>> ELSE Numbered(DbSearchEmpty)
    /\ numFolders' = CountDirs(result', TRUE)
    /\ numFiles' = CountDirs(result', FALSE)
    /\ phase' = "done"
    /\ Frame
    /\ UNCHANGED <<dq, wreq, numThreads, range, useRegex, wstate, wpos, wres>>

\* db_search with num_entries == 0.
EmptyCorpus ==
    /\ phase = "start" /\ ~FsStrIsEmpty(query.text) /\ NumEntries = 0
    /\ phase' = "done"
    /\ Frame
    /\ UNCHANGED <<dq, wreq, numThreads, range, useRegex, wstate, wpos, wres,
                   result, numFolders, numFiles>>

(* db_search: build_queries, the ranges, max_results, the worker function *)
(* (is_regex of the stored query text), and one pool push per thread.     *)
Dispatch ==
    /\ phase = "start" /\ ~FsStrIsEmpty(query.text) /\ NumEntries > 0
    /\ LET t == ThreadCount(NumEntries)
           p == Partition(NumEntries, t)
       IN /\ numThreads' = t
          /\ range' = p
          /\ wstate' = [w \in Workers |-> IF w <= t THEN "pushed" ELSE "idle"]
          /\ wpos' = [w \in Workers |-> p[w].start]
          /\ wres' = [w \in Workers |-> <<>>]
    /\ dq' = [query |-> TheQuery(query.text, req.matchCase), maxResults |-> req.maxResults]
    /\ useRegex' = (IsRegex(req.text) /\ req.enableRegex)
    /\ phase' = "searching"
    /\ Frame
    /\ UNCHANGED <<wreq, result, numFolders, numFiles>>

(* A pool thread runs the pushed function: search_thread and             *)
(* search_regex_thread copy max_results, filter, the path options (and    *)
(* the regex its match_case) from the DatabaseSearch.                     *)
WorkerStart(w) ==
    /\ wstate[w] = "pushed"
    /\ wstate' = [wstate EXCEPT ![w] = "run"]
    /\ wreq' = [wreq EXCEPT ![w] = req]
    /\ Frame
    /\ UNCHANGED <<dq, phase, numThreads, range, useRegex, wpos, wres,
                   result, numFolders, numFiles>>

\* The options a worker uses: its copies, and enable_py as stored now.
WorkerOpts(w) == [wreq[w].opts EXCEPT !.enablePy = req.opts.enablePy]

\* Whether worker w's thread function accepts the node at index i.
Accepts(w, i) ==
    /\ NodeAt(i) # Absent
    /\ IF useRegex
          THEN RegexAccepts(NodeAt(i), RegexQuery(dq.query, wreq[w].matchCase),
                            wreq[w].filter, WorkerOpts(w))
          ELSE SearchAccepts(NodeAt(i), <<dq.query>>, wreq[w].filter, WorkerOpts(w))

\* Slip: the worker stops one result before max_results.
CapReachedEarly(w) == wreq[w].maxResults # 0 /\ Len(wres[w]) + 1 = wreq[w].maxResults

CapReached(w) == wreq[w].maxResults # 0 /\ Len(wres[w]) = wreq[w].maxResults

\* One iteration of the scan loop of search_thread / search_regex_thread.
\* Slip: the scan index is advanced only for an accepted entry (a `continue`
\* that skips the increment).
WorkerScanStuck(w) ==
    /\ wstate[w] = "run"
    /\ useRegex => query.compiles
    /\ wpos[w] <= range[w].end /\ ~CapReached(w)
    /\ wres' = IF Accepts(w, wpos[w])
                  THEN [wres EXCEPT ![w] = Append(@, wpos[w])] ELSE wres
    /\ wpos' = IF Accepts(w, wpos[w]) THEN [wpos EXCEPT ![w] = @ + 1] ELSE wpos
    /\ Frame
    /\ UNCHANGED <<dq, wreq, phase, numThreads, range, useRegex, wstate,
                   result, numFolders, numFiles>>

WorkerScan(w) ==
    /\ wstate[w] = "run"
    /\ useRegex => query.compiles
    /\ wpos[w] <= range[w].end /\ ~CapReached(w)
    /\ wres' = IF Accepts(w, wpos[w])
                  THEN [wres EXCEPT ![w] = Append(@, wpos[w])] ELSE wres
    /\ wpos' = [wpos EXCEPT ![w] = @ + 1]
    /\ Frame
    /\ UNCHANGED <<dq, wreq, phase, numThreads, range, useRegex, wstate,
                   result, numFolders, numFiles>>

\* The loop ends (range exhausted or max_results reached): num_results stored.
WorkerFinish(w) ==
    /\ wstate[w] = "run"
    /\ useRegex => query.compiles
    /\ wpos[w] > range[w].end \/ CapReached(w)
    /\ wstate' = [wstate EXCEPT ![w] = "done"]
    /\ Frame
    /\ UNCHANGED <<dq, wreq, phase, numThreads, range, useRegex, wpos, wres,
                   result, numFolders, numFiles>>

\* search_regex_thread: pcre2_compile failed, nothing is scanned.
RegexCompileFailed(w) ==
    /\ wstate[w] = "run" /\ useRegex /\ ~query.compiles
    /\ wstate' = [wstate EXCEPT ![w] = "done"]
    /\ Frame
    /\ UNCHANGED <<dq, wreq, phase, numThreads, range, useRegex, wpos, wres,
                   result, numFolders, numFiles>>

\* fsearch_thread_pool_wait_for_thread on every pool thread, then the
\* concatenation loop with folder and file counts.
Collect ==
    /\ phase = "searching"
    /\ \A w \in Workers : wstate[w] \in {"idle", "done"}
    /\ result' = Numbered(Aggregate)
    /\ numFolders' = CountDirs(result', TRUE)
    /\ numFiles' = CountDirs(result', FALSE)
    /\ phase' = "done"
    /\ Frame
    /\ UNCHANGED <<dq, wreq, numThreads, range, useRegex, wstate, wpos, wres>>

\* The result has been handed to the callback: this search is over.
Finished == phase = "done" /\ UNCHANGED vars

\* A search about to start, for the query of request r, with req stored.
SearchInit(r) ==
    /\ query = [text |-> r.text, compiles |-> r.compiles]
    /\ dq = [query |-> TheQuery(r.text, r.matchCase), maxResults |-> 0]
    /\ wreq = [w \in Workers |-> r]
    /\ phase = "start"
    /\ numThreads = 0
    /\ range = [w \in Workers |-> [start |-> 0, end |-> 0]]
    /\ useRegex = FALSE
    /\ wstate = [w \in Workers |-> "idle"]
    /\ wpos = [w \in Workers |-> 0]
    /\ wres = [w \in Workers |-> <<>>]
    /\ result = <<>> /\ numFolders = 0 /\ numFiles = 0

Init ==
    /\ entries \in UNION {[1..n -> Entry] : n \in 0..MaxEntries}
    /\ req \in Requests
    /\ SearchInit(req)

SearchStep ==
    \/ EmptyQuery \/ EmptyCorpus \/ Dispatch \/ Collect
    \/ \E w \in Workers :
         WorkerStart(w) \/ WorkerScan(w) \/ WorkerFinish(w) \/ RegexCompileFailed(w)

Next == SearchStep \/ Finished

Spec == Init /\ [][Next]_vars

\* The search thread and each pool thread are running threads: a step one
\* of them can take is eventually taken.
ThreadStep(w) ==
    WorkerStart(w) \/ WorkerScan(w) \/ WorkerFinish(w) \/ RegexCompileFailed(w)

FairSpec ==
    /\ Spec
    /\ WF_vars(EmptyQuery \/ EmptyCorpus \/ Dispatch \/ Collect)
    /\ \A w \in Workers : WF_vars(ThreadStep(w))

-----------------------------------------------------------------------------
TypeOK ==
    /\ entries \in Seq(Entry) /\ Len(entries) <= MaxEntries
    /\ req \in Requests
    /\ DOMAIN query = {"text", "compiles"} /\ query.compiles \in BOOLEAN
    /\ \A w \in Workers : wreq[w] \in Requests
    /\ phase \in {"start", "searching", "done"}
    /\ numThreads \in 0..PoolSize
    /\ range \in [Workers -> [start : Int, end : Int]]
    /\ useRegex \in BOOLEAN
    /\ wstate \in [Workers -> {"idle", "pushed", "run", "done"}]
    /\ wpos \in [Workers -> Int]
    /\ wres \in [Workers -> Seq(Nat)]
    /\ result \in Seq([node : Nat, pos : Nat])
    /\ numFolders \in Nat /\ numFiles \in Nat

(* The ranges db_search hands out are non-empty, lie inside the entry     *)
(* array, and tile 0 .. num_entries-1 without gap or overlap, so no entry *)
(* is scanned twice or missed, whatever the pool size and entry count.    *)
PartitionTiles ==
    phase = "searching" =>
      /\ range[1].start = 0
      /\ range[numThreads].end = NumEntries - 1
      /\ \A w \in 1..numThreads :
            /\ range[w].start <= range[w].end
            /\ w < numThreads => range[w + 1].start = range[w].end + 1

(* Every search ends with its result handed over: each pool thread walks  *)
(* its range to the end or to the cap, and the wait on every pool thread  *)
(* (lines 560-563) returns, including for threads given no work.          *)
SearchCompletes == <>(phase = "done")

(* The parallel search implements the one-step search of the spec: the    *)
(* result delivered is the spec's, whatever the interleaving of workers.   *)
SS == INSTANCE FsearchSearchSpec
        WITH phase <- IF phase = "done" THEN "done" ELSE "start"

ImplementsSearchSpec == SS!Spec

=============================================================================
