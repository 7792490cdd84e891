---------------------------- MODULE SearchPipeline ----------------------------
(***************************************************************************)
(* The caller and the search thread of src/3rdparty/fsearch composed with *)
(* the search they run: db_search_update stores a request in the          *)
(* DatabaseSearch without any lock, db_perform_search turns the stored     *)
(* query text into an FsearchQuery and queues it, and the search thread    *)
(* takes the queued query, runs db_search_empty or db_search (the steps of *)
(* DbSearch, reading req where the code reads the DatabaseSearch) and      *)
(* hands the result to the query's callback.                               *)
(*                                                                         *)
(* The mutex and condition variable of the mailbox are left to             *)
(* FsearchSearchThread: here the search thread takes query_ctx whenever it *)
(* is idle and a query is pending, which every wakeup of the real thread   *)
(* allows.                                                                 *)
(***************************************************************************)
EXTENDS Naturals, Sequences

CONSTANTS
    NodeSet, Absent, MaxEntries, Requests, PoolSize,   \* as in DbSearch
    Corpora,      \* the entry arrays db_search_update may store
    MaxQueries,   \* number of db_perform_search calls
    NoQuery       \* query_ctx == NULL

VARIABLES
    entries, req, query, dq, wreq, phase, numThreads, range, useRegex,
    wstate, wpos, wres, result, numFolders, numFiles,   \* the search (DbSearch)
    queryCtx,     \* search->query_ctx
    stPc,         \* the search thread: "idle" (waiting for a query) or "search"
    current,      \* the query the search thread runs
    nextId,       \* the next query db_perform_search creates
    qReq,         \* the request stored when each query was created
    delivered     \* callbacks invoked, in order: [q, result]

searchVars == <<entries, req, query, dq, wreq, phase, numThreads, range, useRegex,
                wstate, wpos, wres, result, numFolders, numFiles>>
threadVars == <<queryCtx, stPc, current, nextId, qReq, delivered>>
vars == <<searchVars, threadVars>>

Queries == 1..MaxQueries

S == INSTANCE DbSearch

\* What the spec promises for one request, over the stored entries.
SpecOf(r) == INSTANCE FsearchSearchSpec WITH req <- r

Promised(r) == SpecOf(r)!Numbered(SpecOf(r)!Expected)

-----------------------------------------------------------------------------
(* db_search_update: entries, query text and options stored, while a      *)
(* search may be reading them.                                             *)
DbSearchUpdate(e, r) ==
    /\ entries' = e /\ req' = r
    /\ UNCHANGED <<query, dq, wreq, phase, numThreads, range, useRegex, wstate,
                   wpos, wres, result, numFolders, numFiles>>
    /\ UNCHANGED threadVars

(* db_perform_search: an FsearchQuery of the stored query text, queued in  *)
(* query_ctx (a pending query is superseded).                              *)
DbPerformSearch ==
    /\ nextId <= MaxQueries
    /\ queryCtx' = nextId
    /\ qReq' = [qReq EXCEPT ![nextId] = req]
    /\ nextId' = nextId + 1
    /\ UNCHANGED <<stPc, current, delivered>> /\ UNCHANGED searchVars

(* fsearch_search_thread takes query_ctx and clears it; the search starts *)
(* for the query's own text (DbSearch!SearchInit of the query's request).  *)
TakeQuery ==
    /\ stPc = "idle" /\ queryCtx # NoQuery
    /\ current' = queryCtx
    /\ queryCtx' = NoQuery
    /\ stPc' = "search"
    /\ LET r == qReq[queryCtx] IN
         /\ query' = [text |-> r.text, compiles |-> r.compiles]
         /\ dq' = [query |-> S!TheQuery(r.text, r.matchCase), maxResults |-> 0]
         /\ wreq' = [w \in S!Workers |-> r]
    /\ phase' = "start" /\ numThreads' = 0 /\ useRegex' = FALSE
    /\ range' = [w \in S!Workers |-> [start |-> 0, end |-> 0]]
    /\ wstate' = [w \in S!Workers |-> "idle"]
    /\ wpos' = [w \in S!Workers |-> 0] /\ wres' = [w \in S!Workers |-> <<>>]
    /\ result' = <<>> /\ numFolders' = 0 /\ numFiles' = 0
    /\ UNCHANGED <<entries, req, nextId, qReq, delivered>>

\* A step of db_search_empty or db_search.
SearchStep ==
    /\ stPc = "search"
    /\ S!SearchStep
    /\ UNCHANGED threadVars

(* query->callback(result); fsearch_query_free; back for query_ctx.        *)
Callback ==
    /\ stPc = "search" /\ phase = "done"
    /\ delivered' = Append(delivered, [q |-> current, result |-> result])
    /\ stPc' = "idle"
    /\ UNCHANGED <<queryCtx, current, nextId, qReq>> /\ UNCHANGED searchVars

Init ==
    /\ entries \in Corpora /\ req \in Requests
    /\ S!SearchInit(req)
    /\ queryCtx = NoQuery /\ stPc = "idle" /\ current = NoQuery
    /\ nextId = 1
    /\ qReq = [q \in Queries |-> req]
    /\ delivered = <<>>

Next ==
    \/ \E e \in Corpora, r \in Requests : DbSearchUpdate(e, r)
    \/ DbPerformSearch \/ TakeQuery \/ SearchStep \/ Callback

Spec == Init /\ [][Next]_vars

-----------------------------------------------------------------------------
(* Every callback receives the result the spec promises for the request   *)
(* its query was made from (spec 4: a request carries its own filter, cap *)
(* and options), however db_search_update calls interleave with the       *)
(* search that runs it.                                                    *)
ResultsAsRequested ==
    \A i \in DOMAIN delivered :
        delivered[i].result = Promised(qReq[delivered[i].q])

=============================================================================
