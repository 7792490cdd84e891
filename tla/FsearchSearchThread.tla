------------------------- MODULE FsearchSearchThread -------------------------
(***************************************************************************)
(* The query mailbox of fsearch (src/3rdparty/fsearch/database_search.c): *)
(* one caller thread (db_perform_search / db_search_update /              *)
(* db_search_free) and the dedicated search thread fsearch_search_thread, *)
(* sharing query_ctx, search_thread_started and search_thread_terminate   *)
(* under query_mutex and the condition variable search_thread_start_cond. *)
(*                                                                         *)
(* The caller's critical sections (lock; ...; unlock) touch nothing the   *)
(* search thread reads without the mutex, so each is one step, taken only *)
(* when the search thread does not hold the mutex.  The search thread     *)
(* holds the mutex at every control point except "waiting" (inside        *)
(* g_cond_wait), "reacquire" (woken, waiting for the mutex), "running"    *)
(* and "relock".  g_cond_signal wakes the waiter if there is one and is   *)
(* lost otherwise; g_cond_wait may also return spuriously.                *)
(*                                                                         *)
(* The search itself (db_search) is abstracted to the pair it delivers:   *)
(* the query and the search parameters it read; DbSearch models it.       *)
(***************************************************************************)
EXTENDS Naturals, Sequences, FiniteSets

CONSTANTS
    MaxQueries,   \* number of db_perform_search calls the caller makes
    Configs,      \* values db_search_update can store (entries, query, options)
    NoEntries,    \* the DatabaseSearch before the first db_search_update
    NoQuery       \* query_ctx == NULL

ASSUME MaxQueries \in Nat \ {0} /\ NoEntries \notin Configs

Queries == 1..MaxQueries

VARIABLES
    queryCtx,     \* search->query_ctx, the one-deep mailbox
    started,      \* search->search_thread_started
    terminate,    \* search->search_thread_terminate
    params,       \* the search parameters stored in the DatabaseSearch
    stPc,         \* control point of fsearch_search_thread
    current,      \* the query the search thread has taken (local `query`)
    clPc,         \* control point of the caller thread
    nextId,       \* the next query the caller creates
    qParams,      \* the parameters current when each query was created
    delivered,    \* callbacks invoked, in order: [q, params read by the search]
    freeCount,    \* number of fsearch_query_free calls per query
    superseded,   \* queries freed by db_search_queue before being taken
    discarded,    \* queries freed by db_search_free before being taken
    everWaited,   \* history: the search thread has entered g_cond_wait
    lateQueries   \* history: queries created after everWaited

vars == <<queryCtx, started, terminate, params, stPc, current, clPc, nextId,
          qParams, delivered, freeCount, superseded, discarded, everWaited,
          lateQueries>>

StPcs == {"init", "setStarted", "wait", "waiting", "reacquire", "checkTerm",
          "inner", "running", "relock", "exited"}
ClPcs == {"idle", "signal", "setTerm", "signalTerm", "join", "done"}

\* Control points at which fsearch_search_thread holds query_mutex.
HoldsMutex == {"setStarted", "wait", "checkTerm", "inner"}

MutexFree == stPc \notin HoldsMutex

\* g_cond_signal: wakes the search thread if it is blocked in g_cond_wait.
Wake == stPc' = IF stPc = "waiting" THEN "reacquire" ELSE stPc

Free(q) == freeCount' = [freeCount EXCEPT ![q] = @ + 1]

-----------------------------------------------------------------------------
(* Plausible slips in the code, used to show the properties can fail.      *)

\* query is taken but query_ctx is left pointing at it.
TakeQueryKeepsCtx ==
    /\ stPc = "inner" /\ queryCtx # NoQuery
    /\ current' = queryCtx
    /\ stPc' = "running"
    /\ UNCHANGED <<queryCtx, started, terminate, params, clPc, nextId, qParams,
                   delivered, freeCount, superseded, discarded, everWaited,
                   lateQueries>>

\* After a search the thread goes back to g_cond_wait without re-reading query_ctx.
RelockToOuterLoop ==
    /\ stPc = "relock" /\ MutexFree
    /\ stPc' = "setStarted"
    /\ UNCHANGED <<queryCtx, started, terminate, params, current, clPc, nextId,
                   qParams, delivered, freeCount, superseded, discarded,
                   everWaited, lateQueries>>

\* db_search_free frees the pending query but leaves query_ctx set.
FreeLockKeepsCtx ==
    /\ clPc = "idle" /\ MutexFree
    /\ IF queryCtx # NoQuery
          THEN /\ Free(queryCtx)
               /\ discarded' = discarded \cup {queryCtx}
          ELSE UNCHANGED <<freeCount, discarded>>
    /\ clPc' = "setTerm"
    /\ UNCHANGED <<queryCtx, started, terminate, params, stPc, current, nextId,
                   qParams, delivered, superseded, everWaited, lateQueries>>

\* The callback is handed query_ctx, which the thread has already cleared.
RunQueryFromCtx ==
    /\ stPc = "running"
    /\ delivered' = Append(delivered, [q |-> queryCtx, params |-> params])
    /\ Free(current)
    /\ stPc' = "relock"
    /\ UNCHANGED <<queryCtx, started, terminate, params, current, clPc, nextId,
                   qParams, superseded, discarded, everWaited, lateQueries>>

-----------------------------------------------------------------------------
(* fsearch_search_thread                                                  *)

\* g_mutex_lock at thread start.
StLock ==
    /\ stPc = "init" /\ MutexFree
    /\ stPc' = "setStarted"
    /\ UNCHANGED <<queryCtx, started, terminate, params, current, clPc, nextId,
                   qParams, delivered, freeCount, superseded, discarded,
                   everWaited, lateQueries>>

\* search_thread_started = true, with the mutex held.
SetStarted ==
    /\ stPc = "setStarted"
    /\ started' = TRUE
    /\ stPc' = "wait"
    /\ UNCHANGED <<queryCtx, terminate, params, current, clPc, nextId, qParams,
                   delivered, freeCount, superseded, discarded, everWaited,
                   lateQueries>>

\* g_cond_wait: releases the mutex and blocks.
CondWait ==
    /\ stPc = "wait"
    /\ stPc' = "waiting"
    /\ everWaited' = TRUE
    /\ UNCHANGED <<queryCtx, started, terminate, params, current, clPc, nextId,
                   qParams, delivered, freeCount, superseded, discarded,
                   lateQueries>>

\* g_cond_wait returns without a signal.
SpuriousWakeup ==
    /\ stPc = "waiting"
    /\ stPc' = "reacquire"
    /\ UNCHANGED <<queryCtx, started, terminate, params, current, clPc, nextId,
                   qParams, delivered, freeCount, superseded, discarded,
                   everWaited, lateQueries>>

\* g_cond_wait re-acquires the mutex before returning.
Reacquire ==
    /\ stPc = "reacquire" /\ MutexFree
    /\ stPc' = "checkTerm"
    /\ UNCHANGED <<queryCtx, started, terminate, params, current, clPc, nextId,
                   qParams, delivered, freeCount, superseded, discarded,
                   everWaited, lateQueries>>

\* if (search->search_thread_terminate) break; ... unlock; return.
CheckTerminate ==
    /\ stPc = "checkTerm"
    /\ stPc' = IF terminate THEN "exited" ELSE "inner"
    /\ UNCHANGED <<queryCtx, started, terminate, params, current, clPc, nextId,
                   qParams, delivered, freeCount, superseded, discarded,
                   everWaited, lateQueries>>

\* query_ctx is NULL: leave the inner loop, back to the outer loop's top.
InnerEmpty ==
    /\ stPc = "inner" /\ queryCtx = NoQuery
    /\ stPc' = "setStarted"
    /\ UNCHANGED <<queryCtx, started, terminate, params, current, clPc, nextId,
                   qParams, delivered, freeCount, superseded, discarded,
                   everWaited, lateQueries>>

\* query = query_ctx; query_ctx = NULL; g_mutex_unlock.
TakeQuery ==
    /\ stPc = "inner" /\ queryCtx # NoQuery
    /\ current' = queryCtx
    /\ queryCtx' = NoQuery
    /\ stPc' = "running"
    /\ UNCHANGED <<started, terminate, params, clPc, nextId, qParams, delivered,
                   freeCount, superseded, discarded, everWaited, lateQueries>>

\* db_search / db_search_empty, which read the parameters stored in the
\* DatabaseSearch without the mutex; query->callback; fsearch_query_free.
RunQuery ==
    /\ stPc = "running"
    /\ delivered' = Append(delivered, [q |-> current, params |-> params])
    /\ Free(current)
    /\ stPc' = "relock"
    /\ UNCHANGED <<queryCtx, started, terminate, params, current, clPc, nextId,
                   qParams, superseded, discarded, everWaited, lateQueries>>

\* g_mutex_lock at the end of the inner loop's body.
Relock ==
    /\ stPc = "relock" /\ MutexFree
    /\ stPc' = "inner"
    /\ UNCHANGED <<queryCtx, started, terminate, params, current, clPc, nextId,
                   qParams, delivered, freeCount, superseded, discarded,
                   everWaited, lateQueries>>

-----------------------------------------------------------------------------
(* The caller thread                                                      *)

\* db_search_update: stores entries, query and options in the DatabaseSearch.
DbSearchUpdate(c) ==
    /\ clPc = "idle"
    /\ params' = c
    /\ UNCHANGED <<queryCtx, started, terminate, stPc, current, clPc, nextId,
                   qParams, delivered, freeCount, superseded, discarded,
                   everWaited, lateQueries>>

\* db_perform_search (returns early while entries == NULL), then
\* db_search_queue's critical section: free a pending query, store the new.
DbPerformSearch ==
    /\ clPc = "idle" /\ nextId <= MaxQueries /\ MutexFree
    /\ params # NoEntries
    /\ IF queryCtx # NoQuery
          THEN /\ Free(queryCtx)
               /\ superseded' = superseded \cup {queryCtx}
          ELSE UNCHANGED <<freeCount, superseded>>
    /\ queryCtx' = nextId
    /\ qParams' = [qParams EXCEPT ![nextId] = params]
    /\ lateQueries' = IF everWaited THEN lateQueries \cup {nextId} ELSE lateQueries
    /\ nextId' = nextId + 1
    /\ clPc' = "signal"
    /\ UNCHANGED <<started, terminate, params, stPc, current, delivered,
                   discarded, everWaited>>

\* db_search_queue: while (!search_thread_started) usleep; g_cond_signal.
SignalQuery ==
    /\ clPc = "signal" /\ started
    /\ Wake
    /\ clPc' = "idle"
    /\ UNCHANGED <<queryCtx, started, terminate, params, current, nextId,
                   qParams, delivered, freeCount, superseded, discarded,
                   everWaited, lateQueries>>

\* db_search_free: results cleared, then the pending query freed under the mutex.
FreeLock ==
    /\ clPc = "idle" /\ MutexFree
    /\ IF queryCtx # NoQuery
          THEN /\ Free(queryCtx)
               /\ discarded' = discarded \cup {queryCtx}
          ELSE UNCHANGED <<freeCount, discarded>>
    /\ queryCtx' = NoQuery
    /\ clPc' = "setTerm"
    /\ UNCHANGED <<started, terminate, params, stPc, current, nextId, qParams,
                   delivered, superseded, everWaited, lateQueries>>

\* search->search_thread_terminate = true, without the mutex.
SetTerminate ==
    /\ clPc = "setTerm"
    /\ terminate' = TRUE
    /\ clPc' = "signalTerm"
    /\ UNCHANGED <<queryCtx, started, params, stPc, current, nextId, qParams,
                   delivered, freeCount, superseded, discarded, everWaited,
                   lateQueries>>

\* g_cond_signal(&search->search_thread_start_cond).
SignalTerminate ==
    /\ clPc = "signalTerm"
    /\ Wake
    /\ clPc' = "join"
    /\ UNCHANGED <<queryCtx, started, terminate, params, current, nextId,
                   qParams, delivered, freeCount, superseded, discarded,
                   everWaited, lateQueries>>

\* g_thread_join, then the DatabaseSearch is freed.
Join ==
    /\ clPc = "join" /\ stPc = "exited"
    /\ clPc' = "done"
    /\ UNCHANGED <<queryCtx, started, terminate, params, stPc, current, nextId,
                   qParams, delivered, freeCount, superseded, discarded,
                   everWaited, lateQueries>>

\* After db_search_free has returned nothing is left to run.
Finished == clPc = "done" /\ UNCHANGED vars

-----------------------------------------------------------------------------
\* db_search_new: calloc'd DatabaseSearch, then g_thread_new.
Init ==
    /\ queryCtx = NoQuery
    /\ started = FALSE
    /\ terminate = FALSE
    /\ params = NoEntries
    /\ stPc = "init"
    /\ current = NoQuery
    /\ clPc = "idle"
    /\ nextId = 1
    /\ qParams = [q \in Queries |-> NoEntries]
    /\ delivered = <<>>
    /\ freeCount = [q \in Queries |-> 0]
    /\ superseded = {}
    /\ discarded = {}
    /\ everWaited = FALSE
    /\ lateQueries = {}

SearchThreadStep ==
    \/ StLock \/ SetStarted \/ CondWait \/ Reacquire \/ CheckTerminate
    \/ InnerEmpty \/ TakeQuery \/ RunQuery \/ Relock

CallerStep ==
    \/ \E c \in Configs : DbSearchUpdate(c)
    \/ DbPerformSearch \/ SignalQuery \/ FreeLock
    \/ SetTerminate \/ SignalTerminate \/ Join

Next == SearchThreadStep \/ SpuriousWakeup \/ CallerStep \/ Finished

(* Both threads are scheduled by the OS: once the search thread can move it *)
(* eventually does, and the caller, once inside db_search_queue or          *)
(* db_search_free, runs on to the function's end.  Whether the caller ever *)
(* calls db_perform_search, db_search_update or db_search_free is up to the *)
(* user, and a spurious wakeup is never guaranteed: neither is fair.        *)
Fairness ==
    /\ WF_vars(SearchThreadStep)
    /\ WF_vars(SignalQuery) /\ WF_vars(SetTerminate)
    /\ WF_vars(SignalTerminate) /\ WF_vars(Join)

Spec == Init /\ [][Next]_vars /\ Fairness

-----------------------------------------------------------------------------
TypeOK ==
    /\ queryCtx \in Queries \cup {NoQuery}
    /\ started \in BOOLEAN /\ terminate \in BOOLEAN
    /\ params \in Configs \cup {NoEntries}
    /\ stPc \in StPcs /\ clPc \in ClPcs
    /\ current \in Queries \cup {NoQuery}
    /\ nextId \in 1..MaxQueries + 1
    /\ qParams \in [Queries -> Configs \cup {NoEntries}]
    /\ delivered \in Seq([q : Queries, params : Configs \cup {NoEntries}])
    /\ freeCount \in [Queries -> Nat]
    /\ superseded \subseteq Queries /\ discarded \subseteq Queries
    /\ everWaited \in BOOLEAN /\ lateQueries \subseteq Queries

DeliveredSet == {delivered[i].q : i \in DOMAIN delivered}

Answered(q) == q \in DeliveredSet \cup superseded \cup discarded

(* Ownership of FsearchQuery objects between the two threads: every query *)
(* is freed at most once (by db_search_queue, db_search_free or the search *)
(* thread after its callback), and neither the query in query_ctx nor the  *)
(* one the search thread is running has been freed.                        *)
QueryOwnership ==
    /\ \A q \in Queries : freeCount[q] <= 1
    /\ queryCtx # NoQuery => freeCount[queryCtx] = 0
    /\ stPc = "running" => freeCount[current] = 0

(* "Latest query wins": callbacks are invoked for queries in the order they *)
(* were created, each at most once, and never for a query that             *)
(* db_search_queue superseded or db_search_free discarded.                 *)
LatestQueryWins ==
    /\ \A i, j \in DOMAIN delivered : i < j => delivered[i].q < delivered[j].q
    /\ DeliveredSet \cap (superseded \cup discarded) = {}

(* A query created once the search thread has reached g_cond_wait is       *)
(* eventually answered by its callback, or superseded or discarded: the    *)
(* search thread re-reads query_ctx after every search, so a signal sent   *)
(* while it runs is not needed.                                            *)
LateQueryAnswered ==
    \A q \in Queries : q \in lateQueries ~> Answered(q)

(* Every query db_perform_search creates is eventually answered, superseded *)
(* or discarded (the comment in db_search_queue: the spin on               *)
(* search_thread_started makes sure the search thread is waiting).         *)
QueryAnswered ==
    \A q \in Queries : q < nextId ~> Answered(q)

(* db_search_free returns: once it has set search_thread_terminate, the    *)
(* search thread exits and g_thread_join returns.                          *)
FreeReturns ==
    clPc = "setTerm" ~> clPc = "done"

(* The search pipeline never blocks, which the comment before the spin in  *)
(* db_search_queue promises ("make sure the search thread is waiting,      *)
(* otherwise the flow blocks"): every query is answered and db_search_free *)
(* returns - neither signal, of a query or of the terminate flag, is lost. *)
FlowNeverBlocks == QueryAnswered /\ FreeReturns

(* Whether a search runs with its own request's parameters is checked by *)
(* SearchPipeline, where the parameters are the search's own.              *)

=============================================================================
