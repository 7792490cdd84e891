--------------------------- MODULE MCFsearchMatch ---------------------------
(***************************************************************************)
(* Checks the acceptance decision of both worker bodies against the spec's *)
(* definition over every node, query chain of up to two queries, filter    *)
(* and option setting built from two query texts.                          *)
(***************************************************************************)
EXTENDS FsearchMatch

QueryIds == {"a", "b"}

VARIABLES node, queries, filter, opts
vars == <<node, queries, filter, opts>>

Init ==
    /\ node \in Node(QueryIds)
    /\ queries \in UNION {[1..n -> Query(QueryIds)] : n \in 0..2}
    /\ filter \in Filters
    /\ opts \in Options

\* The inputs do not change: each state is one evaluation.
Next == UNCHANGED vars

Spec == Init /\ [][Next]_vars

(* search_thread accepts a node exactly when the spec's AND-chain with     *)
(* transliteration fallback does, and search_regex_thread, which looks at  *)
(* queries[0] only, agrees with it on one-query chains.                    *)
AcceptanceAgrees ==
    /\ SearchAccepts(node, queries, filter, opts)
         = SpecAccepts(node, queries, filter, opts)
    /\ Len(queries) = 1 =>
         RegexAccepts(node, queries[1], filter, opts)
           = SpecAccepts(node, queries, filter, opts)

=============================================================================
