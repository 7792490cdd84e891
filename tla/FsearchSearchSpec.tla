-------------------------- MODULE FsearchSearchSpec --------------------------
(***************************************************************************)
(* What one search promises (spec sections 4.1-4.6 and 8), in one step:   *)
(* the matching entries in index order, truncated to the cap (0 means     *)
(* unlimited), at dense zero-based positions, with folder and file        *)
(* counts.  An empty query lists every entry passing the filter, or       *)
(* nothing when hide_results is set; a regex that does not compile        *)
(* yields no results.                                                      *)
(***************************************************************************)
EXTENDS Naturals, Sequences, FiniteSets, FsearchMatch, QueryCompiler

CONSTANTS
    NodeSet,      \* BTreeNode values an entry may hold
    Absent,       \* darray_get_item returned NULL
    MaxEntries,   \* bound on num_entries
    Requests      \* the search requests considered

QueryIds == MatcherIds

VARIABLES entries, req, phase, result, numFolders, numFiles

Entry == NodeSet \cup {Absent}

\* The compiled query of the request.
TheQuery(r) == SpecCompile(r.text, r.matchCase, r.enableRegex)

RegexMode(r) == SpecRegexMode(r.text, r.enableRegex)

\* Truncation to a cap where 0 means unlimited.
Truncate(s, cap) == IF cap = 0 THEN s ELSE SubSeq(s, 1, IF cap < Len(s) THEN cap ELSE Len(s))

\* Zero-based indices of the present entries satisfying P, in index order.
Indices(P(_)) ==
    LET Ok(i) == entries[i + 1] # Absent /\ P(entries[i + 1])
    IN SelectSeq([k \in 1..Len(entries) |-> k - 1], Ok)

Expected ==
    LET Listed(n) == FilterNode(n, req.filter)
        Matched(n) == SpecAccepts(n, <<TheQuery(req)>>, req.filter, req.opts)
    IN IF SpecTrim(req.text) = <<>>
          THEN IF req.hide THEN <<>> ELSE Truncate(Indices(Listed), req.maxResults)
       ELSE IF RegexMode(req) /\ ~req.compiles THEN <<>>
       ELSE Truncate(Indices(Matched), req.maxResults)

\* A result sequence built from entry indices, with positions 0, 1, ...
Numbered(s) == [k \in 1..Len(s) |-> [node |-> s[k], pos |-> k - 1]]

CountDirs(res, isDir) ==
    Cardinality({k \in DOMAIN res : entries[res[k].node + 1].isDir = isDir})

Init ==
    /\ entries \in UNION {[1..n -> Entry] : n \in 0..MaxEntries}
    /\ req \in Requests
    /\ phase = "start"
    /\ result = <<>> /\ numFolders = 0 /\ numFiles = 0

Answer ==
    /\ phase = "start"
    /\ result' = Numbered(Expected)
    /\ numFolders' = CountDirs(Numbered(Expected), TRUE)
    /\ numFiles' = CountDirs(Numbered(Expected), FALSE)
    /\ phase' = "done"
    /\ UNCHANGED <<entries, req>>

Spec == Init /\ [][Answer]_<<entries, req, phase, result, numFolders, numFiles>>

=============================================================================
