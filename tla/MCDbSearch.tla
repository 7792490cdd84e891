----------------------------- MODULE MCDbSearch -----------------------------
(***************************************************************************)
(* Instantiates DbSearch with three kinds of node and every request built *)
(* from four query texts, all filters, caps 0..2, both path settings   *)
(* and two option sets.                                                    *)
(***************************************************************************)
EXTENDS DbSearch

\* Verdicts differ between matchers, so that choosing another matcher
\* changes the result: a folder whose name (hence path) the query matches
\* only case-insensitively, as a regex (e.g. "a*" against "A1"), and only
\* by its ASCII path under the codepoint-aware matcher.
DirName  == [isDir |-> TRUE, hasPy |-> FALSE,
             hits |-> [q \in QueryIds |->
                         CASE q = "normal"   -> {}
                           [] q = "icase_u8" -> {"path"}
                           [] OTHER          -> {"name", "path"}]]
\* A file matching only through its full path.
FilePath == [isDir |-> FALSE, hasPy |-> FALSE, hits |-> [q \in QueryIds |-> {"path"}]]
\* A file matching only through its full pinyin name.
FilePy   == [isDir |-> FALSE, hasPy |-> TRUE,  hits |-> [q \in QueryIds |-> {"fullPy"}]]

MCNodeSet == {DirName, FilePath, FilePy}

MaxCap == 2

\* Name-only search without pinyin; automatic path search with pinyin.
MCOptions ==
    {[searchInPath |-> FALSE, autoSearchInPath |-> FALSE, enablePy |-> FALSE],
     [searchInPath |-> FALSE, autoSearchInPath |-> TRUE,  enablePy |-> TRUE]}

\* Whether an empty query with max_results 0 (unlimited) is considered.
CONSTANT ZeroCapEmptyQuery

\* Query texts: empty; a separator behind a leading space; a two-byte
\* character; a regex metacharacter.
MCTexts == {<<>>, <<" ", "a", "/">>, <<"mb">>, <<"a", "*">>}

\* Field values that do not influence a request of its kind are fixed.
MCRequests ==
    {r \in [text : MCTexts, matchCase : BOOLEAN, enableRegex : BOOLEAN,
            compiles : BOOLEAN, filter : Filters, maxResults : 0..MaxCap,
            hide : BOOLEAN, opts : MCOptions] :
        /\ ~(IsRegex(r.text) /\ r.enableRegex) => r.compiles
        /\ r.text # <<>> => ~r.hide
        /\ r.text = <<>> =>
              /\ ~r.enableRegex /\ ~r.matchCase
              /\ r.opts = CHOOSE o \in MCOptions : ~o.enablePy
              /\ (~ZeroCapEmptyQuery /\ ~r.hide) => r.maxResults > 0}

=============================================================================
