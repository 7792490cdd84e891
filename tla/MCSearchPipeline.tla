--------------------------- MODULE MCSearchPipeline ---------------------------
(***************************************************************************)
(* Two requests for the same text that differ in their filter, over a     *)
(* folder and a file that both match it; two pool threads, two queries.   *)
(***************************************************************************)
EXTENDS SearchPipeline

MCQueryIds == {"normal", "icase", "icase_u8", "regex", "regex_icase"}

Dir  == [isDir |-> TRUE,  hasPy |-> FALSE, hits |-> [q \in MCQueryIds |-> {"name", "path"}]]
File == [isDir |-> FALSE, hasPy |-> FALSE, hits |-> [q \in MCQueryIds |-> {"name", "path"}]]

MCNodeSet == {Dir, File}

MCCorpora == {<<Dir, File>>}

Opts == [searchInPath |-> FALSE, autoSearchInPath |-> FALSE, enablePy |-> FALSE]

MCRequests ==
    {[text |-> <<"m", "b">>, matchCase |-> FALSE, enableRegex |-> FALSE,
      compiles |-> TRUE, filter |-> f, maxResults |-> 0, hide |-> FALSE,
      opts |-> Opts] : f \in {"files", "folders"}}

=============================================================================
