CONSTANTS
    r = r
    a = a
    b = b
    fr = fr
    fa = fa
    fb = fb
    FileSystems <- MCFileSystems
    Tasks = {"create", "update"}
    OldIndexes <- MCOldIndexes
    RootSlashes = 1
    DepthLimit = 4
    WriterFails = TRUE
    FileFails = TRUE
SPECIFICATION Spec
INVARIANTS CreateOnSuccess UpdateKeepsOneCurrentDoc
PROPERTIES  HandlerReturns
