\* A db_search_update while a query waits or runs: the callback's result.
CONSTANTS
    NodeSet <- MCNodeSet
    Requests <- MCRequests
    Corpora <- MCCorpora
    Absent = Absent
    MaxEntries = 2
    PoolSize = 2
    MaxQueries = 2
    NoQuery = NoQuery
SPECIFICATION Spec
INVARIANT ResultsAsRequested
