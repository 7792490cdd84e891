\* An empty query with max_results 0 ("unlimited") against the spec.
CONSTANTS
    NodeSet <- MCNodeSet
    Requests <- MCRequests
    Absent = Absent
    MaxEntries = 3
    PoolSize = 2
    ZeroCapEmptyQuery = TRUE
SPECIFICATION Spec
PROPERTY ImplementsSearchSpec
