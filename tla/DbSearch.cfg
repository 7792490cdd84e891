\* One search: partitioning, concurrent workers, aggregation, against the spec.
\* Empty queries with max_results 0 are left to DbSearch_EmptyQueryUnlimited.cfg.
CONSTANTS
    NodeSet <- MCNodeSet
    Requests <- MCRequests
    Absent = Absent
    MaxEntries = 3
    PoolSize = 2
    ZeroCapEmptyQuery = FALSE
SPECIFICATION FairSpec
INVARIANT TypeOK
INVARIANT PartitionTiles
PROPERTY ImplementsSearchSpec
PROPERTY SearchCompletes
