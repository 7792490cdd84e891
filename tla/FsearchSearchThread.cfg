\* Safety of the mailbox and progress of queries created after start-up.
CONSTANTS
    MaxQueries = 3
    Configs <- MCConfigs
    NoEntries = NoEntries
    NoQuery = NoQuery
SPECIFICATION Spec
INVARIANT TypeOK
INVARIANT QueryOwnership
INVARIANT LatestQueryWins
PROPERTY LateQueryAnswered
