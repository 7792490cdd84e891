CONSTANTS
    MaxQueries = 3
    Configs <- MCConfigs
    NoEntries = NoEntries
    NoQuery = NoQuery
SPECIFICATION Spec
PROPERTY FlowNeverBlocks
