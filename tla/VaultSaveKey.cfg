CONSTANTS
    pw = pw
    pu = pu
    Paths <- MCPaths
    Writable <- MCWritable
SPECIFICATION Spec
INVARIANT KeyPathWritable
