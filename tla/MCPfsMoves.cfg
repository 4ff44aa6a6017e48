SPECIFICATION
    MCUnsafeSpec
CONSTANTS
    Empty = Empty
    n1 = n1
    n2 = n2
    c1 = c1
    c2 = c2
    Paths <- MCPaths
    Contents <- MCContents
    Hosts <- MCHosts
    Batches <- MCBatches
    SmallPatch <- MCSmallPatch
    ReaderDepth = 2
    RecommendedDepth = 1
    MaxSessions = 5
    MaxCalls = 4
INVARIANTS
    Acyclic
CHECK_DEADLOCK FALSE
