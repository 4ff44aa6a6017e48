SPECIFICATION
    MCSpec
CONSTANTS
    box1 = box1
    box2 = box2
    byte1 = byte1
    byte2 = byte2
    Byte <- MCByte
    MaxPerBlock = 2
    Uid = {u1, u2, u3}
    Containers <- MCContainers
    Algo = {"sha256"}
    TableAlgo = {"sha256", "none"}
    Contents <- MCContents
    Insertions <- MCInsertions
    ChunkSizes = {0, 1}
    MaxCalls = 4
SYMMETRY
    Symmetric
INVARIANTS
    TypeOK
    SharedMarked
    AlwaysVerifies
    TablesProtected
PROPERTIES
    CompactionNormalises
    DedupComplete
    IsAStore
CHECK_DEADLOCK FALSE
