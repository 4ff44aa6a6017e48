SPECIFICATION
    MCSpec
CONSTANTS
    Nil = Nil
    byte = byte
    node1 = node1
    node2 = node2
    Sessions <- MCSessions
    Algos = {"None", "Sha256"}
    MaxEntries = 2
    MaxEof = 19
    MaxFaults = 2
INVARIANTS
    AlwaysVerifies
    WriterKnowsItsHead
PROPERTIES
    IsALog
    CommittedBytesStay
