SPECIFICATION
    MCSpec
CONSTANTS
    Nil = Nil
    byte = byte
    node1 = node1
    node2 = node2
    Sessions <- NestedSessions
    Algos = {"None", "Sha256"}
    MaxEntries = 2
    MaxEof = 20
    MaxFaults = 2
PROPERTIES
    IsALog
