SPECIFICATION
    PowerSpec
CONSTANTS
    Nil = Nil
    byte = byte
    node1 = node1
    node2 = node2
    Sessions <- SmallSessions
    Algos = {"Sha256"}
    MaxEntries = 2
    MaxEof = 14
    MaxFaults = 0
INVARIANTS
    SettledSurvive
CHECK_DEADLOCK FALSE
