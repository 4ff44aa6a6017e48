CONSTANTS
    d1 = d1
    d2 = d2
    Nil = Nil
    Uid = {u1, u2, u3}
    Contents <- CrashContents
    Reserves = {0}
    DataAlgos = {"Sha256"}
    TableAlgos = {"Sha256"}
    FirstCapacities = {2}
    MaxEntries = 2
    OpenCapacity = 16
    MaxEof = 10
SYMMETRY CrashSymmetry
SPECIFICATION CrashSpec
CHECK_DEADLOCK FALSE
INVARIANTS
    CrashDetected
    OverflowIsAtomic
    CrashConfined
    InspectorNotices
