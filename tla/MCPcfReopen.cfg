CONSTANTS
    a = a
    Nil = Nil
    Uid = {u1, u2}
    Contents <- MCContents
    Reserves = {0, 1}
    DataAlgos = {"Sha256"}
    TableAlgos = {"Sha256"}
    FirstCapacities = {0}
    MaxEntries = 2
    OpenCapacity = 16
    MaxEof = 30
    MaxGrowth = 3
SYMMETRY Symmetry
SPECIFICATION MCReopenSpec
INVARIANTS
    AlwaysVerifies
