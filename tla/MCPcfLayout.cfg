CONSTANTS
    HeaderSize = 20
    TableHeaderSize = 74
    EntrySize = 141
    TrailerSize = 20
    MaxEntries = 2
    OpenCapacity = 16
    FirstCapacities = {0, 1, 2}
    Uid = {u1, u2, u3}
    Lengths = {0, 150}
    Reserves = {0, 90}
    MaxEof = 740
SYMMETRY Symmetry
SPECIFICATION SafeSpec
INVARIANTS
    TypeOK
    RegionsDisjoint
    TrailerApart
    CountsMatch
    CursorAhead
    Present
