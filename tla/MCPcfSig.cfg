SPECIFICATION
    MCSpec
CONSTANTS
    Uid = {u1, u2, u3, u4}
    Contents = {a, b}
    Key = {k1, k2}
    Crypto = {"sha256"}
    Weak = {"crc32c"}
    MaxCalls = 4
SYMMETRY
    Symmetric
INVARIANTS
    ValidMeansAsSigned
PROPERTIES
    SigningIsAdditive
    SigningConverges
CHECK_DEADLOCK FALSE
