\* Nobody can do anything once every account is closed.
CHECK_DEADLOCK FALSE
SPECIFICATION Spec
CONSTANTS
    Users = {u1}
    Seeded = {}
    Admins = {}
    Passwords = {p1, p2}
    SessionIds = {s1, s2, s3, s4}
    TokenIds = {k1, k2}
    Calls = {c1, c2, c3}
    MaxLog = 0
    None = None
SYMMETRY MCSymmetry
INVARIANTS
    TypeOK
PROPERTIES
    PasswordsChangeByProof
    RevocationLeavesNone
    ResetsLeaveNoToken
