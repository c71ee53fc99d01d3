\* Nobody can do anything once every account is closed or suspended.
CHECK_DEADLOCK FALSE
SPECIFICATION FairSpec
CONSTANTS
    Users = {u1, u2}
    Seeded = {u1, u2}
    Admins = {u1, u2}
    Passwords = {p1}
    SessionIds = {s1, s2}
    TokenIds = {}
    Calls = {c1, c2}
    MaxLog = 1
    None = None
INVARIANTS
    AuditChains
PROPERTIES
    CallsEnd
