SPECIFICATION FairSpec
CONSTANTS
    w1 = w1
    w2 = w2
    u1 = u1
    g1 = g1
    g2 = g2
    Wallets = {w1, w2}
    Users = {u1}
    Owner <- MCTwoWallets
    Calls = {c1, c2}
    Ids = {i1, i2}
    RoundIds = {i1, i2}
    None = None
    MaxSafe = 1
    AdjustAmounts = {1}
    MaxEntries = 1
    Keys = {k1}
    Games = {g1, g2}
    Offered <- MCOfferedAll
    Limits <- MCOneLimit
    Options = {94}
    Params = {p0}
    EmptyObject = p0
    Stakes = {1}
    Outcomes <- MCLoss
    BigWin = 2
    Operations = {"play"}
INVARIANTS
    OneRoundPerKey
PROPERTIES
    CallsEnd
