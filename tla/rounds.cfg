SPECIFICATION Spec
CONSTANTS
    w1 = w1
    w2 = w2
    u1 = u1
    g1 = g1
    g2 = g2
    Wallets = {w1}
    Users = {u1}
    Owner <- MCOneWallet
    Calls = {c1, c2}
    Ids = {i1, i2}
    RoundIds = {i1, i2}
    None = None
    MaxSafe = 3
    AdjustAmounts = {2}
    MaxEntries = 1
    Keys = {k1, k2}
    Games = {g1}
    Offered <- MCOffered
    Limits <- MCOneLimit
    Options = {94}
    Params = {p0}
    EmptyObject = p0
    Stakes = {1}
    Outcomes <- MCTwoOutcomes
    BigWin = 2
    Operations = {"play", "open", "settle", "cancel"}
SYMMETRY MCSymmetry
INVARIANTS
    TypeOK
    LedgerSound
    MoneyFollowsRound
    BigWinsAreTold
PROPERTIES
    ClosedIsFinal
    PlaysAreBets
