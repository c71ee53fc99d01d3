SPECIFICATION Spec
CONSTANTS
    w1 = w1
    u1 = u1
    Wallets = {w1}
    Users = {u1}
    Owner <- MCOwner
    Calls = {c1, c2}
    Ids = {i1, i2}
    DepositIds = {i1, i2}
    None = None
    MaxSafe = 3
    AdjustAmounts = {2}
    MaxEntries = 1
    Keys = {k1, k2}
    Methods = {m1}
    Amounts = {1, 2, 3}
    MinMinor = 1
    MaxMinor = 2
SYMMETRY MCSymmetry
INVARIANTS
    TypeOK
    LedgerSound
    CreditedOnce
    OneAnswerPerKey
    ProofMatchesRow
