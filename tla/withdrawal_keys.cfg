SPECIFICATION FairSpec
CONSTANTS
    w1 = w1
    w2 = w2
    u1 = u1
    Wallets = {w1, w2}
    Users = {u1}
    Owner <- MCTwoWallets
    Calls = {c1, c2}
    Ids = {i1, i2}
    WithdrawalIds = {i1, i2}
    None = None
    MaxSafe = 2
    AdjustAmounts = {1, 2}
    MaxEntries = 1
    Keys = {k1}
    Methods = {m1}
    Amounts = {1, 2}
    MinMinor = 1
    MaxMinor = 2
INVARIANTS
    IdempotentCreate
PROPERTIES
    CallsEnd
