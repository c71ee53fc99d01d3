----------------------------- MODULE MCWithdrawals -----------------------------
EXTENDS Withdrawals, TLC

CONSTANTS w1, w2, u1

MCTwoWallets == [w \in {w1, w2} |-> u1]
MCSymmetry == Permutations(Calls) \cup Permutations(WithdrawalIds) \cup Permutations(Keys)
    \cup Permutations({w1, w2})
===============================================================================
