------------------------------ MODULE MCDeposits ------------------------------
EXTENDS Deposits, TLC

CONSTANTS w1, u1

MCOwner == [w \in {w1} |-> u1]
MCSymmetry == Permutations(Calls) \cup Permutations(DepositIds) \cup Permutations(Keys)
===============================================================================
