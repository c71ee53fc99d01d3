------------------------------ MODULE MCAccounts ------------------------------
EXTENDS Accounts, TLC

MCSymmetry == Permutations(Calls) \cup Permutations(SessionIds) \cup Permutations(TokenIds)
===============================================================================
