------------------------------- MODULE MCRounds -------------------------------
EXTENDS Rounds, TLC

CONSTANTS w1, w2, u1, g1, g2

MCOneWallet == [w \in {w1} |-> u1]
MCTwoWallets == [w \in {w1, w2} |-> u1]

MCOffered == {<<g1, w1>>}
MCOfferedAll == {g1, g2} \X {w1, w2}

\* 1 and 3 are allowed by the first, 1 and 2 by the second.
MCLimits == {[min |-> 1, max |-> 3, step |-> 2], [min |-> 1, max |-> 2, step |-> 1]}
MCOneLimit == {[min |-> 1, max |-> 2, step |-> 1]}

MCLoss == {[win |-> 0, multiplier |-> 0]}
MCTwoOutcomes == {[win |-> 0, multiplier |-> 0], [win |-> 2, multiplier |-> 2]}

MCSymmetry == Permutations(Calls) \cup Permutations(RoundIds) \cup Permutations(Keys)
===============================================================================
