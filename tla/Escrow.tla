-------------------------------- MODULE Escrow --------------------------------
(***************************************************************************)
(* What withdrawals promise, with no calls, locks or keys: a claim takes    *)
(* its amount out of the funds at once; it is then either paid, which moves *)
(* nothing, or returned in full; one claim of a wallet is open at a time;   *)
(* funds never leave 0..MaxFunds.  Withdrawals implements this.             *)
(***************************************************************************)
EXTENDS Integers

CONSTANTS Wallets, ClaimIds, None, MaxFunds

VARIABLES
    funds,      \* what each wallet can spend
    claim       \* a claim's wallet, amount and state, or None

vars == <<funds, claim>>

Init ==
    /\ funds = [w \in Wallets |-> 0]
    /\ claim = [id \in ClaimIds |-> None]

Open(id) == claim[id] # None /\ claim[id].state = "held"

Claim(id, w, amount) ==
    /\ claim[id] = None
    /\ \A other \in ClaimIds : Open(other) => claim[other].w # w
    /\ amount <= funds[w]
    /\ funds' = [funds EXCEPT ![w] = @ - amount]
    /\ claim' = [claim EXCEPT ![id] = [w |-> w, amount |-> amount, state |-> "held"]]

Pay(id) ==
    /\ Open(id)
    /\ claim' = [claim EXCEPT ![id].state = "paid"]
    /\ UNCHANGED funds

Return(id) ==
    /\ Open(id)
    /\ funds[claim[id].w] + claim[id].amount <= MaxFunds
    /\ claim' = [claim EXCEPT ![id].state = "returned"]
    /\ funds' = [funds EXCEPT ![claim[id].w] = @ + claim[id].amount]

\* Any other movement on the wallet.
Move(w, after) ==
    /\ funds' = [funds EXCEPT ![w] = after]
    /\ UNCHANGED claim

Next ==
    \/ \E id \in ClaimIds : Pay(id) \/ Return(id)
    \/ \E id \in ClaimIds, w \in Wallets, amount \in 1..MaxFunds : Claim(id, w, amount)
    \/ \E w \in Wallets, after \in 0..MaxFunds : Move(w, after)

Spec == Init /\ [][Next]_vars
===============================================================================
