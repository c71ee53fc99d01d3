------------------------------- MODULE Wagering -------------------------------
(***************************************************************************)
(* What game rounds promise, with no calls, locks or keys: a played bet     *)
(* takes its stake and pays its win in one step; a bet placed on its own is *)
(* resolved or voided once, and voiding returns exactly the stake; funds    *)
(* never leave 0..MaxFunds, not even between a stake and its win.  Rounds   *)
(* implements this.                                                         *)
(***************************************************************************)
EXTENDS Integers

CONSTANTS Wallets, BetIds, None, MaxFunds

VARIABLES
    funds,      \* what each wallet can spend
    bet         \* a bet's wallet, stake, state and win, or None

vars == <<funds, bet>>

Init ==
    /\ funds = [w \in Wallets |-> 0]
    /\ bet = [id \in BetIds |-> None]

Open(id) == bet[id] # None /\ bet[id].state = "open"

Place(id, w, stake) ==
    /\ bet[id] = None
    /\ stake <= funds[w]
    /\ funds' = [funds EXCEPT ![w] = @ - stake]
    /\ bet' = [bet EXCEPT ![id] = [w |-> w, stake |-> stake, state |-> "open", win |-> None]]

Play(id, w, stake, win) ==
    /\ bet[id] = None
    /\ stake <= funds[w]
    /\ funds[w] - stake + win <= MaxFunds
    /\ funds' = [funds EXCEPT ![w] = @ - stake + win]
    /\ bet' = [bet EXCEPT ![id] = [w |-> w, stake |-> stake, state |-> "resolved", win |-> win]]

Resolve(id, win) ==
    /\ Open(id)
    /\ funds[bet[id].w] + win <= MaxFunds
    /\ funds' = [funds EXCEPT ![bet[id].w] = @ + win]
    /\ bet' = [bet EXCEPT ![id].state = "resolved", ![id].win = win]

Void(id) ==
    /\ Open(id)
    /\ funds[bet[id].w] + bet[id].stake <= MaxFunds
    /\ funds' = [funds EXCEPT ![bet[id].w] = @ + bet[id].stake]
    /\ bet' = [bet EXCEPT ![id].state = "void"]

\* Any other movement on the wallet.
Move(w, after) ==
    /\ funds' = [funds EXCEPT ![w] = after]
    /\ UNCHANGED bet

Next ==
    \/ \E id \in BetIds, w \in Wallets, stake \in 1..MaxFunds :
          Place(id, w, stake) \/ \E win \in 0..MaxFunds : Play(id, w, stake, win)
    \/ \E id \in BetIds : Void(id) \/ \E win \in 0..MaxFunds : Resolve(id, win)
    \/ \E w \in Wallets, after \in 0..MaxFunds : Move(w, after)

Spec == Init /\ [][Next]_vars
===============================================================================
