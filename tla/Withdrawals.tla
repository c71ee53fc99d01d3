------------------------------ MODULE Withdrawals ------------------------------
(***************************************************************************)
(* Withdrawal requests (backend/internal/withdrawal).  Create debits the    *)
(* wallet in the transaction that records the request; an approval moves no *)
(* money; a rejection or a cancellation returns the amount.                 *)
(*                                                                          *)
(* One action per database statement after which another transaction can    *)
(* act: a lock, a blocking insert, a commit.  A call whose transaction      *)
(* changes nothing (a replay, a refusal, an abort) goes back to idle.       *)
(***************************************************************************)
EXTENDS Wallet

CONSTANTS
    WithdrawalIds,          \* ids newID can draw
    Keys,                   \* Idempotency-Key headers
    Methods,                \* payment methods
    Amounts,                \* amounts a player may ask for
    MinMinor, MaxMinor      \* currencies.withdrawal_min_minor / _max_minor

ASSUME WithdrawalsAssumption ==
    /\ WithdrawalIds \subseteq Ids
    /\ None \notin Keys \cup Methods \cup Wallets
    /\ Amounts \subseteq Nat \ {0}
    /\ MinMinor \in Nat /\ MaxMinor \in Nat

VARIABLES
    requests,       \* withdrawal_requests rows, or None
    requestLock,    \* the call holding a request row FOR UPDATE
    enabled,        \* payment_methods.enabled
    notices,        \* notifications
    answers         \* history: the request each accepted Create answered with

requestVars == <<requests, requestLock, enabled, notices, answers>>
vars == <<walletVars, pc, arg, trail, requestVars>>

Request == [key : Keys, w : Wallets, method : Methods, amount : Amounts,
            status : {"pending", "approved", "rejected", "cancelled"}]
ASSUME RequestAssumption == None \notin Request

Args == [w : Wallets \cup {None}, id : WithdrawalIds \cup {None}, key : Keys \cup {None},
         method : Methods \cup {None}, amount : Int, seen : Int]
Steps == {"idle", "adjusted", "locked", "new", "held", "inserted", "race",
          "approving", "rejecting", "cancelling", "rejected", "cancelled"}
CreateSteps == {"locked", "new", "held", "inserted", "race"}
\* Calls that hold a request row: between lockRequest and the commit.
ReviewSteps == {"approving", "rejecting", "cancelling", "rejected", "cancelled"}

Init ==
    /\ WalletInit
    /\ requests = [id \in WithdrawalIds |-> None]
    /\ requestLock = [id \in WithdrawalIds |-> None]
    /\ enabled = Methods
    /\ notices = {}
    /\ answers = {}

Recorded == {id \in WithdrawalIds : requests[id] # None}

-----------------------------------------------------------------------------
(* Create *)

\* getByIdempotencyKey: the committed request of this user and key.
ByIdempotencyKey(t) ==
    {id \in Recorded : /\ requests[id].key = arg[t].key
                       /\ Owner[requests[id].w] = Owner[arg[t].w]}

matches(t, id) ==
    /\ requests[id].w = arg[t].w
    /\ requests[id].method = arg[t].method
    /\ requests[id].amount = arg[t].amount

\* Mutant: the check is left to the partial unique index.
NeverPending(w) == FALSE

hasPending(w) == \E id \in Recorded : requests[id].w = w /\ requests[id].status = "pending"

Body(t) == [key |-> arg[t].key, w |-> arg[t].w, method |-> arg[t].method, amount |-> arg[t].amount]
Answer(t, id) == answers' = answers \cup {[body |-> Body(t), id |-> id]}

\* lockWallet: the first statement of create.
LockWallet(t, key, w, method, amount) ==
    /\ pc[t] = "idle"
    /\ LockWalletRow(t, w)
    /\ pc' = [pc EXCEPT ![t] = "locked"]
    /\ arg' = [arg EXCEPT ![t] = [w |-> w, id |-> None, key |-> key, method |-> method,
                                  amount |-> amount, seen |-> 0]]
    /\ UNCHANGED <<balance, walletStatus, ledger, trail, requestVars>>

\* Mutant: the request is read FOR UPDATE, so a call that has the wallet waits
\* for one that has the request.
ReplayLocking(t) ==
    /\ pc[t] = "locked"
    /\ \E id \in ByIdempotencyKey(t) :
          /\ requestLock[id] = None
          /\ IF matches(t, id) THEN Answer(t, id) ELSE UNCHANGED answers
    /\ UnlockWallets(t)
    /\ Finish(t)
    /\ UNCHANGED <<balance, walletStatus, ledger, trail, requests, requestLock, enabled, notices>>

\* The key is known: answer with its request if the bodies agree, refuse
\* otherwise (ErrIdempotencyKeyReused).
Replay(t) ==
    /\ pc[t] = "locked"
    /\ \E id \in ByIdempotencyKey(t) :
          IF matches(t, id) THEN Answer(t, id) ELSE UNCHANGED answers
    /\ UnlockWallets(t)
    /\ Finish(t)
    /\ UNCHANGED <<balance, walletStatus, ledger, trail, requests, requestLock, enabled, notices>>

KeyUnknown(t) ==
    /\ pc[t] = "locked"
    /\ ByIdempotencyKey(t) = {}
    /\ pc' = [pc EXCEPT ![t] = "new"]
    /\ UNCHANGED <<walletVars, arg, trail, requestVars>>

\* What create checks before it holds the amount; MoveTx's own checks are the
\* last of them.
Admissible(t) ==
    /\ MinMinor <= arg[t].amount /\ arg[t].amount <= MaxMinor
    /\ arg[t].method \in enabled
    /\ ~hasPending(arg[t].w)
    /\ Movable(arg[t].w, -arg[t].amount)

\* newID: an id no other request has; none is left when the instance runs out.
FreeIds == {id \in WithdrawalIds : requests[id] = None /\ \A t \in Calls : arg[t].id # id}

\* A check or newID fails.
Refuse(t) ==
    /\ pc[t] = "new"
    /\ ~Admissible(t) \/ FreeIds = {}
    /\ UnlockWallets(t)
    /\ Finish(t)
    /\ UNCHANGED <<balance, walletStatus, ledger, trail, requestVars>>

Hold(t, id) ==
    /\ pc[t] = "new"
    /\ Admissible(t)
    /\ id \in FreeIds
    /\ LockWalletRow(t, arg[t].w)
    /\ pc' = [pc EXCEPT ![t] = "held"]
    /\ arg' = [arg EXCEPT ![t].id = id, ![t].seen = balance[arg[t].w]]
    /\ UNCHANGED <<balance, walletStatus, ledger, trail, requestVars>>

\* Mutant: no unique index on (user, key).
InsertDuplicate(t) ==
    /\ pc[t] = "held"
    /\ pc' = [pc EXCEPT ![t] = "inserted"]
    /\ UNCHANGED <<walletVars, arg, trail, requestVars>>

\* The insert waits while another transaction has the same (user, key) inserted
\* and uncommitted; a committed one rolls this transaction back (errIdempotencyRace).
InsertRequest(t) ==
    /\ pc[t] = "held"
    /\ ~\E other \in Calls \ {t} :
          /\ pc[other] = "inserted"
          /\ arg[other].key = arg[t].key
          /\ Owner[arg[other].w] = Owner[arg[t].w]
    /\ IF ByIdempotencyKey(t) = {}
       THEN /\ pc' = [pc EXCEPT ![t] = "inserted"]
            /\ UNCHANGED <<walletLock, arg>>
       ELSE /\ pc' = [pc EXCEPT ![t] = "race"]
            /\ arg' = [arg EXCEPT ![t].id = None, ![t].seen = 0]
            /\ UnlockWallets(t)
    /\ UNCHANGED <<balance, walletStatus, ledger, trail, requestVars>>

CommitCreate(t) ==
    LET id == arg[t].id
        w == arg[t].w
    IN  /\ pc[t] = "inserted"
        /\ MoveTx(w, "withdrawal", id, -arg[t].amount, arg[t].seen)
        /\ requests' = [requests EXCEPT ![id] =
               [key |-> arg[t].key, w |-> w, method |-> arg[t].method,
                amount |-> arg[t].amount, status |-> "pending"]]
        /\ Audit("withdrawal.request", id)
        /\ Answer(t, id)
        /\ UnlockWallets(t)
        /\ Finish(t)
        /\ UNCHANGED <<walletStatus, requestLock, enabled, notices>>

\* Create, after create rolled back on errIdempotencyRace: reads the winner
\* with no lock held.
AnswerRace(t) ==
    /\ pc[t] = "race"
    /\ \E id \in ByIdempotencyKey(t) :
          IF matches(t, id) THEN Answer(t, id) ELSE UNCHANGED answers
    /\ Finish(t)
    /\ UNCHANGED <<walletVars, trail, requests, requestLock, enabled, notices>>

-----------------------------------------------------------------------------
(* Review and Cancel *)

\* Mutant: the row is read without FOR UPDATE.
ReadRequest(t, id, step) ==
    /\ pc[t] = "idle"
    /\ requests[id] # None
    /\ requests[id].status = "pending"
    /\ pc' = [pc EXCEPT ![t] = step]
    /\ arg' = [arg EXCEPT ![t] = [w |-> requests[id].w, id |-> id, key |-> None, method |-> None,
                                  amount |-> requests[id].amount, seen |-> 0]]
    /\ UNCHANGED <<walletVars, trail, requestVars>>

\* lockRequest and the status check that follows it; a request that is no
\* longer pending ends the call with ErrAlreadyReviewed and no effect.
LockRequest(t, id, step) ==
    /\ pc[t] = "idle"
    /\ requests[id] # None
    /\ requestLock[id] = None
    /\ requests[id].status = "pending"
    /\ requestLock' = [requestLock EXCEPT ![id] = t]
    /\ pc' = [pc EXCEPT ![t] = step]
    /\ arg' = [arg EXCEPT ![t] = [w |-> requests[id].w, id |-> id, key |-> None, method |-> None,
                                  amount |-> requests[id].amount, seen |-> 0]]
    /\ UNCHANGED <<walletVars, trail, requests, enabled, notices, answers>>

UnlockRequests(t) ==
    requestLock' = [id \in WithdrawalIds |-> IF requestLock[id] = t THEN None ELSE requestLock[id]]

\* Mutant: "canceled" is not a status.
MarkMisspelt(id, status) ==
    requests' = [requests EXCEPT ![id].status = IF status = "cancelled" THEN "canceled" ELSE status]

Mark(id, status) == requests' = [requests EXCEPT ![id].status = status]
Notify(kind, id) == notices' = notices \cup {[kind |-> kind, id |-> id]}

CommitApprove(t) ==
    LET id == arg[t].id
    IN  /\ pc[t] = "approving"
        /\ Mark(id, "approved")
        /\ Audit("withdrawal.approve", id)
        /\ Notify("withdrawal_approved", id)
        /\ UnlockRequests(t)
        /\ Finish(t)
        /\ UNCHANGED <<walletVars, enabled, answers>>

\* releaseHold: MoveTx takes the wallet row, so it waits for whoever has it.
\* A frozen wallet or a balance too close to the limit ends the call, and the
\* request stays pending.
ReleaseHold(t) ==
    LET w == arg[t].w
        done == IF pc[t] = "rejecting" THEN "rejected" ELSE "cancelled"
    IN  /\ pc[t] \in {"rejecting", "cancelling"}
        /\ walletLock[w] \in {None, t}
        /\ IF Posted(w, "refund", arg[t].id) \/ Movable(w, arg[t].amount)
           THEN /\ LockWalletRow(t, w)
                /\ pc' = [pc EXCEPT ![t] = done]
                /\ arg' = [arg EXCEPT ![t].seen = balance[w]]
                /\ UNCHANGED requestLock
           ELSE /\ UnlockRequests(t)
                /\ Finish(t)
                /\ UNCHANGED walletLock
        /\ UNCHANGED <<balance, walletStatus, ledger, trail, requests, enabled, notices, answers>>

\* Mutant: the hold is not released.
RejectKeepingHold(t) ==
    LET id == arg[t].id
    IN  /\ pc[t] = "rejected"
        /\ Mark(id, "rejected")
        /\ Audit("withdrawal.reject", id)
        /\ Notify("withdrawal_rejected", id)
        /\ UnlockRequests(t) /\ UnlockWallets(t)
        /\ Finish(t)
        /\ UNCHANGED <<balance, walletStatus, ledger, enabled, answers>>

CommitReject(t) ==
    LET id == arg[t].id
    IN  /\ pc[t] = "rejected"
        /\ MoveTx(arg[t].w, "refund", id, arg[t].amount, arg[t].seen)
        /\ Mark(id, "rejected")
        /\ Audit("withdrawal.reject", id)
        /\ Notify("withdrawal_rejected", id)
        /\ UnlockRequests(t) /\ UnlockWallets(t)
        /\ Finish(t)
        /\ UNCHANGED <<walletStatus, enabled, answers>>

\* Mutant: an operator's transition is audited, a player's is not.
CancelUnaudited(t) ==
    LET id == arg[t].id
    IN  /\ pc[t] = "cancelled"
        /\ MoveTx(arg[t].w, "refund", id, arg[t].amount, arg[t].seen)
        /\ Mark(id, "cancelled")
        /\ UnlockRequests(t) /\ UnlockWallets(t)
        /\ Finish(t)
        /\ UNCHANGED <<walletStatus, trail, enabled, notices, answers>>

CommitCancel(t) ==
    LET id == arg[t].id
    IN  /\ pc[t] = "cancelled"
        /\ MoveTx(arg[t].w, "refund", id, arg[t].amount, arg[t].seen)
        /\ Mark(id, "cancelled")
        /\ Audit("withdrawal.cancel", id)
        /\ UnlockRequests(t) /\ UnlockWallets(t)
        /\ Finish(t)
        /\ UNCHANGED <<walletStatus, enabled, notices, answers>>

-----------------------------------------------------------------------------
(* The rest of the system *)

\* The transaction of a call ends without committing: the client goes away and
\* its context is cancelled, a statement fails, the server or the database restarts.
Abort(t) ==
    /\ pc[t] # "idle"
    /\ UnlockWallets(t) /\ UnlockRequests(t)
    /\ Finish(t)
    /\ UNCHANGED <<balance, walletStatus, ledger, trail, requests, enabled, notices, answers>>

\* An operator enables or disables a payment method (deposit.UpdatePaymentMethod):
\* create reads the flag without a lock on the method.
UpdatePaymentMethod(m) ==
    /\ enabled' = IF m \in enabled THEN enabled \ {m} ELSE enabled \cup {m}
    /\ UNCHANGED <<walletVars, pc, arg, trail, requests, requestLock, notices, answers>>

\* What a call in flight does next.
Continue(t) ==
    \/ CommitAdjust(t) /\ UNCHANGED requestVars
    \/ Replay(t)
    \/ KeyUnknown(t)
    \/ Refuse(t)
    \/ \E id \in WithdrawalIds : Hold(t, id)
    \/ CommitCreate(t)
    \/ AnswerRace(t)
    \/ CommitApprove(t)
    \/ CommitReject(t)
    \/ CommitCancel(t)

\* The two statements that may wait for a lock another call holds.
Blocking(t) == InsertRequest(t) \/ ReleaseHold(t)

Begin(t) ==
    \/ \E w \in Wallets, amount \in AdjustAmounts : StartAdjust(t, w, amount) /\ UNCHANGED requestVars
    \/ \E key \in Keys, w \in Wallets, m \in Methods, amount \in Amounts : LockWallet(t, key, w, m, amount)
    \/ \E id \in WithdrawalIds, step \in {"approving", "rejecting", "cancelling"} : LockRequest(t, id, step)

Next ==
    \/ \E t \in Calls : Begin(t) \/ Continue(t) \/ Blocking(t) \/ Abort(t)
    \/ \E w \in Wallets, status \in WalletStatus : SetWalletStatus(w, status) /\ UNCHANGED requestVars
    \/ \E m \in Methods : UpdatePaymentMethod(m)

Spec == Init /\ [][Next]_vars

\* The server's goroutine runs a call it has started until it answers; Postgres
\* grants a row lock in the order it was asked for, so a waiter is not passed
\* over forever.  Nothing obliges a client to call.
FairSpec ==
    /\ Spec
    /\ \A t \in Calls : WF_vars(Continue(t)) /\ SF_vars(Blocking(t))

-----------------------------------------------------------------------------
(* Properties *)

\* Types of the state of Create, Review, Cancel and MoveTx.
TypeOK ==
    /\ WalletTypeOK
    /\ pc \in [Calls -> Steps]
    /\ arg \in [Calls -> Args]
    /\ requests \in [WithdrawalIds -> Request \cup {None}]
    /\ requestLock \in [WithdrawalIds -> Calls \cup {None}]
    /\ enabled \subseteq Methods

MovementsOf(w, id) == {i \in DOMAIN ledger[w] : ledger[w][i].ref = id}

\* A request's status and the ledger agree: a request exists exactly when its
\* amount was debited, and the amount came back exactly when it was rejected or
\* cancelled, whatever Create, Review, Cancel and Abort interleave.
MoneyFollowsStatus ==
    \A id \in WithdrawalIds, w \in Wallets :
        LET row == requests[id]
            posted == {<<ledger[w][i].kind, ledger[w][i].amount>> : i \in MovementsOf(w, id)}
        IN  IF row = None THEN posted = {}
            ELSE IF row.w # w THEN posted = {}
            ELSE IF row.status \in {"pending", "approved"}
                 THEN posted = {<<"withdrawal", -row.amount>>}
                 ELSE posted = {<<"withdrawal", -row.amount>>, <<"refund", row.amount>>}

\* A wallet has at most one request waiting for review (hasPending under
\* lockWallet; the partial unique index is never what stops a second one).
OnePendingPerWallet ==
    \A id, other \in Recorded :
        /\ requests[id].status = "pending" /\ requests[other].status = "pending"
        /\ requests[id].w = requests[other].w
        => id = other

\* A user's Idempotency-Key names one request, even when two calls use it at
\* once on two wallets, and every accepted answer to it describes that request.
IdempotentCreate ==
    /\ \A id, other \in Recorded :
          /\ requests[id].key = requests[other].key
          /\ Owner[requests[id].w] = Owner[requests[other].w]
          => id = other
    /\ \A a \in answers :
          LET row == requests[a.id]
          IN  /\ row # None
              /\ a.body = [key |-> row.key, w |-> row.w, method |-> row.method, amount |-> row.amount]

\* The audit log and the notifications tell the story the rows tell: one entry
\* per transition that committed, none for a transition that did not.
PaperTrail ==
    /\ \A id \in WithdrawalIds :
          {e.action : e \in {x \in trail : x.entity = id}} =
              IF requests[id] = None THEN {}
              ELSE {"withdrawal.request"} \cup
                   CASE requests[id].status = "pending" -> {}
                     [] requests[id].status = "approved" -> {"withdrawal.approve"}
                     [] requests[id].status = "rejected" -> {"withdrawal.reject"}
                     [] requests[id].status = "cancelled" -> {"withdrawal.cancel"}
    /\ notices =
          {[kind |-> "withdrawal_approved", id |-> id] : id \in
              {i \in Recorded : requests[i].status = "approved"}} \cup
          {[kind |-> "withdrawal_rejected", id |-> id] : id \in
              {i \in Recorded : requests[i].status = "rejected"}}

\* Refinement: the rows seen as claims.
ASSUME ClaimAssumption == None \notin [w : Wallets, amount : Amounts, state : {"held", "paid", "returned"}]
ClaimState == [pending |-> "held", approved |-> "paid", rejected |-> "returned", cancelled |-> "returned"]
Promise == INSTANCE Escrow WITH
    ClaimIds <- WithdrawalIds,
    MaxFunds <- MaxSafe,
    funds <- balance,
    claim <- [id \in WithdrawalIds |->
                 IF requests[id] = None THEN None
                 ELSE [w |-> requests[id].w, amount |-> requests[id].amount,
                       state |-> ClaimState[requests[id].status]]]

\* Every commit of Create, Review, Cancel and Adjust is one step of Escrow.
KeepsPromise == Promise!Spec

\* A call that has started comes to an end: no set of calls waits on itself for
\* wallet rows, request rows or an uncommitted key.
CallsEnd == \A t \in Calls : pc[t] # "idle" ~> pc[t] = "idle"
===============================================================================
