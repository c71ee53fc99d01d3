------------------------------- MODULE Deposits -------------------------------
(***************************************************************************)
(* Deposit requests (backend/internal/deposit).  Create stores the proof    *)
(* image in a file and then records the request in a transaction; an        *)
(* operator's approval credits the wallet, possibly with another amount; a  *)
(* rejection moves nothing.                                                 *)
(*                                                                          *)
(* Unlike a withdrawal, Create takes no wallet lock and answers a known key *)
(* without comparing the bodies.  Review locks the request row and, through *)
(* its join, the row of the payment method.  One id stands for the random   *)
(* name of the file an attempt stores and for the row it inserts.           *)
(***************************************************************************)
EXTENDS Wallet

CONSTANTS
    DepositIds,
    Keys,                   \* Idempotency-Key headers
    Methods,                \* payment methods
    Amounts,                \* amounts a player may declare, an operator approve
    MinMinor, MaxMinor      \* currencies.deposit_min_minor / _max_minor

ASSUME DepositsAssumption ==
    /\ DepositIds \subseteq Ids
    /\ None \notin Keys \cup Methods \cup Wallets
    /\ Amounts \subseteq Nat \ {0}
    /\ MinMinor \in Nat /\ MaxMinor \in Nat

VARIABLES
    requests,       \* deposit_requests rows, or None
    requestLock,    \* the call holding a request row FOR UPDATE
    methodLock,     \* the call holding a payment_methods row FOR UPDATE
    enabled,        \* payment_methods.enabled
    files,          \* proof images in ProofDir
    notices,        \* notifications
    answers,        \* history: the request each accepted Create answered with
    mishaps         \* history: attempts that crashed or lost the outcome of their commit

requestVars == <<requests, requestLock, methodLock, enabled, files, notices, answers, mishaps>>
vars == <<walletVars, pc, arg, trail, requestVars>>

Request == [key : Keys, w : Wallets, method : Methods, amount : Amounts,
            status : {"pending", "approved", "rejected"}]
ASSUME RequestAssumption == None \notin Request

Args == [w : Wallets \cup {None}, id : DepositIds \cup {None}, key : Keys \cup {None},
         method : Methods \cup {None}, amount : Int, seen : Int]
CreateSteps == {"new", "stored", "checked", "inserted", "conflict"}
ReviewSteps == {"approve", "reject", "approving", "rejecting", "credited"}
Steps == {"idle", "adjusted"} \cup CreateSteps \cup ReviewSteps

Init ==
    /\ WalletInit
    /\ requests = [id \in DepositIds |-> None]
    /\ requestLock = [id \in DepositIds |-> None]
    /\ methodLock = [m \in Methods |-> None]
    /\ enabled = Methods
    /\ files = {}
    /\ notices = {}
    /\ answers = {}
    /\ mishaps = {}

Recorded == {id \in DepositIds : requests[id] # None}
FreeIds == {id \in DepositIds \ (files \cup mishaps) :
               requests[id] = None /\ \A t \in Calls : arg[t].id # id}

-----------------------------------------------------------------------------
(* Create *)

ByIdempotencyKey(u, key) ==
    {id \in Recorded : requests[id].key = key /\ Owner[requests[id].w] = u}

Answer(u, key, id) == answers' = answers \cup {[user |-> u, key |-> key, id |-> id]}

\* The handler's first read: a known key is answered at once.
StartCreate(t, key, w, method, amount) ==
    /\ pc[t] = "idle"
    /\ IF ByIdempotencyKey(Owner[w], key) = {}
       THEN /\ pc' = [pc EXCEPT ![t] = "new"]
            /\ arg' = [arg EXCEPT ![t] = [w |-> w, id |-> None, key |-> key, method |-> method,
                                          amount |-> amount, seen |-> 0]]
            /\ UNCHANGED answers
       ELSE /\ \E id \in ByIdempotencyKey(Owner[w], key) : Answer(Owner[w], key, id)
            /\ UNCHANGED <<pc, arg>>
    /\ UNCHANGED <<walletVars, trail, requests, requestLock, methodLock, enabled, files, notices, mishaps>>

StoreProof(t, id) ==
    /\ pc[t] = "new"
    /\ id \in FreeIds
    /\ files' = files \cup {id}
    /\ pc' = [pc EXCEPT ![t] = "stored"]
    /\ arg' = [arg EXCEPT ![t].id = id]
    /\ UNCHANGED <<walletVars, trail, requests, requestLock, methodLock, enabled, notices, answers, mishaps>>

\* What Create reads before it inserts, with no lock.
InLimits(t) == MinMinor <= arg[t].amount /\ arg[t].amount <= MaxMinor
Admissible(t) == InLimits(t) /\ arg[t].method \in enabled

CheckRequest(t) ==
    /\ pc[t] = "stored"
    /\ Admissible(t)
    /\ pc' = [pc EXCEPT ![t] = "checked"]
    /\ UNCHANGED <<walletVars, arg, trail, requestVars>>

\* Mutant: no unique index, no conflict.
InsertDuplicate(t) ==
    /\ pc[t] = "checked"
    /\ pc' = [pc EXCEPT ![t] = "inserted"]
    /\ UNCHANGED <<walletVars, arg, trail, requestVars>>

\* INSERT ... ON CONFLICT DO NOTHING: waits while another transaction has the
\* same (user, key) inserted and uncommitted.
InsertRequest(t) ==
    /\ pc[t] = "checked"
    /\ ~\E other \in Calls \ {t} :
          /\ pc[other] = "inserted"
          /\ arg[other].key = arg[t].key
          /\ Owner[arg[other].w] = Owner[arg[t].w]
    /\ pc' = [pc EXCEPT ![t] = IF ByIdempotencyKey(Owner[arg[t].w], arg[t].key) = {}
                               THEN "inserted" ELSE "conflict"]
    /\ UNCHANGED <<walletVars, arg, trail, requestVars>>

Record(t) ==
    requests' = [requests EXCEPT ![arg[t].id] =
        [key |-> arg[t].key, w |-> arg[t].w, method |-> arg[t].method,
         amount |-> arg[t].amount, status |-> "pending"]]

CommitCreate(t) ==
    /\ pc[t] = "inserted"
    /\ Record(t)
    /\ Answer(Owner[arg[t].w], arg[t].key, arg[t].id)
    /\ Finish(t)
    /\ UNCHANGED <<walletVars, trail, requestLock, methodLock, enabled, files, notices, mishaps>>

\* The commit takes effect and its answer does not come back: Create returns an
\* error, so the handler removes the file of a request that exists.
LoseCommit(t) ==
    /\ pc[t] = "inserted"
    /\ Record(t)
    /\ files' = files \ {arg[t].id}
    /\ mishaps' = mishaps \cup {arg[t].id}
    /\ Finish(t)
    /\ UNCHANGED <<walletVars, trail, requestLock, methodLock, enabled, notices, answers>>

\* Mutant: the file of a repeated request is kept.
AnswerKeepingFile(t) ==
    /\ pc[t] = "conflict"
    /\ \E id \in ByIdempotencyKey(Owner[arg[t].w], arg[t].key) : Answer(Owner[arg[t].w], arg[t].key, id)
    /\ Finish(t)
    /\ UNCHANGED <<walletVars, trail, requests, requestLock, methodLock, enabled, files, notices, mishaps>>

\* created = false: the row that won answers and this attempt's file goes.
AnswerConflict(t) ==
    /\ pc[t] = "conflict"
    /\ \E id \in ByIdempotencyKey(Owner[arg[t].w], arg[t].key) : Answer(Owner[arg[t].w], arg[t].key, id)
    /\ files' = files \ {arg[t].id}
    /\ Finish(t)
    /\ UNCHANGED <<walletVars, trail, requests, requestLock, methodLock, enabled, notices, mishaps>>

\* A check, a statement or the commit fails: the transaction rolls back and the
\* handler removes the file it stored.
FailCreate(t) ==
    /\ pc[t] \in CreateSteps
    /\ files' = files \ {arg[t].id}
    /\ Finish(t)
    /\ UNCHANGED <<walletVars, trail, requests, requestLock, methodLock, enabled, notices, answers, mishaps>>

\* The server dies, or the handler panics: the transaction rolls back, the file stays.
CrashCreate(t) ==
    /\ pc[t] \in CreateSteps
    /\ mishaps' = mishaps \cup (files \cap {arg[t].id})
    /\ Finish(t)
    /\ UNCHANGED <<walletVars, trail, requests, requestLock, methodLock, enabled, files, notices, answers>>

-----------------------------------------------------------------------------
(* Review *)

\* The join locks the request row, then the method's.  amount = 0 keeps the
\* declared amount; a changed one comes with a reason.
LockRequest(t, id, action, amount) ==
    /\ pc[t] = "idle"
    /\ requests[id] # None
    /\ requestLock[id] = None
    /\ requestLock' = [requestLock EXCEPT ![id] = t]
    /\ pc' = [pc EXCEPT ![t] = action]
    /\ arg' = [arg EXCEPT ![t] = [w |-> requests[id].w, id |-> id, key |-> None,
                  method |-> requests[id].method,
                  amount |-> IF action = "approve" /\ amount > 0 THEN amount ELSE requests[id].amount,
                  seen |-> 0]]
    /\ UNCHANGED <<walletVars, trail, requests, methodLock, enabled, files, notices, answers, mishaps>>

UnlockRows(t) ==
    /\ requestLock' = [id \in DepositIds |-> IF requestLock[id] = t THEN None ELSE requestLock[id]]
    /\ methodLock' = [m \in Methods |-> IF methodLock[m] = t THEN None ELSE methodLock[m]]

LockMethod(t) ==
    /\ pc[t] \in {"approve", "reject"}
    /\ methodLock[arg[t].method] = None
    /\ methodLock' = [methodLock EXCEPT ![arg[t].method] = t]
    /\ pc' = [pc EXCEPT ![t] = IF pc[t] = "approve" THEN "approving" ELSE "rejecting"]
    /\ UNCHANGED <<walletVars, arg, trail, requests, requestLock, enabled, files, notices, answers, mishaps>>

Creditable(t) == Posted(arg[t].w, "deposit", arg[t].id) \/ Movable(arg[t].w, arg[t].amount)

Credit(t) ==
    /\ pc[t] = "approving"
    /\ requests[arg[t].id].status = "pending"
    /\ InLimits(t) /\ Creditable(t)
    /\ LockWalletRow(t, arg[t].w)
    /\ pc' = [pc EXCEPT ![t] = "credited"]
    /\ arg' = [arg EXCEPT ![t].seen = balance[arg[t].w]]
    /\ UNCHANGED <<balance, walletStatus, ledger, trail, requestVars>>

\* ErrAlreadyReviewed, ErrAmountOutOfRange, ErrWalletUnavailable, ErrAmountOverflow.
RefuseReview(t) ==
    /\ pc[t] \in {"approving", "rejecting"}
    /\ \/ requests[arg[t].id].status # "pending"
       \/ pc[t] = "approving" /\ ~InLimits(t)
       \/ pc[t] = "approving" /\ walletLock[arg[t].w] = None /\ ~Creditable(t)
    /\ UnlockRows(t)
    /\ Finish(t)
    /\ UNCHANGED <<walletVars, trail, requests, enabled, files, notices, answers, mishaps>>

Notify(kind, id, amount) == notices' = notices \cup {[kind |-> kind, id |-> id, amount |-> amount]}

\* Mutant: the declared amount stays on the row.
CommitDeclared(t) ==
    LET id == arg[t].id
    IN  /\ pc[t] = "credited"
        /\ MoveTx(arg[t].w, "deposit", id, arg[t].amount, arg[t].seen)
        /\ requests' = [requests EXCEPT ![id].status = "approved"]
        /\ Audit("deposit.approve", id)
        /\ Notify("deposit_approved", id, arg[t].amount)
        /\ UnlockRows(t) /\ UnlockWallets(t)
        /\ Finish(t)
        /\ UNCHANGED <<walletStatus, enabled, files, answers, mishaps>>

CommitApprove(t) ==
    LET id == arg[t].id
    IN  /\ pc[t] = "credited"
        /\ MoveTx(arg[t].w, "deposit", id, arg[t].amount, arg[t].seen)
        /\ requests' = [requests EXCEPT ![id].status = "approved", ![id].amount = arg[t].amount]
        /\ Audit("deposit.approve", id)
        /\ Notify("deposit_approved", id, arg[t].amount)
        /\ UnlockRows(t) /\ UnlockWallets(t)
        /\ Finish(t)
        /\ UNCHANGED <<walletStatus, enabled, files, answers, mishaps>>

\* Mutant: "declined" is not a status.
RejectAsDeclined(t) ==
    LET id == arg[t].id
    IN  /\ pc[t] = "rejecting"
        /\ requests[id].status = "pending"
        /\ requests' = [requests EXCEPT ![id].status = "declined"]
        /\ Audit("deposit.reject", id)
        /\ Notify("deposit_rejected", id, arg[t].amount)
        /\ UnlockRows(t)
        /\ Finish(t)
        /\ UNCHANGED <<walletVars, enabled, files, answers, mishaps>>

CommitReject(t) ==
    LET id == arg[t].id
    IN  /\ pc[t] = "rejecting"
        /\ requests[id].status = "pending"
        /\ requests' = [requests EXCEPT ![id].status = "rejected"]
        /\ Audit("deposit.reject", id)
        /\ Notify("deposit_rejected", id, arg[t].amount)
        /\ UnlockRows(t)
        /\ Finish(t)
        /\ UNCHANGED <<walletVars, enabled, files, answers, mishaps>>

\* Any other call's transaction ends without committing.
Abort(t) ==
    /\ pc[t] \in ReviewSteps \cup {"adjusted"}
    /\ UnlockWallets(t) /\ UnlockRows(t)
    /\ Finish(t)
    /\ UNCHANGED <<balance, walletStatus, ledger, trail, requests, enabled, files, notices, answers, mishaps>>

\* An operator edits a payment method: SELECT ... FOR UPDATE, then UPDATE.
UpdatePaymentMethod(m) ==
    /\ methodLock[m] = None
    /\ enabled' = IF m \in enabled THEN enabled \ {m} ELSE enabled \cup {m}
    /\ UNCHANGED <<walletVars, pc, arg, trail, requests, requestLock, methodLock, files, notices, answers, mishaps>>

-----------------------------------------------------------------------------

Begin(t) ==
    \/ \E w \in Wallets, amount \in AdjustAmounts : StartAdjust(t, w, amount) /\ UNCHANGED requestVars
    \/ \E key \in Keys, w \in Wallets, m \in Methods, amount \in Amounts : StartCreate(t, key, w, m, amount)
    \/ \E id \in DepositIds, action \in {"approve", "reject"}, amount \in Amounts \cup {0} :
          LockRequest(t, id, action, amount)

Continue(t) ==
    \/ CommitAdjust(t) /\ UNCHANGED requestVars
    \/ \E id \in DepositIds : StoreProof(t, id)
    \/ CheckRequest(t)
    \/ InsertRequest(t)
    \/ CommitCreate(t)
    \/ LoseCommit(t)
    \/ AnswerConflict(t)
    \/ FailCreate(t)
    \/ CrashCreate(t)
    \/ LockMethod(t)
    \/ Credit(t)
    \/ RefuseReview(t)
    \/ CommitApprove(t)
    \/ CommitReject(t)
    \/ Abort(t)

Next ==
    \/ \E t \in Calls : Begin(t) \/ Continue(t)
    \/ \E w \in Wallets, status \in WalletStatus : SetWalletStatus(w, status) /\ UNCHANGED requestVars
    \/ \E m \in Methods : UpdatePaymentMethod(m)

Spec == Init /\ [][Next]_vars

-----------------------------------------------------------------------------
(* Properties *)

\* Types of the state of Create, Review and MoveTx.
TypeOK ==
    /\ WalletTypeOK
    /\ pc \in [Calls -> Steps]
    /\ arg \in [Calls -> Args]
    /\ requests \in [DepositIds -> Request \cup {None}]
    /\ requestLock \in [DepositIds -> Calls \cup {None}]
    /\ methodLock \in [Methods -> Calls \cup {None}]
    /\ enabled \subseteq Methods
    /\ files \subseteq DepositIds
    /\ mishaps \subseteq DepositIds

\* A request is approved exactly when the amount its row now shows was credited,
\* once, to its wallet; the player's notification names that same amount.
CreditedOnce ==
    \A id \in DepositIds, w \in Wallets :
        LET row == requests[id]
            posted == {<<ledger[w][i].kind, ledger[w][i].amount>> :
                          i \in {j \in DOMAIN ledger[w] : ledger[w][j].ref = id}}
            told == {<<n.kind, n.amount>> : n \in {x \in notices : x.id = id}}
        IN  IF row = None THEN posted = {} /\ told = {}
            ELSE CASE row.status = "pending" -> posted = {} /\ told = {}
                   [] row.status = "rejected" -> posted = {} /\ told = {<<"deposit_rejected", row.amount>>}
                   [] row.status = "approved" ->
                          /\ posted = IF row.w = w THEN {<<"deposit", row.amount>>} ELSE {}
                          /\ told = {<<"deposit_approved", row.amount>>}

\* A user's key is always answered with the same request, whichever of several
\* calls that use it at once recorded it, and no two requests have it.
OneAnswerPerKey ==
    /\ \A id, other \in Recorded :
          requests[id].key = requests[other].key /\ Owner[requests[id].w] = Owner[requests[other].w]
          => id = other
    /\ \A a, b \in answers : a.user = b.user /\ a.key = b.key => a.id = b.id
    /\ \A a \in answers : a.id \in ByIdempotencyKey(a.user, a.key)

\* Between calls a proof image exists exactly when its request does, except for
\* the attempts a crash or a lost commit answer ended.
ProofMatchesRow ==
    \A id \in DepositIds \ mishaps :
        (\A t \in Calls : pc[t] \in CreateSteps => arg[t].id # id) => (id \in files <=> id \in Recorded)

===============================================================================
