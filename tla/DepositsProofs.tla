----------------------------- MODULE DepositsProofs -----------------------------
(***************************************************************************)
(* Proofs about Deposits, for every number of wallets, calls, ids, keys and *)
(* payment methods, and every MaxSafe.                                      *)
(***************************************************************************)
EXTENDS Deposits, WalletProofs

-----------------------------------------------------------------------------
(* Types *)

\* Creates that have a proof image on disk.
StoredSteps == {"stored", "checked", "inserted", "conflict"}

\* What a call has read by the step it is at.
CallTypes ==
    \A t \in Calls :
        /\ pc[t] \in CreateSteps => arg[t].key \in Keys
        /\ pc[t] \in CreateSteps \cup ReviewSteps =>
              arg[t].method \in Methods /\ arg[t].amount \in Amounts
        /\ pc[t] = "new" => arg[t].id = None
        /\ pc[t] \in StoredSteps \cup ReviewSteps => arg[t].id \in DepositIds
        /\ pc[t] \in ReviewSteps => requests[arg[t].id] # None
        /\ pc[t] # "idle" => arg[t].w \in Wallets

Typed == TypeOK /\ CallTypes

USE WalletAssumption, DepositsAssumption, RequestAssumption

LEMMA AmountType == \A amount \in Amounts : amount \in Int /\ amount > 0
OBVIOUS

LEMMA NoArgType == NoArg \in Args
BY DEF NoArg, Args

LEMMA StepSets ==
    /\ StoredSteps \cup {"new"} = CreateSteps
    /\ CreateSteps \cap ReviewSteps = {} /\ "idle" \notin CreateSteps \cup ReviewSteps
    /\ "adjusted" \notin CreateSteps \cup ReviewSteps \cup {"idle"}
    /\ CreateSteps \cup ReviewSteps \cup {"idle", "adjusted"} = Steps
BY DEF StoredSteps, CreateSteps, ReviewSteps, Steps

LEMMA UnlockTypes ==
    ASSUME TypeOK, NEW t \in Calls
    PROVE  /\ UnlockWallets(t) => walletLock' \in [Wallets -> Calls \cup {None}]
           /\ UnlockRows(t) => /\ requestLock' \in [DepositIds -> Calls \cup {None}]
                               /\ methodLock' \in [Methods -> Calls \cup {None}]
BY DEF TypeOK, WalletTypeOK, UnlockWallets, UnlockRows

\* A step of one call: what is left to show is that its new arg fits its new step.
LEMMA AdvanceTypes ==
    ASSUME Typed, NEW t \in Calls, NEW step \in Steps, NEW a \in Args,
           pc' = [pc EXCEPT ![t] = step], arg' = [arg EXCEPT ![t] = a],
           \A id \in DepositIds : requests[id] # None => requests'[id] # None,
           step \in CreateSteps => a.key \in Keys,
           step \in CreateSteps \cup ReviewSteps => a.method \in Methods /\ a.amount \in Amounts,
           step = "new" => a.id = None,
           step \in StoredSteps \cup ReviewSteps => a.id \in DepositIds,
           step \in ReviewSteps => requests'[a.id] # None,
           step # "idle" => a.w \in Wallets
    PROVE  pc' \in [Calls -> Steps] /\ arg' \in [Calls -> Args] /\ CallTypes'
<1>1. pc' \in [Calls -> Steps] /\ arg' \in [Calls -> Args]
  BY DEF Typed, TypeOK
<1>2. \A c \in Calls \ {t} : pc'[c] = pc[c] /\ arg'[c] = arg[c]
  BY DEF Typed, TypeOK
<1>3. pc'[t] = step /\ arg'[t] = a
  BY DEF Typed, TypeOK
<1> QED
  BY <1>1, <1>2, <1>3 DEF Typed, CallTypes

LEMMA FinishTypes ==
    ASSUME Typed, NEW t \in Calls, Finish(t),
           \A id \in DepositIds : requests[id] # None => requests'[id] # None
    PROVE  pc' \in [Calls -> Steps] /\ arg' \in [Calls -> Args] /\ CallTypes'
<1>1. "idle" \in Steps /\ "idle" # "new" /\ "idle" \notin CreateSteps \cup ReviewSteps \cup StoredSteps
  BY DEF Steps, CreateSteps, ReviewSteps, StoredSteps
<1> QED
  BY <1>1, NoArgType, AdvanceTypes DEF Finish

\* The step a call reaches when it only moves on.
LEMMA MoveOnTypes ==
    ASSUME Typed, NEW t \in Calls, NEW step \in Steps, pc' = [pc EXCEPT ![t] = step],
           UNCHANGED <<arg, requests>>,
           \/ pc[t] \in StoredSteps /\ step \in StoredSteps
           \/ pc[t] \in ReviewSteps /\ step \in ReviewSteps
    PROVE  pc' \in [Calls -> Steps] /\ arg' \in [Calls -> Args] /\ CallTypes'
<1>1. arg[t] \in Args /\ arg' = [arg EXCEPT ![t] = arg[t]]
  BY DEF Typed, TypeOK
<1>2. /\ pc[t] \in CreateSteps \/ step \in ReviewSteps
      /\ step \in CreateSteps => pc[t] \in CreateSteps
      /\ step # "new" /\ pc[t] # "idle"
      /\ pc[t] \in StoredSteps \cup ReviewSteps
      /\ step \in ReviewSteps => pc[t] \in ReviewSteps
  BY DEF CreateSteps, ReviewSteps, StoredSteps
<1>3. /\ step \in CreateSteps => arg[t].key \in Keys
      /\ arg[t].method \in Methods /\ arg[t].amount \in Amounts
      /\ arg[t].id \in DepositIds
      /\ step \in ReviewSteps => requests'[arg[t].id] # None
      /\ arg[t].w \in Wallets
  BY <1>2, StepSets DEF Typed, CallTypes
<1> QED
  BY <1>1, <1>2, <1>3, AdvanceTypes

\* A row that is written keeps the table typed and its other rows there.
LEMMA RowTypes ==
    ASSUME TypeOK, NEW id \in DepositIds, NEW row \in Request, requests' = [requests EXCEPT ![id] = row]
    PROVE  /\ requests' \in [DepositIds -> Request \cup {None}]
           /\ \A i \in DepositIds : requests[i] # None => requests'[i] # None
           /\ requests'[id] = row /\ row # None
           /\ \A i \in DepositIds \ {id} : requests'[i] = requests[i]
BY DEF TypeOK

LEMMA TypedInit == Init => Typed
<1> SUFFICES ASSUME Init PROVE Typed
  OBVIOUS
<1>1. TypeOK
  BY NoArgType, StepSets DEF Init, WalletInit, WalletTypeOK, TypeOK, WalletStatus
<1>2. CallTypes
  <2>1. \A t \in Calls : pc[t] = "idle"
    BY DEF Init, WalletInit
  <2> QED
    BY <2>1 DEF CallTypes, CreateSteps, ReviewSteps, StoredSteps
<1> QED
  BY <1>1, <1>2 DEF Typed

LEMMA TypedNext == Typed /\ [Next]_vars => Typed'
<1> SUFFICES ASSUME Typed, [Next]_vars PROVE Typed'
  OBVIOUS
<1> USE DEF Typed
<1>1. ASSUME NEW t \in Calls, NEW w \in Wallets, NEW amount \in AdjustAmounts,
             StartAdjust(t, w, amount), UNCHANGED requestVars
      PROVE  Typed'
  <2> DEFINE a == [NoArg EXCEPT !.w = w, !.amount = amount, !.seen = balance[w]]
  <2>1. a \in Args /\ a.w = w
    BY DEF WalletTypeOK, TypeOK, NoArg, Args
  <2>2. pc' \in [Calls -> Steps] /\ arg' \in [Calls -> Args] /\ CallTypes'
    <3>1. pc' = [pc EXCEPT ![t] = "adjusted"] /\ arg' = [arg EXCEPT ![t] = a] /\ UNCHANGED requests
      BY <1>1 DEF StartAdjust, requestVars
    <3>2. "adjusted" \in Steps /\ "adjusted" \notin CreateSteps \cup ReviewSteps \cup StoredSteps
      BY DEF Steps, CreateSteps, ReviewSteps, StoredSteps
    <3> HIDE DEF a
    <3> QED
      BY <2>1, <3>1, <3>2, AdvanceTypes
  <2>3. walletLock' \in [Wallets -> Calls \cup {None}]
    BY <1>1 DEF StartAdjust, LockWalletRow, WalletTypeOK, TypeOK
  <2> QED
    BY <1>1, <2>2, <2>3 DEF StartAdjust, requestVars, WalletTypeOK, TypeOK
<1>2. ASSUME NEW t \in Calls, CommitAdjust(t), UNCHANGED requestVars
      PROVE  Typed'
  <2>1. arg[t].w \in Wallets /\ arg[t].amount \in Int /\ arg[t].seen \in Int
    BY <1>2 DEF CommitAdjust, CallTypes, TypeOK, Args
  <2>2. balance' \in [Wallets -> Int] /\ ledger' \in [Wallets -> Seq(Entry)]
    BY <1>2, <2>1, MoveTxType DEF CommitAdjust, Kinds, TypeOK
  <2>3. pc' \in [Calls -> Steps] /\ arg' \in [Calls -> Args] /\ CallTypes'
    BY <1>2, FinishTypes DEF CommitAdjust, requestVars
  <2> QED
    BY <1>2, <2>2, <2>3, UnlockTypes DEF CommitAdjust, requestVars, WalletTypeOK, TypeOK
<1>3. ASSUME NEW t \in Calls, NEW key \in Keys, NEW w \in Wallets, NEW m \in Methods,
             NEW amount \in Amounts, StartCreate(t, key, w, m, amount)
      PROVE  Typed'
  <2> DEFINE a == [w |-> w, id |-> None, key |-> key, method |-> m, amount |-> amount, seen |-> 0]
  <2>1. a \in Args /\ a.w = w /\ a.key = key /\ a.method = m /\ a.amount = amount /\ a.id = None
    BY AmountType DEF Args
  <2>2. pc' \in [Calls -> Steps] /\ arg' \in [Calls -> Args] /\ CallTypes'
    <3>1. CASE ByIdempotencyKey(Owner[w], key) = {}
      <4>1. pc' = [pc EXCEPT ![t] = "new"] /\ arg' = [arg EXCEPT ![t] = a] /\ UNCHANGED requests
        BY <1>3, <3>1 DEF StartCreate
      <4>2. "new" \in Steps /\ "new" \notin StoredSteps \cup ReviewSteps
        BY DEF Steps, CreateSteps, StoredSteps, ReviewSteps
      <4> HIDE DEF a
      <4> QED
        BY <2>1, <4>1, <4>2, AdvanceTypes
    <3>2. CASE ByIdempotencyKey(Owner[w], key) # {}
      BY <1>3, <3>2 DEF StartCreate, TypeOK, CallTypes
    <3> QED
      BY <3>1, <3>2
  <2> QED
    BY <1>3, <2>2 DEF StartCreate, walletVars, WalletTypeOK, TypeOK
<1>4. ASSUME NEW t \in Calls, NEW id \in DepositIds, StoreProof(t, id)
      PROVE  Typed'
  <2> DEFINE a == [arg[t] EXCEPT !.id = id]
  <2>1. /\ a \in Args /\ a.id = id /\ a.w \in Wallets /\ a.key \in Keys /\ a.method \in Methods
        /\ a.amount \in Amounts
    <3>1. /\ arg[t] \in Args /\ arg[t].w \in Wallets /\ arg[t].key \in Keys
          /\ arg[t].method \in Methods /\ arg[t].amount \in Amounts
      BY <1>4 DEF StoreProof, TypeOK, CallTypes, CreateSteps
    <3> QED
      BY <3>1 DEF Args
  <2>2. pc' = [pc EXCEPT ![t] = "stored"] /\ arg' = [arg EXCEPT ![t] = a] /\ UNCHANGED requests
    BY <1>4 DEF StoreProof
  <2>3. pc' \in [Calls -> Steps] /\ arg' \in [Calls -> Args] /\ CallTypes'
    <3>1. "stored" \in Steps /\ "stored" \notin ReviewSteps
      BY DEF Steps, CreateSteps, ReviewSteps
    <3> HIDE DEF a
    <3> QED
      BY <2>1, <2>2, <3>1, AdvanceTypes
  <2> QED
    BY <1>4, <2>3 DEF StoreProof, walletVars, WalletTypeOK, TypeOK
<1>5. ASSUME NEW t \in Calls, CheckRequest(t) \/ InsertRequest(t)
      PROVE  Typed'
  <2>1. PICK step \in StoredSteps : pc' = [pc EXCEPT ![t] = step]
    BY <1>5 DEF CheckRequest, InsertRequest, StoredSteps
  <2>2. step \in Steps /\ pc[t] \in StoredSteps
    BY <1>5, StepSets DEF CheckRequest, InsertRequest, StoredSteps
  <2>3. UNCHANGED <<walletVars, arg, trail, requestVars>>
    BY <1>5 DEF CheckRequest, InsertRequest
  <2>4. pc' \in [Calls -> Steps] /\ arg' \in [Calls -> Args] /\ CallTypes'
    BY <2>1, <2>2, <2>3, MoveOnTypes DEF requestVars
  <2> QED
    BY <2>3, <2>4 DEF walletVars, requestVars, WalletTypeOK, TypeOK
<1>6. ASSUME NEW t \in Calls, CommitCreate(t) \/ LoseCommit(t)
      PROVE  Typed'
  <2> DEFINE row == [key |-> arg[t].key, w |-> arg[t].w, method |-> arg[t].method,
                     amount |-> arg[t].amount, status |-> "pending"]
  <2>1. row \in Request /\ arg[t].id \in DepositIds
    <3>1. pc[t] \in CreateSteps /\ pc[t] \in StoredSteps /\ pc[t] # "idle"
      BY <1>6 DEF CommitCreate, LoseCommit, CreateSteps, StoredSteps
    <3> QED
      BY <3>1 DEF CallTypes, Request
  <2>2. /\ requests' = [requests EXCEPT ![arg[t].id] = row] /\ Finish(t)
        /\ UNCHANGED <<walletVars, requestLock, methodLock, enabled>>
        /\ files' = files \/ files' = files \ {arg[t].id}
        /\ mishaps' = mishaps \/ mishaps' = mishaps \cup {arg[t].id}
    BY <1>6 DEF CommitCreate, LoseCommit, Record
  <2>3. /\ requests' \in [DepositIds -> Request \cup {None}]
        /\ pc' \in [Calls -> Steps] /\ arg' \in [Calls -> Args] /\ CallTypes'
    BY <2>1, <2>2, RowTypes, FinishTypes
  <2> QED
    BY <2>1, <2>2, <2>3 DEF walletVars, WalletTypeOK, TypeOK
<1>7. ASSUME NEW t \in Calls, AnswerConflict(t) \/ FailCreate(t) \/ CrashCreate(t) \/ RefuseReview(t) \/ Abort(t)
      PROVE  Typed'
  <2>1. /\ Finish(t) /\ UNCHANGED <<balance, walletStatus, ledger, requests, enabled>>
        /\ UNCHANGED walletLock \/ UnlockWallets(t)
        /\ UNCHANGED <<requestLock, methodLock>> \/ UnlockRows(t)
        /\ files' \subseteq files
        /\ mishaps' = mishaps \/ mishaps' = mishaps \cup (files \cap {arg[t].id})
    BY <1>7 DEF AnswerConflict, FailCreate, CrashCreate, RefuseReview, Abort, walletVars
  <2>2. pc' \in [Calls -> Steps] /\ arg' \in [Calls -> Args] /\ CallTypes'
    BY <2>1, FinishTypes
  <2>3. WalletTypeOK'
    BY <2>1, UnlockTypes DEF WalletTypeOK, TypeOK
  <2>4. /\ requestLock' \in [DepositIds -> Calls \cup {None}]
        /\ methodLock' \in [Methods -> Calls \cup {None}]
    BY <2>1, UnlockTypes DEF TypeOK
  <2> QED
    BY <2>1, <2>2, <2>3, <2>4 DEF TypeOK
<1>8. ASSUME NEW t \in Calls, NEW id \in DepositIds, NEW action \in {"approve", "reject"},
             NEW amount \in Amounts \cup {0}, LockRequest(t, id, action, amount)
      PROVE  Typed'
  <2> DEFINE due == IF action = "approve" /\ amount > 0 THEN amount ELSE requests[id].amount
             a == [w |-> requests[id].w, id |-> id, key |-> None, method |-> requests[id].method,
                   amount |-> due, seen |-> 0]
  <2>1. requests[id] \in Request /\ requests[id] # None
    BY <1>8 DEF LockRequest, TypeOK
  <2>2. due \in Amounts
    BY <2>1 DEF Request
  <2> HIDE DEF due
  <2>3. a \in Args /\ a.id = id /\ a.w \in Wallets /\ a.method \in Methods /\ a.amount \in Amounts
    BY <2>1, <2>2, AmountType DEF Args, Request
  <2>4. pc' = [pc EXCEPT ![t] = action] /\ arg' = [arg EXCEPT ![t] = a] /\ UNCHANGED requests
    BY <1>8 DEF LockRequest, due
  <2>5. pc' \in [Calls -> Steps] /\ arg' \in [Calls -> Args] /\ CallTypes'
    <3>1. action \in Steps /\ action \notin CreateSteps /\ action # "new"
      BY DEF Steps, CreateSteps, ReviewSteps
    <3> HIDE DEF a
    <3> QED
      BY <2>1, <2>3, <2>4, <3>1, AdvanceTypes
  <2> QED
    BY <1>8, <2>5 DEF LockRequest, walletVars, WalletTypeOK, TypeOK
<1>9. ASSUME NEW t \in Calls, LockMethod(t)
      PROVE  Typed'
  <2>1. PICK step \in {"approving", "rejecting"} : pc' = [pc EXCEPT ![t] = step]
    BY <1>9 DEF LockMethod
  <2>2. step \in Steps /\ step \in ReviewSteps /\ pc[t] \in ReviewSteps
    BY <1>9 DEF LockMethod, Steps, ReviewSteps
  <2>3. pc' \in [Calls -> Steps] /\ arg' \in [Calls -> Args] /\ CallTypes'
    BY <1>9, <2>1, <2>2, MoveOnTypes DEF LockMethod
  <2>4. arg[t].method \in Methods
    BY <2>2 DEF CallTypes
  <2> QED
    BY <1>9, <2>3, <2>4 DEF LockMethod, walletVars, WalletTypeOK, TypeOK
<1>10. ASSUME NEW t \in Calls, Credit(t)
       PROVE  Typed'
  <2> DEFINE a == [arg[t] EXCEPT !.seen = balance[arg[t].w]]
  <2>1. /\ arg[t] \in Args /\ arg[t].w \in Wallets /\ arg[t].method \in Methods
        /\ arg[t].amount \in Amounts /\ arg[t].id \in DepositIds /\ requests[arg[t].id] # None
    <3>1. pc[t] \in ReviewSteps /\ pc[t] # "idle"
      BY <1>10 DEF Credit, ReviewSteps
    <3> QED
      BY <3>1 DEF CallTypes, TypeOK
  <2>2. /\ a \in Args /\ a.w = arg[t].w /\ a.method = arg[t].method /\ a.amount = arg[t].amount
        /\ a.id = arg[t].id
    BY <2>1 DEF Args, TypeOK, WalletTypeOK
  <2>3. pc' = [pc EXCEPT ![t] = "credited"] /\ arg' = [arg EXCEPT ![t] = a] /\ UNCHANGED requests
    BY <1>10 DEF Credit, requestVars
  <2>4. pc' \in [Calls -> Steps] /\ arg' \in [Calls -> Args] /\ CallTypes'
    <3>1. "credited" \in Steps /\ "credited" \notin CreateSteps
      BY DEF Steps, CreateSteps, ReviewSteps
    <3> HIDE DEF a
    <3> QED
      BY <2>1, <2>2, <2>3, <3>1, AdvanceTypes
  <2>5. walletLock' \in [Wallets -> Calls \cup {None}]
    BY <1>10 DEF Credit, LockWalletRow, WalletTypeOK, TypeOK
  <2> QED
    BY <1>10, <2>4, <2>5 DEF Credit, requestVars, WalletTypeOK, TypeOK
<1>11. ASSUME NEW t \in Calls, CommitApprove(t)
       PROVE  Typed'
  <2> DEFINE row == [requests[arg[t].id] EXCEPT !.status = "approved", !.amount = arg[t].amount]
  <2>1. /\ arg[t].w \in Wallets /\ arg[t].amount \in Amounts /\ arg[t].amount \in Int
        /\ arg[t].seen \in Int /\ arg[t].id \in DepositIds /\ arg[t].id \in Ids
        /\ requests[arg[t].id] \in Request
    <3>1. pc[t] \in ReviewSteps /\ pc[t] # "idle"
      BY <1>11 DEF CommitApprove, ReviewSteps
    <3> QED
      BY <3>1, AmountType DEF CallTypes, TypeOK, Args
  <2>2. balance' \in [Wallets -> Int] /\ ledger' \in [Wallets -> Seq(Entry)]
    BY <1>11, <2>1, MoveTxType DEF CommitApprove, Kinds, TypeOK
  <2>3. row \in Request /\ requests' = [requests EXCEPT ![arg[t].id] = row]
    BY <1>11, <2>1 DEF CommitApprove, Request, TypeOK
  <2> HIDE DEF row
  <2>4. /\ requests' \in [DepositIds -> Request \cup {None}]
        /\ pc' \in [Calls -> Steps] /\ arg' \in [Calls -> Args] /\ CallTypes'
    BY <1>11, <2>1, <2>3, RowTypes, FinishTypes DEF CommitApprove
  <2> QED
    BY <1>11, <2>2, <2>4, UnlockTypes DEF CommitApprove, WalletTypeOK, TypeOK
<1>12. ASSUME NEW t \in Calls, CommitReject(t)
       PROVE  Typed'
  <2> DEFINE row == [requests[arg[t].id] EXCEPT !.status = "rejected"]
  <2>1. arg[t].id \in DepositIds /\ requests[arg[t].id] \in Request
    BY <1>12 DEF CommitReject, CallTypes, ReviewSteps, TypeOK
  <2>2. row \in Request /\ requests' = [requests EXCEPT ![arg[t].id] = row]
    BY <1>12, <2>1 DEF CommitReject, Request, TypeOK
  <2> HIDE DEF row
  <2>3. /\ requests' \in [DepositIds -> Request \cup {None}]
        /\ pc' \in [Calls -> Steps] /\ arg' \in [Calls -> Args] /\ CallTypes'
    BY <1>12, <2>1, <2>2, RowTypes, FinishTypes DEF CommitReject
  <2> QED
    BY <1>12, <2>3, UnlockTypes DEF CommitReject, walletVars, WalletTypeOK, TypeOK
<1>13. ASSUME NEW w \in Wallets, NEW status \in WalletStatus, SetWalletStatus(w, status), UNCHANGED requestVars
       PROVE  Typed'
  BY <1>13 DEF SetWalletStatus, requestVars, WalletTypeOK, TypeOK, CallTypes
<1>14. ASSUME (\E m \in Methods : UpdatePaymentMethod(m)) \/ UNCHANGED vars
       PROVE  Typed'
  BY <1>14 DEF UpdatePaymentMethod, vars, walletVars, requestVars, WalletTypeOK, TypeOK, CallTypes
<1> QED
  BY <1>1, <1>2, <1>3, <1>4, <1>5, <1>6, <1>7, <1>8, <1>9, <1>10, <1>11, <1>12, <1>13, <1>14
     DEF Next, Begin, Continue

\* The rows, the files and the calls keep their types, for every instance.
THEOREM TypeCorrect == Spec => []TypeOK
<1>1. Spec => []Typed
  BY TypedInit, TypedNext, PTL DEF Spec
<1> QED
  BY <1>1, PTL DEF Typed

-----------------------------------------------------------------------------
(* The ledger: a call that is about to move money holds the wallet row, and  *)
(* what it read there is still true.                                         *)

WalletSteps == {"adjusted", "credited"}

Locked(c) ==
    LET w == arg[c].w
    IN  pc[c] \in WalletSteps =>
            /\ walletLock[w] = c
            /\ arg[c].seen = balance[w]
            /\ \/ pc[c] = "credited" /\ Posted(w, "deposit", arg[c].id)
               \/ arg[c].seen + arg[c].amount \in 0..MaxSafe

AllLocked == \A c \in Calls : Locked(c)

MoneyInv == Typed /\ AllLocked /\ StatementChains /\ BalancesInRange

\* A step of call t that leaves the rows others hold alone.
LEMMA OthersLocked ==
    ASSUME MoneyInv, NEW t \in Calls,
           \A c \in Calls \ {t} : pc'[c] = pc[c] /\ arg'[c] = arg[c],
           \A v \in Wallets : walletLock[v] \notin {None, t} =>
               walletLock'[v] = walletLock[v] /\ balance'[v] = balance[v] /\ ledger'[v] = ledger[v],
           Locked(t)'
    PROVE  AllLocked'
<1> SUFFICES ASSUME NEW c \in Calls \ {t} PROVE Locked(c)'
  BY DEF AllLocked
<1>1. Locked(c) /\ (pc[c] # "idle" => arg[c].w \in Wallets)
  BY DEF MoneyInv, AllLocked, Typed, CallTypes
<1>2. CASE pc[c] \in WalletSteps
  <2>1. arg[c].w \in Wallets /\ walletLock[arg[c].w] = c /\ c # None
    BY <1>1, <1>2 DEF Locked, WalletSteps
  <2>2. /\ walletLock'[arg[c].w] = c /\ balance'[arg[c].w] = balance[arg[c].w]
        /\ ledger'[arg[c].w] = ledger[arg[c].w]
    BY <2>1
  <2> QED
    BY <1>1, <2>2 DEF Locked, Posted
<1>3. CASE pc[c] \notin WalletSteps
  BY <1>3 DEF Locked
<1> QED
  BY <1>2, <1>3

LEMMA UnlockOthers ==
    ASSUME MoneyInv, NEW t \in Calls, UnlockWallets(t)
    PROVE  \A v \in Wallets : walletLock[v] \notin {None, t} => walletLock'[v] = walletLock[v]
BY DEF UnlockWallets

LEMMA LockOthers ==
    ASSUME MoneyInv, NEW t \in Calls, NEW w \in Wallets, LockWalletRow(t, w)
    PROVE  /\ \A v \in Wallets : walletLock[v] \notin {None, t} => walletLock'[v] = walletLock[v]
           /\ walletLock'[w] = t
BY DEF LockWalletRow, MoneyInv, Typed, TypeOK, WalletTypeOK

\* A step that touches no wallet.
LEMMA AsideLocked ==
    ASSUME MoneyInv, NEW t \in Calls, UNCHANGED <<balance, ledger>>,
           UNCHANGED walletLock \/ UnlockWallets(t),
           \A c \in Calls \ {t} : pc'[c] = pc[c] /\ arg'[c] = arg[c], pc'[t] \notin WalletSteps
    PROVE  AllLocked'
<1>1. Locked(t)'
  BY DEF Locked
<1> QED
  BY <1>1, UnlockOthers, OthersLocked

\* The commit of a movement: the call holds the row, what it read is current, and
\* the result was checked.
LEMMA CommitMoney ==
    ASSUME MoneyInv, NEW t \in Calls, NEW kind \in Kinds, NEW ref \in Ids \cup {None},
           arg[t].w \in Wallets, arg[t].amount \in Int,
           walletLock[arg[t].w] = t, arg[t].seen = balance[arg[t].w],
           Posted(arg[t].w, kind, ref) \/ arg[t].seen + arg[t].amount \in 0..MaxSafe,
           MoveTx(arg[t].w, kind, ref, arg[t].amount, arg[t].seen), UnlockWallets(t), Finish(t)
    PROVE  AllLocked' /\ StatementChains' /\ BalancesInRange'
<1>0. WalletTypeOK /\ arg[t].seen \in Int
  BY DEF MoneyInv, Typed, TypeOK, WalletTypeOK
<1>1. StatementChains' /\ BalancesInRange'
  BY <1>0, MoveTxChains, MoveTxInRange DEF MoneyInv
<1>2. \A v \in Wallets : walletLock[v] \notin {None, t} =>
          walletLock'[v] = walletLock[v] /\ balance'[v] = balance[v] /\ ledger'[v] = ledger[v]
  BY <1>0, UnlockOthers, MoveTxOthers
<1>3. Locked(t)' /\ \A c \in Calls \ {t} : pc'[c] = pc[c] /\ arg'[c] = arg[c]
  BY DEF Finish, MoneyInv, Typed, TypeOK, Locked, WalletSteps
<1> QED
  BY <1>1, <1>2, <1>3, OthersLocked

LEMMA MoneyInit == Init => MoneyInv
<1> SUFFICES ASSUME Init PROVE MoneyInv
  OBVIOUS
<1>1. AllLocked
  BY DEF Init, WalletInit, AllLocked, Locked, WalletSteps
<1>2. StatementChains
  <2>1. \A w \in Wallets : balance[w] = 0 /\ ledger[w] = <<>>
    BY DEF Init, WalletInit
  <2>2. Len(<<>>) = 0 /\ DOMAIN <<>> = {}
    OBVIOUS
  <2> QED
    BY <2>1, <2>2 DEF StatementChains, Chained
<1>3. BalancesInRange
  <2>1. 0 \in 0..MaxSafe
    BY DEF WalletAssumption
  <2> QED
    BY <2>1 DEF Init, WalletInit, BalancesInRange
<1> QED
  BY <1>1, <1>2, <1>3, TypedInit DEF MoneyInv

LEMMA MoneyNext == MoneyInv /\ [Next]_vars => MoneyInv'
<1> SUFFICES ASSUME MoneyInv, [Next]_vars PROVE AllLocked' /\ StatementChains' /\ BalancesInRange'
  BY TypedNext DEF MoneyInv
<1>0. WalletTypeOK /\ TypeOK /\ CallTypes /\ AllLocked /\ Typed
  BY DEF MoneyInv, Typed, TypeOK
<1>a. ASSUME UNCHANGED <<balance, ledger>>
      PROVE  StatementChains' /\ BalancesInRange'
  BY <1>a DEF MoneyInv, StatementChains, Chained, BalancesInRange
<1>1. ASSUME NEW t \in Calls, NEW w \in Wallets, NEW amount \in AdjustAmounts,
             StartAdjust(t, w, amount)
      PROVE  AllLocked' /\ UNCHANGED <<balance, ledger>>
  <2>1. UNCHANGED <<balance, ledger>> /\ LockWalletRow(t, w)
    BY <1>1 DEF StartAdjust
  <2>2. /\ pc'[t] = "adjusted" /\ arg'[t].w = w /\ arg'[t].amount = amount
        /\ arg'[t].seen = balance[w]
        /\ \A c \in Calls \ {t} : pc'[c] = pc[c] /\ arg'[c] = arg[c]
    BY <1>0, <1>1 DEF StartAdjust, TypeOK, NoArg
  <2>3. amount \in Int /\ balance[w] + amount \in 0..MaxSafe
    BY <1>1, MovableInRange DEF StartAdjust, MoneyInv
  <2>4. Locked(t)'
    BY <2>1, <2>2, <2>3, LockOthers DEF Locked
  <2> QED
    BY <2>1, <2>2, <2>4, LockOthers, OthersLocked
<1>2. ASSUME NEW t \in Calls, CommitAdjust(t)
      PROVE  AllLocked' /\ StatementChains' /\ BalancesInRange'
  <2>1. /\ arg[t].w \in Wallets /\ arg[t].amount \in Int
        /\ walletLock[arg[t].w] = t /\ arg[t].seen = balance[arg[t].w]
        /\ arg[t].seen + arg[t].amount \in 0..MaxSafe
    BY <1>0, <1>2 DEF CommitAdjust, CallTypes, TypeOK, Args, AllLocked, Locked, WalletSteps
  <2> QED
    BY <1>2, <2>1, CommitMoney DEF CommitAdjust, Kinds
<1>3. ASSUME NEW t \in Calls,
             \/ \E key \in Keys, w \in Wallets, m \in Methods, amount \in Amounts : StartCreate(t, key, w, m, amount)
             \/ \E id \in DepositIds : StoreProof(t, id)
             \/ \E id \in DepositIds, action \in {"approve", "reject"}, amount \in Amounts \cup {0} :
                   LockRequest(t, id, action, amount)
             \/ CheckRequest(t) \/ InsertRequest(t) \/ LockMethod(t)
      PROVE  AllLocked' /\ UNCHANGED <<balance, ledger>>
  <2>1. /\ UNCHANGED <<balance, ledger, walletLock>>
        /\ \A c \in Calls \ {t} : pc'[c] = pc[c] /\ arg'[c] = arg[c]
    BY <1>0, <1>3 DEF StartCreate, StoreProof, LockRequest, CheckRequest, InsertRequest, LockMethod,
                      walletVars, TypeOK
  <2>2. pc'[t] \notin WalletSteps
    BY <1>0, <1>3 DEF StartCreate, StoreProof, LockRequest, CheckRequest, InsertRequest, LockMethod,
                      WalletSteps, TypeOK
  <2> QED
    BY <2>1, <2>2, AsideLocked
<1>4. ASSUME NEW t \in Calls,
             \/ CommitCreate(t) \/ LoseCommit(t) \/ AnswerConflict(t) \/ FailCreate(t) \/ CrashCreate(t)
             \/ RefuseReview(t) \/ CommitReject(t) \/ Abort(t)
      PROVE  AllLocked' /\ UNCHANGED <<balance, ledger>>
  <2>1. /\ UNCHANGED <<balance, ledger>>
        /\ UNCHANGED walletLock \/ UnlockWallets(t)
        /\ Finish(t)
    BY <1>4 DEF CommitCreate, LoseCommit, AnswerConflict, FailCreate, CrashCreate, RefuseReview,
                CommitReject, Abort, walletVars
  <2>2. /\ \A c \in Calls \ {t} : pc'[c] = pc[c] /\ arg'[c] = arg[c]
        /\ pc'[t] \notin WalletSteps
    BY <1>0, <2>1 DEF Finish, WalletSteps, TypeOK
  <2> QED
    BY <2>1, <2>2, AsideLocked
<1>5. ASSUME NEW t \in Calls, Credit(t)
      PROVE  AllLocked' /\ UNCHANGED <<balance, ledger>>
  <2>1. /\ UNCHANGED <<balance, ledger>> /\ arg[t].w \in Wallets /\ arg[t].amount \in Int
        /\ LockWalletRow(t, arg[t].w) /\ arg[t] \in Args
        /\ Posted(arg[t].w, "deposit", arg[t].id) \/ Movable(arg[t].w, arg[t].amount)
    BY <1>0, <1>5 DEF Credit, Creditable, CallTypes, TypeOK, Args
  <2>2. /\ pc'[t] = "credited" /\ arg'[t].w = arg[t].w /\ arg'[t].id = arg[t].id
        /\ arg'[t].amount = arg[t].amount /\ arg'[t].seen = balance[arg[t].w]
        /\ \A c \in Calls \ {t} : pc'[c] = pc[c] /\ arg'[c] = arg[c]
    BY <1>0, <1>5, <2>1 DEF Credit, TypeOK, Args
  <2>3. Posted(arg[t].w, "deposit", arg[t].id)' \/ balance[arg[t].w] + arg[t].amount \in 0..MaxSafe
    BY <2>1, <2>2, MovableInRange DEF Posted, MoneyInv
  <2>4. Locked(t)'
    BY <2>1, <2>2, <2>3, LockOthers DEF Locked, Posted
  <2> QED
    BY <2>1, <2>2, <2>4, LockOthers, OthersLocked
<1>6. ASSUME NEW t \in Calls, CommitApprove(t)
      PROVE  AllLocked' /\ StatementChains' /\ BalancesInRange'
  <2>1. /\ arg[t].w \in Wallets /\ arg[t].amount \in Int /\ arg[t].id \in Ids
        /\ walletLock[arg[t].w] = t /\ arg[t].seen = balance[arg[t].w]
        /\ Posted(arg[t].w, "deposit", arg[t].id) \/ arg[t].seen + arg[t].amount \in 0..MaxSafe
    BY <1>0, <1>6 DEF CommitApprove, CallTypes, ReviewSteps, TypeOK, Args, AllLocked, Locked, WalletSteps
  <2> QED
    BY <1>6, <2>1, CommitMoney DEF CommitApprove, Kinds
<1>7. ASSUME NEW w \in Wallets, NEW status \in WalletStatus, SetWalletStatus(w, status)
      PROVE  AllLocked' /\ UNCHANGED <<balance, ledger>>
  BY <1>0, <1>7 DEF SetWalletStatus, AllLocked, Locked, Posted
<1>8. ASSUME (\E m \in Methods : UpdatePaymentMethod(m)) \/ UNCHANGED vars
      PROVE  AllLocked' /\ UNCHANGED <<balance, ledger>>
  BY <1>0, <1>8 DEF UpdatePaymentMethod, vars, walletVars, AllLocked, Locked, Posted
<1> QED
  BY <1>a, <1>1, <1>2, <1>3, <1>4, <1>5, <1>6, <1>7, <1>8 DEF Next, Begin, Continue

\* What MoveTx owes a wallet holds however many approvals and adjustments interleave
\* on it, though a deposit's creation locks no wallet.
THEOREM LedgerStaysSound == Spec => []LedgerSound
<1>1. Spec => []MoneyInv
  BY MoneyInit, MoneyNext, PTL DEF Spec
<1>2. MoneyInv => LedgerSound
  BY DEF MoneyInv, LedgerSound
<1> QED
  BY <1>1, <1>2, PTL

-----------------------------------------------------------------------------
(* The requests: what the calls in flight rely on *)

Storing(c) == pc[c] \in StoredSteps

\* A review holds its request row; the row is on its wallet, a rejection names its
\* amount, and once the wallet is credited the row is still waiting.
Reviewing(c) ==
    pc[c] \in ReviewSteps =>
        /\ requestLock[arg[c].id] = c
        /\ requests[arg[c].id].w = arg[c].w
        /\ pc[c] \in {"reject", "rejecting"} => requests[arg[c].id].amount = arg[c].amount
        /\ pc[c] = "credited" => requests[arg[c].id].status = "pending"

\* A create's file is there and nobody else's, its row is not there yet, and past
\* ON CONFLICT nobody else has recorded its key or is about to.
Creating(c) ==
    /\ Storing(c) =>
          /\ requests[arg[c].id] = None
          /\ arg[c].id \in files \ mishaps
          /\ \A d \in Calls \ {c} : Storing(d) => arg[d].id # arg[c].id
    /\ pc[c] = "inserted" =>
          /\ ByIdempotencyKey(Owner[arg[c].w], arg[c].key) = {}
          /\ \A d \in Calls \ {c} :
                pc[d] = "inserted" /\ arg[d].key = arg[c].key => Owner[arg[d].w] # Owner[arg[c].w]

AllReady == \A c \in Calls : Reviewing(c) /\ Creating(c)

RowsSound == CreditedOnce /\ OneAnswerPerKey /\ ProofMatchesRow

RequestInv == MoneyInv /\ AllReady /\ RowsSound

-----------------------------------------------------------------------------
(* The properties of the rows, one row at a time *)

\* What a statement owes a request with this row.
Due(row, w) == IF row # None /\ row.status = "approved" /\ row.w = w
               THEN {<<"deposit", row.amount>>} ELSE {}

\* What the notifications tell of a request, and what they owe it.
Told(log, id) == {<<n.kind, n.amount>> : n \in {x \in log : x.id = id}}
Notice(row) == IF row = None \/ row.status = "pending" THEN {}
               ELSE IF row.status = "approved" THEN {<<"deposit_approved", row.amount>>}
               ELSE {<<"deposit_rejected", row.amount>>}

CreditedOf(posted, told, row, w) ==
    IF row = None THEN posted = {} /\ told = {}
    ELSE CASE row.status = "pending" -> posted = {} /\ told = {}
           [] row.status = "rejected" -> posted = {} /\ told = {<<"deposit_rejected", row.amount>>}
           [] row.status = "approved" ->
                  /\ posted = IF row.w = w THEN {<<"deposit", row.amount>>} ELSE {}
                  /\ told = {<<"deposit_approved", row.amount>>}

LEMMA CreditedByStatus ==
    ASSUME NEW posted, NEW told, NEW row \in Request \cup {None}, NEW w
    PROVE  CreditedOf(posted, told, row, w) <=> posted = Due(row, w) /\ told = Notice(row)
<1>0. row # None => row \in Request
  OBVIOUS
<1>1. row # None => row.status \in {"pending", "approved", "rejected"}
  BY <1>0 DEF Request
<1>2. CASE row = None
  BY <1>2 DEF CreditedOf, Due, Notice
<1>3. CASE row # None /\ row.status = "pending"
  BY <1>3, Zenon DEF CreditedOf, Due, Notice
<1>4. CASE row # None /\ row.status = "approved"
  BY <1>4, Zenon DEF CreditedOf, Due, Notice
<1>5. CASE row # None /\ row.status = "rejected"
  BY <1>5, Zenon DEF CreditedOf, Due, Notice
<1> QED
  BY <1>1, <1>2, <1>3, <1>4, <1>5

LEMMA CreditedByRow ==
    ASSUME TypeOK
    PROVE  CreditedOnce <=>
               \A id \in DepositIds, w \in Wallets :
                   PostedFor(w, id) = Due(requests[id], w) /\ Told(notices, id) = Notice(requests[id])
<1>1. CreditedOnce <=> \A id \in DepositIds, w \in Wallets :
          CreditedOf(PostedFor(w, id), Told(notices, id), requests[id], w)
  BY DEF CreditedOnce, CreditedOf, PostedFor, Told
<1>2. \A id \in DepositIds : requests[id] \in Request \cup {None}
  BY DEF TypeOK
<1> QED
  BY <1>1, <1>2, CreditedByStatus

LEMMA CreditedByRowNext ==
    ASSUME TypeOK'
    PROVE  CreditedOnce' <=>
               \A id \in DepositIds, w \in Wallets :
                   PostedFor(w, id)' = Due(requests'[id], w) /\ Told(notices', id) = Notice(requests'[id])
<1>1. CreditedOnce' <=> \A id \in DepositIds, w \in Wallets :
          CreditedOf(PostedFor(w, id)', Told(notices', id), requests'[id], w)
  BY DEF CreditedOnce, CreditedOf, PostedFor, Told
<1>2. \A id \in DepositIds : requests'[id] \in Request \cup {None}
  BY DEF TypeOK
<1> QED
  BY <1>1, <1>2, CreditedByStatus

\* A notification tells of its own request only.
LEMMA NoticeTells ==
    ASSUME NEW kind, NEW amount, NEW id, NEW other, Notify(kind, id, amount)
    PROVE  Told(notices', other) = IF other = id THEN Told(notices, other) \cup {<<kind, amount>>}
                                   ELSE Told(notices, other)
<1> DEFINE new == [kind |-> kind, id |-> id, amount |-> amount]
<1>1. \A l, x : x \in Told(l, other) <=> \E n \in l : n.id = other /\ x = <<n.kind, n.amount>>
  BY DEF Told
<1>2. new.kind = kind /\ new.id = id /\ new.amount = amount
  OBVIOUS
<1>3. \A n : n \in notices' <=> n \in notices \/ n = new
  BY DEF Notify
<1> HIDE DEF new
<1>4. \A x : x \in Told(notices', other) <=> x \in Told(notices, other) \/ (other = id /\ x = <<kind, amount>>)
  BY <1>1, <1>2, <1>3
<1> QED
  BY <1>4

LEMMA KeysByRow ==
    OneAnswerPerKey <=>
        /\ \A id, other \in DepositIds :
              /\ requests[id] # None /\ requests[other] # None
              /\ requests[id].key = requests[other].key
              /\ Owner[requests[id].w] = Owner[requests[other].w]
              => id = other
        /\ \A a \in answers : /\ a.id \in DepositIds /\ requests[a.id] # None
                              /\ requests[a.id].key = a.key /\ Owner[requests[a.id].w] = a.user
BY DEF OneAnswerPerKey, ByIdempotencyKey, Recorded

LEMMA KeysByRowNext ==
    OneAnswerPerKey' <=>
        /\ \A id, other \in DepositIds :
              /\ requests'[id] # None /\ requests'[other] # None
              /\ requests'[id].key = requests'[other].key
              /\ Owner[requests'[id].w] = Owner[requests'[other].w]
              => id = other
        /\ \A a \in answers' : /\ a.id \in DepositIds /\ requests'[a.id] # None
                               /\ requests'[a.id].key = a.key /\ Owner[requests'[a.id].w] = a.user
BY DEF OneAnswerPerKey, ByIdempotencyKey, Recorded

\* Rows keep their keys and answers come from rows.
LEMMA KeysKept ==
    ASSUME OneAnswerPerKey,
           \A id \in DepositIds :
               /\ requests'[id] = None <=> requests[id] = None
               /\ requests'[id].key = requests[id].key /\ requests'[id].w = requests[id].w,
           \/ UNCHANGED answers
           \/ \E u \in Users, key \in Keys : \E id \in ByIdempotencyKey(u, key) : Answer(u, key, id)
    PROVE  OneAnswerPerKey'
<1>1. /\ \A id, other \in DepositIds :
            /\ requests'[id] # None /\ requests'[other] # None
            /\ requests'[id].key = requests'[other].key
            /\ Owner[requests'[id].w] = Owner[requests'[other].w]
            => id = other
      /\ \A a \in answers : /\ a.id \in DepositIds /\ requests'[a.id] # None
                            /\ requests'[a.id].key = a.key /\ Owner[requests'[a.id].w] = a.user
  BY KeysByRow
<1>2. CASE UNCHANGED answers
  BY <1>1, <1>2, KeysByRowNext
<1>3. CASE \E u \in Users, key \in Keys : \E id \in ByIdempotencyKey(u, key) : Answer(u, key, id)
  <2>1. PICK u \in Users, key \in Keys : \E id \in ByIdempotencyKey(u, key) : Answer(u, key, id)
    BY <1>3
  <2>2. PICK id \in ByIdempotencyKey(u, key) : Answer(u, key, id)
    BY <2>1
  <2> DEFINE new == [user |-> u, key |-> key, id |-> id]
  <2>3. answers' = answers \cup {new} /\ new.user = u /\ new.key = key /\ new.id = id
    BY <2>2 DEF Answer
  <2> HIDE DEF new
  <2>4. /\ id \in DepositIds /\ requests'[id] # None
        /\ requests'[id].key = key /\ Owner[requests'[id].w] = u
    BY DEF ByIdempotencyKey, Recorded
  <2> QED
    BY <1>1, <2>3, <2>4, KeysByRowNext
<1> QED
  BY <1>2, <1>3

\* A new row has a key no other row has.
LEMMA KeyCommits ==
    ASSUME TypeOK, OneAnswerPerKey, NEW k \in DepositIds, NEW row \in Request,
           requests' = [requests EXCEPT ![k] = row], requests[k] = None,
           ByIdempotencyKey(Owner[row.w], row.key) = {},
           \/ UNCHANGED answers
           \/ Answer(Owner[row.w], row.key, k)
    PROVE  OneAnswerPerKey'
<1>1. /\ \A id, other \in DepositIds :
            /\ requests[id] # None /\ requests[other] # None
            /\ requests[id].key = requests[other].key
            /\ Owner[requests[id].w] = Owner[requests[other].w]
            => id = other
      /\ \A a \in answers : /\ a.id \in DepositIds /\ requests[a.id] # None
                            /\ requests[a.id].key = a.key /\ Owner[requests[a.id].w] = a.user
  BY KeysByRow
<1>2. /\ requests'[k] = row /\ row # None
      /\ \A id \in DepositIds \ {k} : requests'[id] = requests[id]
  BY RowTypes
<1>3. \A id \in DepositIds : requests[id] # None =>
          ~(requests[id].key = row.key /\ Owner[requests[id].w] = Owner[row.w])
  BY DEF ByIdempotencyKey, Recorded
<1>4. \A id, other \in DepositIds :
          /\ requests'[id] # None /\ requests'[other] # None
          /\ requests'[id].key = requests'[other].key
          /\ Owner[requests'[id].w] = Owner[requests'[other].w]
          => id = other
  BY <1>1, <1>2, <1>3
<1>5. \A a \in answers' : /\ a.id \in DepositIds /\ requests'[a.id] # None
                          /\ requests'[a.id].key = a.key /\ Owner[requests'[a.id].w] = a.user
  <2>1. CASE UNCHANGED answers
    BY <1>1, <1>2, <2>1
  <2>2. CASE Answer(Owner[row.w], row.key, k)
    <3> DEFINE new == [user |-> Owner[row.w], key |-> row.key, id |-> k]
    <3>1. answers' = answers \cup {new} /\ new.user = Owner[row.w] /\ new.key = row.key /\ new.id = k
      BY <2>2 DEF Answer
    <3> HIDE DEF new
    <3> QED
      BY <1>1, <1>2, <3>1
  <2> QED
    BY <2>1, <2>2
<1> QED
  BY <1>4, <1>5, KeysByRowNext

\* Money and notifications of a step that leaves them and the statuses alone.
LEMMA CreditsKept ==
    ASSUME TypeOK, TypeOK', CreditedOnce, UNCHANGED <<requests, notices>>,
           \A id \in DepositIds, w \in Wallets : PostedFor(w, id)' = PostedFor(w, id)
    PROVE  CreditedOnce'
<1>1. \A id \in DepositIds, w \in Wallets :
          PostedFor(w, id) = Due(requests[id], w) /\ Told(notices, id) = Notice(requests[id])
  BY CreditedByRow
<1> QED
  BY <1>1, CreditedByRowNext

LEMMA CreditsCommit ==
    ASSUME TypeOK, TypeOK', CreditedOnce, NEW k \in DepositIds, NEW row \in Request,
           requests' = [requests EXCEPT ![k] = row],
           \A id \in DepositIds, w \in Wallets :
               PostedFor(w, id)' = IF id = k THEN Due(row, w) ELSE PostedFor(w, id),
           \A id \in DepositIds : Told(notices', id) = IF id = k THEN Notice(row) ELSE Told(notices, id)
    PROVE  CreditedOnce'
<1>1. \A id \in DepositIds, w \in Wallets :
          PostedFor(w, id) = Due(requests[id], w) /\ Told(notices, id) = Notice(requests[id])
  BY CreditedByRow
<1>2. \A id \in DepositIds, w \in Wallets :
          PostedFor(w, id)' = Due(requests'[id], w) /\ Told(notices', id) = Notice(requests'[id])
  <2>1. requests'[k] = row /\ \A id \in DepositIds \ {k} : requests'[id] = requests[id]
    BY RowTypes
  <2> SUFFICES ASSUME NEW id \in DepositIds, NEW w \in Wallets
               PROVE  PostedFor(w, id)' = Due(requests'[id], w) /\ Told(notices', id) = Notice(requests'[id])
    OBVIOUS
  <2>2. CASE id = k
    BY <2>1, <2>2
  <2>3. CASE id # k
    BY <1>1, <2>1, <2>3
  <2> QED
    BY <2>2, <2>3
<1> QED
  BY <1>2, CreditedByRowNext

\* The file of every id but the one t has in hand is as it was.
LEMMA FilesKept ==
    ASSUME CallTypes, CallTypes', ProofMatchesRow, NEW t \in Calls,
           \A c \in Calls \ {t} : pc'[c] = pc[c] /\ arg'[c] = arg[c],
           \A id \in DepositIds \ mishaps' :
               \/ Storing(t)' /\ arg'[t].id = id
               \/ id \in files' <=> requests'[id] # None
               \/ /\ ~(Storing(t) /\ arg[t].id = id)
                  /\ id \notin mishaps
                  /\ id \in files' <=> id \in files
                  /\ requests'[id] = None <=> requests[id] = None
    PROVE  ProofMatchesRow'
<1> SUFFICES ASSUME NEW id \in DepositIds \ mishaps',
                    \A c \in Calls : pc'[c] \in CreateSteps => arg'[c].id # id
             PROVE  id \in files' <=> requests'[id] # None
  BY DEF ProofMatchesRow, Recorded
<1>1. ~(Storing(t)' /\ arg'[t].id = id)
  BY StepSets DEF Storing
<1>2. CASE /\ ~(Storing(t) /\ arg[t].id = id)
           /\ id \notin mishaps
           /\ id \in files' <=> id \in files
           /\ requests'[id] = None <=> requests[id] = None
  <2>1. \A c \in Calls : pc[c] \in CreateSteps => arg[c].id # id
    <3> SUFFICES ASSUME NEW c \in Calls, pc[c] \in CreateSteps PROVE arg[c].id # id
      OBVIOUS
    <3>1. CASE c # t
      BY <3>1
    <3>2. CASE c = t
      <4>1. pc[t] = "new" \/ Storing(t)
        BY <3>2, StepSets DEF Storing
      <4>2. pc[t] = "new" => arg[t].id # id
        BY WalletAssumption, DepositsAssumption DEF CallTypes
      <4> QED
        BY <1>2, <3>2, <4>1, <4>2
    <3> QED
      BY <3>1, <3>2
  <2> QED
    BY <1>2, <2>1 DEF ProofMatchesRow, Recorded
<1> QED
  BY <1>1, <1>2

-----------------------------------------------------------------------------
(* The calls in flight *)

\* A step of t leaves the others ready: it takes no request row from them and changes
\* none under them, leaves their files, records no key they count on, and t itself
\* is ready.
LEMMA OthersReady ==
    ASSUME CallTypes, AllReady, NEW t \in Calls,
           \A c \in Calls \ {t} : pc'[c] = pc[c] /\ arg'[c] = arg[c],
           \A c \in Calls \ {t} : pc[c] \in ReviewSteps =>
               requestLock'[arg[c].id] = c /\ requests'[arg[c].id] = requests[arg[c].id],
           \A c \in Calls \ {t} : Storing(c) =>
               requests'[arg[c].id] = None /\ arg[c].id \in files' \ mishaps',
           \A c \in Calls \ {t}, id \in DepositIds :
               /\ pc[c] = "inserted" /\ requests'[id] # None
               /\ requests'[id].key = arg[c].key /\ Owner[requests'[id].w] = Owner[arg[c].w]
               => requests[id] # None /\ requests'[id].key = requests[id].key /\ requests'[id].w = requests[id].w,
           Reviewing(t)', Creating(t)'
    PROVE  AllReady'
<1> SUFFICES ASSUME NEW c \in Calls \ {t} PROVE Reviewing(c)' /\ Creating(c)'
  BY DEF AllReady
<1>1. pc'[c] = pc[c] /\ arg'[c] = arg[c] /\ Reviewing(c) /\ Creating(c)
  BY DEF AllReady
<1>2. Reviewing(c)'
  BY <1>1 DEF Reviewing
<1>3. ASSUME Storing(c), NEW d \in Calls \ {c}, Storing(d)'
      PROVE  arg'[d].id # arg[c].id
  <2>1. CASE d = t
    BY <1>1, <1>3, <2>1 DEF Creating, Storing
  <2>2. CASE d # t
    <3>1. pc'[d] = pc[d] /\ arg'[d] = arg[d]
      BY <2>2
    <3> QED
      BY <1>1, <1>3, <3>1 DEF Creating, Storing
  <2> QED
    BY <2>1, <2>2
<1>4. ASSUME pc[c] = "inserted", NEW d \in Calls \ {c}, pc'[d] = "inserted", arg'[d].key = arg[c].key
      PROVE  Owner[arg'[d].w] # Owner[arg[c].w]
  <2>1. CASE d = t
    BY <1>1, <1>4, <2>1 DEF Creating
  <2>2. CASE d # t
    <3>1. pc'[d] = pc[d] /\ arg'[d] = arg[d]
      BY <2>2
    <3> QED
      BY <1>1, <1>4, <3>1 DEF Creating
  <2> QED
    BY <2>1, <2>2
<1>5. ASSUME pc[c] = "inserted", NEW id \in DepositIds, requests'[id] # None
      PROVE  ~(requests'[id].key = arg[c].key /\ Owner[requests'[id].w] = Owner[arg[c].w])
  <2> SUFFICES ASSUME requests'[id].key = arg[c].key, Owner[requests'[id].w] = Owner[arg[c].w]
               PROVE  FALSE
    OBVIOUS
  <2>1. requests[id] # None /\ requests'[id].key = requests[id].key /\ requests'[id].w = requests[id].w
    BY <1>5
  <2> QED
    BY <1>1, <1>5, <2>1 DEF Creating, ByIdempotencyKey, Recorded
<1>6. Creating(c)'
  <2>1. Storing(c) => requests'[arg[c].id] = None /\ arg[c].id \in files' \ mishaps'
    OBVIOUS
  <2> QED
    BY <1>1, <1>3, <1>4, <1>5, <2>1 DEF Creating, Storing, ByIdempotencyKey, Recorded
<1> QED
  BY <1>2, <1>6

LEMMA NothingReady ==
    ASSUME NEW t \in Calls, pc'[t] \notin ReviewSteps \cup StoredSteps
    PROVE  Reviewing(t)' /\ Creating(t)'
BY DEF Reviewing, Creating, Storing, StoredSteps

\* What the other calls have is not what t has.
LEMMA Apart ==
    ASSUME CallTypes, AllReady, NEW t \in Calls, NEW c \in Calls \ {t}
    PROVE  /\ pc[c] \in ReviewSteps =>
                 /\ (UNCHANGED requestLock \/ UnlockRows(t)) => requestLock'[arg[c].id] = c
                 /\ requestLock[arg[c].id] = c
                 /\ requests[arg[c].id] # None /\ arg[c].id \in DepositIds
                 /\ pc[t] \in ReviewSteps => arg[c].id # arg[t].id
           /\ Storing(c) =>
                 /\ requests[arg[c].id] = None /\ arg[c].id \in files \ mishaps
                 /\ arg[c].id \in DepositIds
                 /\ pc[t] \in CreateSteps => arg[c].id # arg[t].id
<1>1. Reviewing(c) /\ Reviewing(t) /\ Creating(c)
  BY DEF AllReady
<1>2. pc[c] \in ReviewSteps =>
          /\ requests[arg[c].id] # None /\ arg[c].id \in DepositIds /\ requestLock[arg[c].id] = c
          /\ pc[t] \in ReviewSteps => arg[c].id # arg[t].id
          /\ (UNCHANGED requestLock \/ UnlockRows(t)) => requestLock'[arg[c].id] = c
  BY <1>1 DEF CallTypes, Reviewing, UnlockRows
<1>3. Storing(c) =>
          /\ requests[arg[c].id] = None /\ arg[c].id \in files \ mishaps
          /\ arg[c].id \in DepositIds
          /\ pc[t] \in CreateSteps => arg[c].id # arg[t].id
  <2> SUFFICES ASSUME Storing(c)
               PROVE  /\ requests[arg[c].id] = None /\ arg[c].id \in files \ mishaps
                      /\ arg[c].id \in DepositIds
                      /\ pc[t] \in CreateSteps => arg[c].id # arg[t].id
    OBVIOUS
  <2>1. /\ requests[arg[c].id] = None /\ arg[c].id \in files \ mishaps /\ arg[c].id \in DepositIds
        /\ Storing(t) => arg[c].id # arg[t].id
    BY <1>1 DEF Creating, Storing, CallTypes
  <2>2. pc[t] = "new" => arg[c].id # arg[t].id
    BY <2>1 DEF CallTypes
  <2> QED
    BY <2>1, <2>2, StepSets DEF Storing
<1> QED
  BY <1>2, <1>3

-----------------------------------------------------------------------------
(* Init and every step *)

LEMMA RequestInit == Init => RequestInv
<1> SUFFICES ASSUME Init PROVE RequestInv
  OBVIOUS
<1>1. /\ \A c \in Calls : pc[c] = "idle"
      /\ \A id \in DepositIds : requests[id] = None
      /\ \A w \in Wallets : ledger[w] = <<>>
      /\ notices = {} /\ answers = {} /\ files = {}
  BY DEF Init, WalletInit
<1>2. AllReady
  BY <1>1 DEF AllReady, Reviewing, Creating, Storing, StoredSteps, ReviewSteps
<1>3. CreditedOnce
  <2>1. \A w \in Wallets, id \in DepositIds : PostedFor(w, id) = {}
    BY <1>1 DEF PostedFor
  <2>2. TypeOK
    BY TypedInit DEF Typed
  <2> QED
    BY <1>1, <2>1, <2>2, CreditedByRow DEF Due, Told, Notice
<1>4. OneAnswerPerKey
  BY <1>1, KeysByRow
<1>5. ProofMatchesRow
  BY <1>1 DEF ProofMatchesRow, Recorded
<1> QED
  BY <1>2, <1>3, <1>4, <1>5, MoneyInit DEF RequestInv, RowsSound

\* A step of t that leaves rows and files alone.
LEMMA AsideSound ==
    ASSUME RequestInv, Typed', NEW t \in Calls,
           \A c \in Calls \ {t} : pc'[c] = pc[c] /\ arg'[c] = arg[c],
           UNCHANGED <<requests, files, mishaps, notices>>,
           \A id \in DepositIds, w \in Wallets : PostedFor(w, id)' = PostedFor(w, id),
           \/ UNCHANGED answers
           \/ \E u \in Users, key \in Keys : \E id \in ByIdempotencyKey(u, key) : Answer(u, key, id),
           \A c \in Calls \ {t} : pc[c] \in ReviewSteps => requestLock'[arg[c].id] = c,
           Storing(t) => Storing(t)' /\ arg'[t].id = arg[t].id,
           Reviewing(t)', Creating(t)'
    PROVE  AllReady' /\ RowsSound'
<1>0. TypeOK /\ CallTypes /\ AllReady /\ RowsSound /\ TypeOK' /\ CallTypes'
  BY DEF RequestInv, MoneyInv, Typed
<1>1. CreditedOnce' /\ OneAnswerPerKey'
  BY <1>0, CreditsKept, KeysKept DEF RowsSound
<1>2. ProofMatchesRow'
  BY <1>0, FilesKept DEF RowsSound
<1>3. AllReady'
  BY <1>0, Apart, OthersReady
<1> QED
  BY <1>1, <1>2, <1>3 DEF RowsSound

\* Starting an adjustment or a create, checking, refusing or aborting a review.
LEMMA QuietSound ==
    ASSUME RequestInv, Typed', NEW t \in Calls,
           \/ /\ UNCHANGED requestVars
              /\ \E w \in Wallets, amount \in AdjustAmounts : StartAdjust(t, w, amount)
           \/ \E key \in Keys, w \in Wallets, m \in Methods, amount \in Amounts :
                  StartCreate(t, key, w, m, amount)
           \/ RefuseReview(t) \/ Abort(t)
    PROVE  AllReady' /\ RowsSound'
<1>0. TypeOK /\ CallTypes /\ AllReady
  BY DEF RequestInv, MoneyInv, Typed
<1>1. /\ UNCHANGED <<requests, files, mishaps, notices, ledger>>
      /\ UNCHANGED requestLock \/ UnlockRows(t)
      /\ pc'[t] \in {"idle", "adjusted", "new"}
      /\ \A c \in Calls \ {t} : pc'[c] = pc[c] /\ arg'[c] = arg[c]
  BY <1>0 DEF StartAdjust, StartCreate, RefuseReview, Abort, Finish, requestVars, walletVars, TypeOK
<1>2. \/ UNCHANGED answers
      \/ \E u \in Users, key \in Keys : \E id \in ByIdempotencyKey(u, key) : Answer(u, key, id)
  BY WalletAssumption DEF StartAdjust, StartCreate, RefuseReview, Abort, requestVars
<1>3. ~Storing(t)
  BY DEF StartAdjust, StartCreate, RefuseReview, Abort, Storing, StoredSteps, ReviewSteps
<1>4. Reviewing(t)' /\ Creating(t)'
  BY <1>1, NothingReady DEF ReviewSteps, StoredSteps
<1>5. \A id \in DepositIds, w \in Wallets : PostedFor(w, id)' = PostedFor(w, id)
  BY <1>1 DEF PostedFor
<1> QED
  BY <1>0, <1>1, <1>2, <1>3, <1>4, <1>5, Apart, AsideSound

\* An operator's adjustment speaks of no request.
LEMMA AdjustSound ==
    ASSUME RequestInv, Typed', NEW t \in Calls, CommitAdjust(t), UNCHANGED requestVars
    PROVE  AllReady' /\ RowsSound'
<1>0. TypeOK /\ CallTypes /\ AllReady /\ WalletTypeOK
  BY DEF RequestInv, MoneyInv, Typed, TypeOK
<1>1. /\ UNCHANGED <<requests, files, mishaps, notices, answers, requestLock>> /\ Finish(t)
      /\ pc[t] = "adjusted" /\ ~Storing(t)
  BY DEF CommitAdjust, requestVars, Storing, StoredSteps
<1>2. pc'[t] = "idle" /\ \A c \in Calls \ {t} : pc'[c] = pc[c] /\ arg'[c] = arg[c]
  BY <1>0, <1>1 DEF Finish, TypeOK
<1>3. arg[t].w \in Wallets /\ arg[t].amount \in Int /\ arg[t].seen \in Int
  BY <1>0, <1>1 DEF CallTypes, TypeOK, Args
<1>4. \A id \in DepositIds, w \in Wallets : PostedFor(w, id)' = PostedFor(w, id)
  <2>1. MoveTx(arg[t].w, "adjustment", None, arg[t].amount, arg[t].seen)
        /\ ~Posted(arg[t].w, "adjustment", None)
    BY DEF CommitAdjust, Posted
  <2>2. \A id \in DepositIds : id \in Ids /\ id # None
    OBVIOUS
  <2> QED
    BY <1>0, <1>3, <2>1, <2>2, MoveTxPosts DEF Kinds
<1>5. Reviewing(t)' /\ Creating(t)'
  BY <1>2, NothingReady DEF ReviewSteps, StoredSteps
<1> QED
  BY <1>0, <1>1, <1>2, <1>4, <1>5, Apart, AsideSound

LEMMA InsertSound ==
    ASSUME RequestInv, Typed', NEW t \in Calls, CheckRequest(t) \/ InsertRequest(t)
    PROVE  AllReady' /\ RowsSound'
<1>0. TypeOK /\ CallTypes /\ AllReady
  BY DEF RequestInv, MoneyInv, Typed
<1>1. /\ UNCHANGED <<arg, requests, files, mishaps, notices, answers, requestLock, ledger>>
      /\ Storing(t) /\ Storing(t)'
      /\ \A c \in Calls \ {t} : pc'[c] = pc[c] /\ arg'[c] = arg[c]
  BY <1>0 DEF CheckRequest, InsertRequest, requestVars, walletVars, Storing, StoredSteps, TypeOK
<1>2. Reviewing(t)'
  BY <1>1 DEF Reviewing, Storing, StoredSteps, ReviewSteps
<1>3. pc'[t] = "inserted" =>
          /\ ByIdempotencyKey(Owner[arg[t].w], arg[t].key) = {}
          /\ \A d \in Calls \ {t} : pc[d] = "inserted" /\ arg[d].key = arg[t].key => Owner[arg[d].w] # Owner[arg[t].w]
  BY <1>0 DEF CheckRequest, InsertRequest, TypeOK
<1>4. Creating(t)'
  <2>1. Creating(t)
    BY <1>0 DEF AllReady
  <2>2. /\ requests'[arg[t].id] = None /\ arg[t].id \in files' \ mishaps'
        /\ \A d \in Calls \ {t} : Storing(d)' => arg'[d].id # arg[t].id
    BY <1>1, <2>1 DEF Creating, Storing
  <2>3. pc'[t] = "inserted" => ByIdempotencyKey(Owner[arg[t].w], arg[t].key)' = {}
    BY <1>1, <1>3 DEF ByIdempotencyKey, Recorded
  <2> QED
    BY <1>1, <1>3, <2>2, <2>3 DEF Creating
<1>5. \A id \in DepositIds, w \in Wallets : PostedFor(w, id)' = PostedFor(w, id)
  BY <1>1 DEF PostedFor
<1> QED
  BY <1>0, <1>1, <1>2, <1>4, <1>5, Apart, AsideSound

LEMMA ReviewSound ==
    ASSUME RequestInv, Typed', NEW t \in Calls,
           \/ \E id \in DepositIds, action \in {"approve", "reject"}, amount \in Amounts \cup {0} :
                  LockRequest(t, id, action, amount)
           \/ LockMethod(t) \/ Credit(t)
    PROVE  AllReady' /\ RowsSound'
<1>0. TypeOK /\ CallTypes /\ AllReady
  BY DEF RequestInv, MoneyInv, Typed
<1>1. /\ UNCHANGED <<requests, files, mishaps, notices, answers, ledger>>
      /\ ~Storing(t) /\ pc'[t] \in ReviewSteps
      /\ \A c \in Calls \ {t} : pc'[c] = pc[c] /\ arg'[c] = arg[c]
  BY <1>0 DEF LockRequest, LockMethod, Credit, requestVars, walletVars, Storing, StoredSteps, ReviewSteps, TypeOK
<1>2. Creating(t)'
  BY <1>1 DEF Creating, Storing, StoredSteps, ReviewSteps
<1>3. Reviewing(t)' /\ \A c \in Calls \ {t} : pc[c] \in ReviewSteps => requestLock'[arg[c].id] = c
  <2>1. CASE \E id \in DepositIds, action \in {"approve", "reject"}, amount \in Amounts \cup {0} :
                 LockRequest(t, id, action, amount)
    <3>1. PICK id \in DepositIds, action \in {"approve", "reject"}, amount \in Amounts \cup {0} :
              LockRequest(t, id, action, amount)
      BY <2>1
    <3>2. /\ requestLock[id] = None /\ requestLock' = [requestLock EXCEPT ![id] = t]
          /\ pc'[t] = action /\ arg'[t].id = id /\ arg'[t].w = requests[id].w
          /\ action = "reject" => arg'[t].amount = requests[id].amount
      BY <1>0, <3>1 DEF LockRequest, TypeOK
    <3>3. Reviewing(t)'
      BY <1>0, <1>1, <3>2 DEF Reviewing, TypeOK
    <3>4. \A c \in Calls \ {t} : pc[c] \in ReviewSteps => requestLock'[arg[c].id] = c
      <4> SUFFICES ASSUME NEW c \in Calls \ {t}, pc[c] \in ReviewSteps PROVE requestLock'[arg[c].id] = c
        OBVIOUS
      <4>1. requestLock[arg[c].id] = c /\ arg[c].id \in DepositIds /\ c # None
        BY <1>0, Apart
      <4> QED
        BY <1>0, <3>2, <4>1 DEF TypeOK
    <3> QED
      BY <3>3, <3>4
  <2>2. CASE LockMethod(t) \/ Credit(t)
    <3>1. arg[t] \in Args
      BY <1>0 DEF TypeOK
    <3>2. /\ UNCHANGED requestLock /\ pc[t] \in ReviewSteps
          /\ arg'[t].id = arg[t].id /\ arg'[t].w = arg[t].w /\ arg'[t].amount = arg[t].amount
          /\ pc'[t] \in {"reject", "rejecting"} => pc[t] \in {"reject", "rejecting"}
          /\ pc'[t] = "credited" => requests[arg[t].id].status = "pending"
      BY <1>0, <2>2, <3>1 DEF LockMethod, Credit, requestVars, ReviewSteps, TypeOK, Args
    <3>3. Reviewing(t)'
      BY <1>0, <1>1, <3>2 DEF AllReady, Reviewing
    <3> QED
      BY <1>0, <3>2, <3>3, Apart
  <2> QED
    BY <2>1, <2>2
<1>4. \A id \in DepositIds, w \in Wallets : PostedFor(w, id)' = PostedFor(w, id)
  BY <1>1 DEF PostedFor
<1> QED
  BY <1>1, <1>2, <1>3, <1>4, AsideSound

LEMMA StoreSound ==
    ASSUME RequestInv, Typed', NEW t \in Calls, NEW id \in DepositIds, StoreProof(t, id)
    PROVE  AllReady' /\ RowsSound'
<1>0. TypeOK /\ CallTypes /\ AllReady /\ RowsSound /\ TypeOK' /\ CallTypes'
  BY DEF RequestInv, MoneyInv, Typed
<1>1. /\ UNCHANGED <<requests, mishaps, notices, answers, requestLock, ledger>>
      /\ files' = files \cup {id} /\ ~Storing(t) /\ Storing(t)' /\ pc'[t] = "stored" /\ arg'[t].id = id
      /\ \A c \in Calls \ {t} : pc'[c] = pc[c] /\ arg'[c] = arg[c]
  <2>1. arg[t] \in Args
    BY <1>0 DEF TypeOK
  <2> QED
    BY <1>0, <2>1 DEF StoreProof, walletVars, Storing, StoredSteps, TypeOK, Args
<1>2. requests[id] = None /\ id \notin files \cup mishaps /\ \A c \in Calls : arg[c].id # id
  BY DEF StoreProof, FreeIds
<1>3. \A i \in DepositIds, w \in Wallets : PostedFor(w, i)' = PostedFor(w, i)
  BY <1>1 DEF PostedFor
<1>4. CreditedOnce' /\ OneAnswerPerKey'
  BY <1>0, <1>1, <1>3, CreditsKept, KeysKept DEF RowsSound
<1>5. ProofMatchesRow'
  BY <1>0, <1>1, FilesKept DEF RowsSound
<1>6. Reviewing(t)' /\ Creating(t)'
  BY <1>1, <1>2 DEF Reviewing, ReviewSteps, Creating, Storing
<1>7. AllReady'
  BY <1>0, <1>1, <1>6, Apart, OthersReady
<1> QED
  BY <1>4, <1>5, <1>7 DEF RowsSound

\* The insert commits, whether or not its answer comes back.
LEMMA CommitCreateSound ==
    ASSUME RequestInv, Typed', NEW t \in Calls, CommitCreate(t) \/ LoseCommit(t)
    PROVE  AllReady' /\ RowsSound'
<1> DEFINE k == arg[t].id
           row == [key |-> arg[t].key, w |-> arg[t].w, method |-> arg[t].method,
                   amount |-> arg[t].amount, status |-> "pending"]
<1>0. /\ TypeOK /\ CallTypes /\ AllReady /\ RowsSound /\ TypeOK' /\ CallTypes'
      /\ pc[t] = "inserted" /\ Storing(t) /\ pc[t] \in CreateSteps /\ pc[t] # "idle"
  BY DEF RequestInv, MoneyInv, Typed, CommitCreate, LoseCommit, Storing, StoredSteps, CreateSteps
<1>1. row \in Request /\ k \in DepositIds
  BY <1>0 DEF CallTypes, Request, Storing
<1>2. row.key = arg[t].key /\ row.w = arg[t].w /\ row.status = "pending"
  OBVIOUS
<1>3. /\ requests' = [requests EXCEPT ![k] = row] /\ UNCHANGED <<requestLock, notices, ledger>>
      /\ Finish(t)
      /\ \/ Answer(Owner[arg[t].w], arg[t].key, k) /\ UNCHANGED <<files, mishaps>>
         \/ UNCHANGED answers /\ files' = files \ {k} /\ mishaps' = mishaps \cup {k}
  BY DEF CommitCreate, LoseCommit, Record, walletVars
<1> HIDE DEF row
<1>4. /\ requests[k] = None /\ k \in files /\ ByIdempotencyKey(Owner[arg[t].w], arg[t].key) = {}
      /\ \A d \in Calls \ {t} : pc[d] = "inserted" /\ arg[d].key = arg[t].key => Owner[arg[d].w] # Owner[arg[t].w]
  BY <1>0 DEF AllReady, Creating
<1>5. /\ requests'[k] = row /\ row # None
      /\ \A id \in DepositIds \ {k} : requests'[id] = requests[id]
  BY <1>0, <1>1, <1>3, RowTypes
<1>6. CreditedOnce'
  <2>1. Due(row, arg[t].w) = {} /\ Notice(row) = {} /\ \A w \in Wallets : Due(row, w) = {}
    BY <1>2 DEF Due, Notice
  <2>2. Told(notices, k) = {} /\ \A w \in Wallets : PostedFor(w, k) = {}
    <3>1. arg[t].w \in Wallets
      BY <1>0 DEF CallTypes
    <3>2. \A w \in Wallets : PostedFor(w, k) = Due(requests[k], w) /\ Told(notices, k) = Notice(requests[k])
      BY <1>0, <1>1, CreditedByRow DEF RowsSound
    <3> QED
      BY <1>4, <3>1, <3>2 DEF Due, Notice
  <2>3. \A id \in DepositIds, w \in Wallets : PostedFor(w, id)' = PostedFor(w, id)
    BY <1>3 DEF PostedFor
  <2>4. \A id \in DepositIds, w \in Wallets :
            PostedFor(w, id)' = IF id = k THEN Due(row, w) ELSE PostedFor(w, id)
    BY <2>1, <2>2, <2>3
  <2>5. \A id \in DepositIds : Told(notices', id) = IF id = k THEN Notice(row) ELSE Told(notices, id)
    BY <1>3, <2>1, <2>2
  <2> QED
    BY <1>0, <1>1, <1>3, <2>4, <2>5, CreditsCommit DEF RowsSound
<1>7. OneAnswerPerKey'
  BY <1>0, <1>1, <1>2, <1>3, <1>4, KeyCommits DEF RowsSound
<1>8. pc'[t] = "idle" /\ \A c \in Calls \ {t} : pc'[c] = pc[c] /\ arg'[c] = arg[c]
  BY <1>0, <1>3 DEF Finish, TypeOK
<1>9. ProofMatchesRow'
  <2>1. \A id \in DepositIds \ mishaps' :
            \/ id = k /\ id \in files' /\ requests'[id] # None
            \/ /\ id # k /\ id \notin mishaps /\ (id \in files' <=> id \in files)
               /\ requests'[id] = requests[id]
    BY <1>3, <1>4, <1>5
  <2> QED
    BY <1>0, <1>8, <2>1, FilesKept DEF RowsSound
<1>10. AllReady'
  <2>1. Reviewing(t)' /\ Creating(t)'
    BY <1>8, NothingReady DEF ReviewSteps, StoredSteps
  <2>2. \A c \in Calls \ {t} : pc[c] \in ReviewSteps =>
            requestLock'[arg[c].id] = c /\ requests'[arg[c].id] = requests[arg[c].id]
    <3> SUFFICES ASSUME NEW c \in Calls \ {t}, pc[c] \in ReviewSteps
                 PROVE  requestLock'[arg[c].id] = c /\ requests'[arg[c].id] = requests[arg[c].id]
      OBVIOUS
    <3>1. requestLock'[arg[c].id] = c /\ requests[arg[c].id] # None /\ arg[c].id \in DepositIds
      BY <1>0, <1>3, Apart
    <3> QED
      BY <1>4, <1>5, <3>1
  <2>3. \A c \in Calls \ {t} : Storing(c) =>
            requests'[arg[c].id] = None /\ arg[c].id \in files' \ mishaps'
    <3> SUFFICES ASSUME NEW c \in Calls \ {t}, Storing(c)
                 PROVE  requests'[arg[c].id] = None /\ arg[c].id \in files' \ mishaps'
      OBVIOUS
    <3>1. /\ requests[arg[c].id] = None /\ arg[c].id \in files \ mishaps
          /\ arg[c].id \in DepositIds /\ arg[c].id # k
      BY <1>0, Apart
    <3> QED
      BY <1>3, <1>5, <3>1
  <2>4. \A c \in Calls \ {t}, id \in DepositIds :
            /\ pc[c] = "inserted" /\ requests'[id] # None
            /\ requests'[id].key = arg[c].key /\ Owner[requests'[id].w] = Owner[arg[c].w]
            => requests[id] # None /\ requests'[id].key = requests[id].key /\ requests'[id].w = requests[id].w
    BY <1>2, <1>4, <1>5
  <2> QED
    BY <1>0, <1>8, <2>1, <2>2, <2>3, <2>4, OthersReady
<1> QED
  BY <1>6, <1>7, <1>9, <1>10 DEF RowsSound

\* A create that records nothing takes its file away, or leaves it behind in a crash.
LEMMA EndCreateSound ==
    ASSUME RequestInv, Typed', NEW t \in Calls, AnswerConflict(t) \/ FailCreate(t) \/ CrashCreate(t)
    PROVE  AllReady' /\ RowsSound'
<1>0. /\ TypeOK /\ CallTypes /\ AllReady /\ RowsSound /\ TypeOK' /\ CallTypes'
      /\ pc[t] \in CreateSteps /\ pc[t] # "idle"
  BY DEF RequestInv, MoneyInv, Typed, AnswerConflict, FailCreate, CrashCreate, CreateSteps
<1>1. /\ UNCHANGED <<requests, requestLock, notices, ledger>> /\ Finish(t)
      /\ \/ files' = files \ {arg[t].id} /\ UNCHANGED mishaps
         \/ UNCHANGED files /\ mishaps' = mishaps \cup (files \cap {arg[t].id})
  BY DEF AnswerConflict, FailCreate, CrashCreate, walletVars
<1>2. \/ UNCHANGED answers
      \/ \E u \in Users, key \in Keys : \E id \in ByIdempotencyKey(u, key) : Answer(u, key, id)
  <2>1. Owner[arg[t].w] \in Users /\ arg[t].key \in Keys
    BY <1>0 DEF CallTypes
  <2>2. CASE AnswerConflict(t)
    <3>1. PICK u \in Users, key \in Keys : u = Owner[arg[t].w] /\ key = arg[t].key
      BY <2>1
    <3>2. \E id \in ByIdempotencyKey(u, key) : Answer(u, key, id)
      BY <2>2, <3>1 DEF AnswerConflict, ByIdempotencyKey, Answer
    <3> QED
      BY <3>2
  <2>3. CASE FailCreate(t) \/ CrashCreate(t)
    BY <2>3 DEF FailCreate, CrashCreate
  <2> QED
    BY <2>2, <2>3
<1>3. \A id \in DepositIds, w \in Wallets : PostedFor(w, id)' = PostedFor(w, id)
  BY <1>1 DEF PostedFor
<1>4. CreditedOnce' /\ OneAnswerPerKey'
  BY <1>0, <1>1, <1>2, <1>3, CreditsKept, KeysKept DEF RowsSound
<1>5. pc'[t] = "idle" /\ \A c \in Calls \ {t} : pc'[c] = pc[c] /\ arg'[c] = arg[c]
  BY <1>0, <1>1 DEF Finish, TypeOK
<1>6. Storing(t) => requests[arg[t].id] = None /\ arg[t].id \in files
  BY <1>0 DEF AllReady, Creating
<1>7. ~Storing(t) => arg[t].id = None /\ None \notin DepositIds
  BY <1>0, StepSets DEF Storing, CallTypes
<1>8. ProofMatchesRow'
  <2>1. \A id \in DepositIds \ mishaps' :
            \/ id \in files' <=> requests'[id] # None
            \/ /\ ~(Storing(t) /\ arg[t].id = id) /\ id \notin mishaps /\ (id \in files' <=> id \in files)
               /\ requests'[id] = requests[id]
    BY <1>1, <1>6, <1>7
  <2> QED
    BY <1>0, <1>5, <2>1, FilesKept DEF RowsSound
<1>9. AllReady'
  <2>1. Reviewing(t)' /\ Creating(t)'
    BY <1>5, NothingReady DEF ReviewSteps, StoredSteps
  <2>2. \A c \in Calls \ {t} : pc[c] \in ReviewSteps =>
            requestLock'[arg[c].id] = c /\ requests'[arg[c].id] = requests[arg[c].id]
    BY <1>0, <1>1, Apart
  <2>3. \A c \in Calls \ {t} : Storing(c) =>
            requests'[arg[c].id] = None /\ arg[c].id \in files' \ mishaps'
    <3> SUFFICES ASSUME NEW c \in Calls \ {t}, Storing(c)
                 PROVE  requests'[arg[c].id] = None /\ arg[c].id \in files' \ mishaps'
      OBVIOUS
    <3>1. /\ requests[arg[c].id] = None /\ arg[c].id \in files \ mishaps
          /\ arg[c].id \in DepositIds /\ arg[c].id # arg[t].id
      BY <1>0, Apart
    <3> QED
      BY <1>1, <3>1
  <2> QED
    BY <1>0, <1>1, <1>5, <2>1, <2>2, <2>3, OthersReady
<1> QED
  BY <1>4, <1>8, <1>9 DEF RowsSound

\* A review commits: it answers its row, tells the player, and lets the row go.
LEMMA AnswerSound ==
    ASSUME RequestInv, Typed', NEW t \in Calls, NEW k \in DepositIds, k = arg[t].id,
           pc[t] \in ReviewSteps, requests[k].status = "pending",
           NEW row \in Request, row.key = requests[k].key, row.w = requests[k].w,
           requests' = [requests EXCEPT ![k] = row],
           NEW kind, NEW amount, Notify(kind, k, amount), Notice(row) = {<<kind, amount>>},
           \A id \in DepositIds, w \in Wallets :
               PostedFor(w, id)' = IF id = k THEN Due(row, w) ELSE PostedFor(w, id),
           UNCHANGED <<files, mishaps, answers>>, UnlockRows(t), Finish(t)
    PROVE  AllReady' /\ RowsSound'
<1>0. /\ TypeOK /\ CallTypes /\ AllReady /\ RowsSound /\ TypeOK' /\ CallTypes'
  BY DEF RequestInv, MoneyInv, Typed
<1>1. /\ requests[k] # None /\ requests'[k] = row /\ row # None /\ requestLock[k] = t
      /\ \A id \in DepositIds \ {k} : requests'[id] = requests[id]
  BY <1>0, RowTypes DEF CallTypes, AllReady, Reviewing
<1>2. pc'[t] = "idle" /\ ~Storing(t) /\ \A c \in Calls \ {t} : pc'[c] = pc[c] /\ arg'[c] = arg[c]
  BY <1>0, StepSets DEF Finish, TypeOK, Storing
<1>3. CreditedOnce'
  <2>1. Told(notices, k) = {}
    <3>1. PICK w \in Wallets : w = arg[t].w
      BY <1>0, StepSets DEF CallTypes
    <3>2. Told(notices, k) = Notice(requests[k])
      BY <1>0, <3>1, CreditedByRow DEF RowsSound
    <3> QED
      BY <3>2 DEF Notice
  <2>2. \A id \in DepositIds : Told(notices', id) = IF id = k THEN Notice(row) ELSE Told(notices, id)
    BY <2>1, NoticeTells
  <2> QED
    BY <1>0, <2>2, CreditsCommit DEF RowsSound
<1>4. OneAnswerPerKey'
  BY <1>0, <1>1, KeysKept DEF RowsSound
<1>5. ProofMatchesRow'
  BY <1>0, <1>1, <1>2, FilesKept DEF RowsSound
<1>6. AllReady'
  <2>1. Reviewing(t)' /\ Creating(t)'
    BY <1>2, NothingReady DEF ReviewSteps, StoredSteps
  <2>2. \A c \in Calls \ {t} : pc[c] \in ReviewSteps =>
            requestLock'[arg[c].id] = c /\ requests'[arg[c].id] = requests[arg[c].id]
    <3> SUFFICES ASSUME NEW c \in Calls \ {t}, pc[c] \in ReviewSteps
                 PROVE  requestLock'[arg[c].id] = c /\ requests'[arg[c].id] = requests[arg[c].id]
      OBVIOUS
    <3>1. requestLock'[arg[c].id] = c /\ requestLock[arg[c].id] = c /\ arg[c].id \in DepositIds
      BY <1>0, Apart
    <3> QED
      BY <1>1, <3>1
  <2>3. \A c \in Calls \ {t} : Storing(c) =>
            requests'[arg[c].id] = None /\ arg[c].id \in files' \ mishaps'
    <3> SUFFICES ASSUME NEW c \in Calls \ {t}, Storing(c)
                 PROVE  requests'[arg[c].id] = None /\ arg[c].id \in files' \ mishaps'
      OBVIOUS
    <3>1. requests[arg[c].id] = None /\ arg[c].id \in files \ mishaps /\ arg[c].id \in DepositIds
      BY <1>0, Apart
    <3> QED
      BY <1>1, <3>1
  <2> QED
    BY <1>0, <1>1, <1>2, <2>1, <2>2, <2>3, OthersReady
<1> QED
  BY <1>3, <1>4, <1>5, <1>6 DEF RowsSound

LEMMA CommitApproveSound ==
    ASSUME RequestInv, Typed', NEW t \in Calls, CommitApprove(t)
    PROVE  AllReady' /\ RowsSound'
<1>0. TypeOK /\ CallTypes /\ AllReady /\ RowsSound /\ WalletTypeOK
  BY DEF RequestInv, MoneyInv, Typed, TypeOK
<1>1. pc[t] = "credited" /\ pc[t] \in ReviewSteps /\ pc[t] # "idle"
  BY DEF CommitApprove, ReviewSteps
<1>2. PICK k \in DepositIds, v \in Wallets, amount \in Amounts :
          k = arg[t].id /\ v = arg[t].w /\ amount = arg[t].amount
  BY <1>0, <1>1 DEF CallTypes
<1>3. /\ requests[k] \in Request /\ requests[k] # None
      /\ requests[k].status = "pending" /\ requests[k].w = v /\ arg[t].seen \in Int
  BY <1>0, <1>1, <1>2 DEF CallTypes, TypeOK, AllReady, Reviewing, Args
<1> DEFINE row == [requests[k] EXCEPT !.status = "approved", !.amount = amount]
<1>4. /\ row \in Request /\ row.key = requests[k].key /\ row.w = v /\ row.status = "approved"
      /\ row.amount = amount
  BY <1>2, <1>3 DEF Request
<1>5. /\ requests' = [requests EXCEPT ![k] = row] /\ Notify("deposit_approved", k, amount)
      /\ MoveTx(v, "deposit", k, amount, arg[t].seen)
      /\ UNCHANGED <<files, mishaps, answers>> /\ UnlockRows(t) /\ Finish(t)
  <2>1. requests' = [requests EXCEPT ![k].status = "approved", ![k].amount = amount]
    BY <1>2 DEF CommitApprove
  <2>2. requests' = [requests EXCEPT ![k] = row]
    BY <1>0, <1>3, <2>1 DEF TypeOK, Request
  <2> QED
    BY <1>2, <2>2 DEF CommitApprove
<1> HIDE DEF row
<1>6. row # None
  BY <1>4
<1>7. Notice(row) = {<<"deposit_approved", amount>>}
  BY <1>4, <1>6 DEF Notice
<1>8. \A id \in DepositIds, w \in Wallets :
          PostedFor(w, id)' = IF id = k THEN Due(row, w) ELSE PostedFor(w, id)
  <2>1. \A w \in Wallets : PostedFor(w, k) = {}
    <3>1. \A w \in Wallets : PostedFor(w, k) = Due(requests[k], w)
      BY <1>0, CreditedByRow DEF RowsSound
    <3> QED
      BY <1>3, <3>1 DEF Due
  <2>2. ~Posted(v, "deposit", k)
    BY <1>0, <2>1, PostedIsSaid
  <2>3. \A w \in Wallets : Due(row, w) = IF w = v THEN {<<"deposit", amount>>} ELSE {}
    BY <1>4, <1>6 DEF Due
  <2>4. k \in Ids \cup {None} /\ "deposit" \in Kinds /\ amount \in Int /\ DepositIds \subseteq Ids
    BY AmountType DEF Kinds
  <2>5. \A id \in DepositIds, w \in Wallets :
            PostedFor(w, id)' = IF w = v /\ id = k THEN PostedFor(w, id) \cup {<<"deposit", amount>>}
                                ELSE PostedFor(w, id)
    BY <1>0, <1>3, <1>5, <2>2, <2>4, MoveTxPosts
  <2> QED
    BY <2>1, <2>3, <2>5
<1>9. row.w = requests[k].w /\ \E kind, told : Notify(kind, k, told) /\ Notice(row) = {<<kind, told>>}
  BY <1>3, <1>4, <1>5, <1>7
<1> QED
  BY <1>1, <1>2, <1>3, <1>4, <1>5, <1>8, <1>9, AnswerSound

LEMMA CommitRejectSound ==
    ASSUME RequestInv, Typed', NEW t \in Calls, CommitReject(t)
    PROVE  AllReady' /\ RowsSound'
<1>0. TypeOK /\ CallTypes /\ AllReady /\ RowsSound
  BY DEF RequestInv, MoneyInv, Typed
<1>1. pc[t] = "rejecting" /\ pc[t] \in ReviewSteps
  BY DEF CommitReject, ReviewSteps
<1>2. PICK k \in DepositIds, amount \in Amounts : k = arg[t].id /\ amount = arg[t].amount
  BY <1>0, <1>1 DEF CallTypes
<1>3. /\ requests[k] \in Request /\ requests[k] # None
      /\ requests[k].status = "pending" /\ requests[k].amount = amount
  BY <1>0, <1>1, <1>2 DEF CommitReject, CallTypes, TypeOK, AllReady, Reviewing
<1> DEFINE row == [requests[k] EXCEPT !.status = "rejected"]
<1>4. /\ row \in Request /\ row.key = requests[k].key /\ row.w = requests[k].w
      /\ row.status = "rejected" /\ row.amount = amount
  BY <1>3 DEF Request
<1>5. /\ requests' = [requests EXCEPT ![k] = row] /\ Notify("deposit_rejected", k, amount)
      /\ UNCHANGED <<ledger, files, mishaps, answers>> /\ UnlockRows(t) /\ Finish(t)
  BY <1>2 DEF CommitReject, walletVars
<1> HIDE DEF row
<1>6. row # None
  BY <1>4
<1>7. Notice(row) = {<<"deposit_rejected", amount>>} /\ \A w \in Wallets : Due(row, w) = {}
  BY <1>4, <1>6 DEF Notice, Due
<1>8. \A id \in DepositIds, w \in Wallets :
          PostedFor(w, id)' = IF id = k THEN Due(row, w) ELSE PostedFor(w, id)
  <2>1. \A w \in Wallets : PostedFor(w, k) = Due(requests[k], w)
    BY <1>0, CreditedByRow DEF RowsSound
  <2>2. \A w \in Wallets : PostedFor(w, k) = {}
    BY <1>3, <2>1 DEF Due
  <2>3. \A id \in DepositIds, w \in Wallets : PostedFor(w, id)' = PostedFor(w, id)
    BY <1>5 DEF PostedFor
  <2> QED
    BY <1>7, <2>2, <2>3
<1> QED
  BY <1>1, <1>2, <1>3, <1>4, <1>5, <1>7, <1>8, AnswerSound

\* An operator's edit of a wallet or of a method, and a stutter, touch no request.
LEMMA OutsideSound ==
    ASSUME RequestInv, Typed',
           \/ \E w \in Wallets, status \in WalletStatus : SetWalletStatus(w, status) /\ UNCHANGED requestVars
           \/ \E m \in Methods : UpdatePaymentMethod(m)
           \/ UNCHANGED vars
    PROVE  AllReady' /\ RowsSound'
<1>0. TypeOK /\ TypeOK' /\ AllReady /\ RowsSound
  BY DEF RequestInv, MoneyInv, Typed
<1>1. UNCHANGED <<pc, arg, ledger, requests, requestLock, files, mishaps, notices, answers>>
  BY DEF SetWalletStatus, UpdatePaymentMethod, vars, requestVars, walletVars
<1>2. AllReady'
  BY <1>0, <1>1 DEF AllReady, Reviewing, Creating, Storing, ByIdempotencyKey, Recorded
<1>3. \A id \in DepositIds, w \in Wallets : PostedFor(w, id)' = PostedFor(w, id)
  BY <1>1 DEF PostedFor
<1>4. CreditedOnce' /\ OneAnswerPerKey'
  BY <1>0, <1>1, <1>3, CreditsKept, KeysKept DEF RowsSound
<1>5. ProofMatchesRow'
  BY <1>0, <1>1 DEF RowsSound, ProofMatchesRow, Recorded
<1> QED
  BY <1>2, <1>4, <1>5 DEF RowsSound

LEMMA RequestNext == RequestInv /\ [Next]_vars => RequestInv'
<1> SUFFICES ASSUME RequestInv, [Next]_vars PROVE RequestInv'
  OBVIOUS
<1>1. MoneyInv' /\ Typed'
  BY MoneyNext, TypedNext DEF RequestInv, MoneyInv
<1>2. ASSUME NEW t \in Calls, Begin(t) PROVE AllReady' /\ RowsSound'
  BY <1>1, <1>2, QuietSound, ReviewSound DEF Begin
<1>3. ASSUME NEW t \in Calls, Continue(t) PROVE AllReady' /\ RowsSound'
  BY <1>1, <1>3, AdjustSound, StoreSound, InsertSound, CommitCreateSound, EndCreateSound,
     ReviewSound, QuietSound, CommitApproveSound, CommitRejectSound DEF Continue
<1>4. AllReady' /\ RowsSound'
  BY <1>1, <1>2, <1>3, OutsideSound DEF Next
<1> QED
  BY <1>1, <1>4 DEF RequestInv

LEMMA RequestAlways == Spec => []RequestInv
BY RequestInit, RequestNext, PTL DEF Spec

\* An approval posts its request's amount once, to its wallet, and tells the player the
\* amount the row then shows, whichever calls, edits, refusals and crashes come between:
\* the row lock keeps a second review out, and the posted key a second credit.
THEOREM CreditsAreSingle == Spec => []CreditedOnce
<1>1. RequestInv => CreditedOnce
  BY DEF RequestInv, RowsSound
<1> QED
  BY <1>1, RequestAlways, PTL

\* A user's key gets one request and one answer, though Create's first read of it takes
\* no lock: the unique index decides, and every later answer comes from the row.
THEOREM AnswersStaySingle == Spec => []OneAnswerPerKey
<1>1. RequestInv => OneAnswerPerKey
  BY DEF RequestInv, RowsSound
<1> QED
  BY <1>1, RequestAlways, PTL

\* An attempt's image outlives it exactly when its row does, for every interleaving of
\* attempts with one key, unless a crash or a lost commit answer ended the attempt.
THEOREM ProofsStayMatched == Spec => []ProofMatchesRow
<1>1. RequestInv => ProofMatchesRow
  BY DEF RequestInv, RowsSound
<1> QED
  BY <1>1, RequestAlways, PTL
===============================================================================
