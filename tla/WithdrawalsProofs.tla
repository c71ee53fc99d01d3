--------------------------- MODULE WithdrawalsProofs ---------------------------
(***************************************************************************)
(* Proofs about Withdrawals, for every number of wallets, calls, ids, keys  *)
(* and every MaxSafe.                                                       *)
(***************************************************************************)
EXTENDS Withdrawals, WalletProofs

\* What a call has read by the step it is at.
CallTypes ==
    \A t \in Calls :
        /\ pc[t] \in CreateSteps =>
              /\ arg[t].key \in Keys
              /\ arg[t].method \in Methods
              /\ arg[t].amount \in Amounts
        /\ pc[t] \in {"held", "inserted"} \cup ReviewSteps => arg[t].id \in WithdrawalIds
        /\ pc[t] \in ReviewSteps => requests[arg[t].id] # None
        /\ pc[t] # "idle" => arg[t].w \in Wallets

Typed == TypeOK /\ CallTypes

USE WalletAssumption, WithdrawalsAssumption, RequestAssumption

LEMMA AmountType == \A amount \in Amounts : amount \in Int /\ amount > 0 /\ -amount \in Int
OBVIOUS

LEMMA NoArgType == NoArg \in Args
BY DEF NoArg, Args

LEMMA ArgsExcept ==
    ASSUME NEW a \in Args, NEW id \in WithdrawalIds \cup {None}, NEW seen \in Int
    PROVE  [a EXCEPT !.id = id, !.seen = seen] \in Args
BY DEF Args

LEMMA UnlockTypes ==
    ASSUME TypeOK, NEW t \in Calls
    PROVE  /\ UnlockWallets(t) => walletLock' \in [Wallets -> Calls \cup {None}]
           /\ UnlockRequests(t) => requestLock' \in [WithdrawalIds -> Calls \cup {None}]
BY DEF WalletTypeOK, TypeOK, UnlockWallets, UnlockRequests

LEMMA MarkType ==
    ASSUME TypeOK, NEW id \in WithdrawalIds, requests[id] # None,
           NEW status \in {"pending", "approved", "rejected", "cancelled"}, Mark(id, status)
    PROVE  /\ requests' \in [WithdrawalIds -> Request \cup {None}]
           /\ \A i \in WithdrawalIds : requests[i] # None => requests'[i] # None
<1>1. requests[id] \in Request
  BY DEF WalletTypeOK, TypeOK
<1>2. [requests[id] EXCEPT !.status = status] \in Request
  BY <1>1 DEF Request
<1> QED
  BY <1>1, <1>2 DEF Mark, WalletTypeOK, TypeOK

LEMMA FinishTypes ==
    ASSUME Typed, NEW t \in Calls, Finish(t),
           \A id \in WithdrawalIds : requests[id] # None => requests'[id] # None
    PROVE  /\ pc' \in [Calls -> Steps]
           /\ arg' \in [Calls -> Args]
           /\ CallTypes'
<1>1. pc' \in [Calls -> Steps] /\ arg' \in [Calls -> Args]
  BY NoArgType DEF Typed, WalletTypeOK, TypeOK, Finish, Steps
<1>2. \A c \in Calls \ {t} : pc'[c] = pc[c] /\ arg'[c] = arg[c]
  BY DEF Typed, WalletTypeOK, TypeOK, Finish
<1>3. pc'[t] = "idle"
  BY DEF Typed, WalletTypeOK, TypeOK, Finish
<1> QED
  BY <1>1, <1>2, <1>3 DEF Typed, CallTypes, CreateSteps, ReviewSteps

\* Init and every step keep the calls and the rows typed.
LEMMA TypedInit == Init => Typed
<1> SUFFICES ASSUME Init PROVE Typed
  OBVIOUS
<1>1. TypeOK
  BY NoArgType DEF Init, WalletInit, WalletTypeOK, TypeOK, WalletStatus, Steps
<1>2. CallTypes
  BY DEF Init, WalletInit, CallTypes, CreateSteps, ReviewSteps
<1> QED
  BY <1>1, <1>2 DEF Typed

\* A step of one call that only advances it: what is left to show is that the
\* new arg[t] fits the new pc[t].
LEMMA AdvanceTypes ==
    ASSUME Typed, NEW t \in Calls, NEW step \in Steps, NEW a \in Args,
           pc' = [pc EXCEPT ![t] = step], arg' = [arg EXCEPT ![t] = a],
           UNCHANGED requests, step \in ReviewSteps => requests[a.id] # None,
           step \in CreateSteps => a.key \in Keys /\ a.method \in Methods /\ a.amount \in Amounts,
           step \in {"held", "inserted"} \cup ReviewSteps => a.id \in WithdrawalIds,
           step # "idle" => a.w \in Wallets
    PROVE  /\ pc' \in [Calls -> Steps]
           /\ arg' \in [Calls -> Args]
           /\ CallTypes'
<1>1. pc' \in [Calls -> Steps] /\ arg' \in [Calls -> Args]
  BY DEF Typed, WalletTypeOK, TypeOK
<1>2. \A c \in Calls \ {t} : pc'[c] = pc[c] /\ arg'[c] = arg[c]
  BY DEF Typed, WalletTypeOK, TypeOK
<1>3. pc'[t] = step /\ arg'[t] = a
  BY DEF Typed, WalletTypeOK, TypeOK
<1> QED
  BY <1>1, <1>2, <1>3 DEF Typed, CallTypes

LEMMA TypedNext == Typed /\ [Next]_vars => Typed'
<1> SUFFICES ASSUME Typed, [Next]_vars PROVE Typed'
  OBVIOUS
<1> USE DEF Typed
<1>1. ASSUME NEW t \in Calls, NEW w \in Wallets, NEW amount \in AdjustAmounts,
             StartAdjust(t, w, amount), UNCHANGED requestVars
      PROVE  Typed'
  <2> DEFINE a == [NoArg EXCEPT !.w = w, !.amount = amount, !.seen = balance[w]]
  <2>1. a \in Args /\ a.w = w
    BY DEF WalletTypeOK, TypeOK, NoArg, Args
  <2>2. pc' \in [Calls -> Steps] /\ arg' \in [Calls -> Args] /\ CallTypes'
    <3>1. pc' = [pc EXCEPT ![t] = "adjusted"] /\ arg' = [arg EXCEPT ![t] = a] /\ UNCHANGED requests
      BY <1>1 DEF StartAdjust, requestVars
    <3>2. "adjusted" \in Steps /\ "adjusted" \notin CreateSteps \cup ReviewSteps \cup {"held", "inserted"}
      BY DEF Steps, CreateSteps, ReviewSteps
    <3> HIDE DEF a
    <3> QED
      BY <2>1, <3>1, <3>2, AdvanceTypes
  <2>3. walletLock' \in [Wallets -> Calls \cup {None}]
    BY <1>1 DEF StartAdjust, LockWalletRow, WalletTypeOK, TypeOK
  <2> QED
    BY <1>1, <2>2, <2>3 DEF StartAdjust, requestVars, WalletTypeOK, TypeOK
<1>2. ASSUME NEW t \in Calls, CommitAdjust(t), UNCHANGED requestVars
      PROVE  Typed'
  <2>1. arg[t].w \in Wallets /\ arg[t].amount \in Int /\ arg[t].seen \in Int
    BY <1>2 DEF CommitAdjust, CallTypes, WalletTypeOK, TypeOK, Args
  <2>2. balance' \in [Wallets -> Int] /\ ledger' \in [Wallets -> Seq(Entry)]
    BY <1>2, <2>1, MoveTxType DEF CommitAdjust, Kinds, TypeOK
  <2>3. pc' \in [Calls -> Steps] /\ arg' \in [Calls -> Args] /\ CallTypes'
    BY <1>2, FinishTypes DEF CommitAdjust, requestVars, WalletTypeOK, TypeOK
  <2> QED
    BY <1>2, <2>2, <2>3, UnlockTypes DEF CommitAdjust, requestVars, WalletTypeOK, TypeOK
<1>3. ASSUME NEW t \in Calls, NEW key \in Keys, NEW w \in Wallets, NEW m \in Methods,
             NEW amount \in Amounts, LockWallet(t, key, w, m, amount)
      PROVE  Typed'
  <2> DEFINE a == [w |-> w, id |-> None, key |-> key, method |-> m, amount |-> amount, seen |-> 0]
  <2>1. a \in Args /\ a.w = w /\ a.key = key /\ a.method = m /\ a.amount = amount
    BY AmountType DEF Args
  <2>2. pc' \in [Calls -> Steps] /\ arg' \in [Calls -> Args] /\ CallTypes'
    <3>1. pc' = [pc EXCEPT ![t] = "locked"] /\ arg' = [arg EXCEPT ![t] = a] /\ UNCHANGED requests
      BY <1>3 DEF LockWallet, requestVars
    <3>2. "locked" \in Steps /\ "locked" \notin {"held", "inserted"} \cup ReviewSteps
      BY DEF Steps, ReviewSteps
    <3> HIDE DEF a
    <3> QED
      BY <2>1, <3>1, <3>2, AdvanceTypes
  <2>3. walletLock' \in [Wallets -> Calls \cup {None}]
    BY <1>3 DEF LockWallet, LockWalletRow, WalletTypeOK, TypeOK
  <2> QED
    BY <1>3, <2>2, <2>3 DEF LockWallet, requestVars, WalletTypeOK, TypeOK
<1>4. ASSUME NEW t \in Calls, Replay(t) \/ Refuse(t) \/ AnswerRace(t) \/ Abort(t)
      PROVE  Typed'
  <2>1. UNCHANGED <<balance, walletStatus, ledger, requests, enabled>>
    BY <1>4 DEF Replay, Refuse, AnswerRace, Abort, requestVars, walletVars
  <2>2. walletLock' \in [Wallets -> Calls \cup {None}]
    BY <1>4, UnlockTypes DEF Replay, Refuse, AnswerRace, Abort, walletVars, WalletTypeOK, TypeOK
  <2>3. requestLock' \in [WithdrawalIds -> Calls \cup {None}]
    BY <1>4, UnlockTypes DEF Replay, Refuse, AnswerRace, Abort, requestVars, WalletTypeOK, TypeOK
  <2>4. pc' \in [Calls -> Steps] /\ arg' \in [Calls -> Args] /\ CallTypes'
    BY <1>4, <2>1, FinishTypes DEF Replay, Refuse, AnswerRace, Abort, WalletTypeOK, TypeOK
  <2> QED
    BY <2>1, <2>2, <2>3, <2>4 DEF WalletTypeOK, TypeOK
<1>5. ASSUME NEW t \in Calls, KeyUnknown(t)
      PROVE  Typed'
  <2>1. /\ arg[t] \in Args /\ arg' = [arg EXCEPT ![t] = arg[t]] /\ pc' = [pc EXCEPT ![t] = "new"]
        /\ UNCHANGED requests
    BY <1>5 DEF KeyUnknown, requestVars, WalletTypeOK, TypeOK
  <2>2. /\ arg[t].key \in Keys /\ arg[t].method \in Methods /\ arg[t].amount \in Amounts
        /\ arg[t].w \in Wallets
    BY <1>5 DEF KeyUnknown, CallTypes, CreateSteps
  <2>3. "new" \in Steps /\ "new" \notin {"held", "inserted"} \cup ReviewSteps
    BY DEF Steps, ReviewSteps
  <2>4. pc' \in [Calls -> Steps] /\ arg' \in [Calls -> Args] /\ CallTypes'
    BY <2>1, <2>2, <2>3, AdvanceTypes
  <2> QED
    BY <1>5, <2>4 DEF KeyUnknown, walletVars, requestVars, WalletTypeOK, TypeOK
<1>6. ASSUME NEW t \in Calls, NEW id \in WithdrawalIds, Hold(t, id)
      PROVE  Typed'
  <2> DEFINE a == [arg[t] EXCEPT !.id = id, !.seen = balance[arg[t].w]]
  <2>0. arg[t] \in Args /\ arg[t].key \in Keys /\ arg[t].method \in Methods
        /\ arg[t].amount \in Amounts /\ arg[t].w \in Wallets /\ balance[arg[t].w] \in Int
    BY <1>6 DEF Hold, CallTypes, CreateSteps, WalletTypeOK, TypeOK
  <2>1. a \in Args /\ a.w = arg[t].w /\ a.key = arg[t].key /\ a.method = arg[t].method
        /\ a.amount = arg[t].amount /\ a.id = id
    <3>1. a \in Args
      BY <2>0, ArgsExcept
    <3> QED
      BY <2>0, <3>1 DEF Args
  <2>2. pc' = [pc EXCEPT ![t] = "held"] /\ arg' = [arg EXCEPT ![t] = a] /\ UNCHANGED requests
    BY <1>6 DEF Hold, requestVars, WalletTypeOK, TypeOK
  <2>3. pc' \in [Calls -> Steps] /\ arg' \in [Calls -> Args] /\ CallTypes'
    <3>1. "held" \in Steps /\ "held" \notin ReviewSteps
      BY DEF Steps, ReviewSteps
    <3> HIDE DEF a
    <3> QED
      BY <2>0, <2>1, <2>2, <3>1, AdvanceTypes
  <2>4. walletLock' \in [Wallets -> Calls \cup {None}]
    BY <1>6 DEF Hold, LockWalletRow, WalletTypeOK, TypeOK
  <2> QED
    BY <1>6, <2>3, <2>4 DEF Hold, requestVars, WalletTypeOK, TypeOK
<1>7. ASSUME NEW t \in Calls, InsertRequest(t)
      PROVE  Typed'
  <2>0. arg[t] \in Args /\ arg[t].key \in Keys /\ arg[t].method \in Methods
        /\ arg[t].amount \in Amounts /\ arg[t].w \in Wallets /\ arg[t].id \in WithdrawalIds
    BY <1>7 DEF InsertRequest, CallTypes, CreateSteps, WalletTypeOK, TypeOK
  <2>1. CASE ByIdempotencyKey(t) = {}
    <3>1. arg' = [arg EXCEPT ![t] = arg[t]] /\ pc' = [pc EXCEPT ![t] = "inserted"] /\ UNCHANGED requests
      BY <1>7, <2>1 DEF InsertRequest, requestVars, WalletTypeOK, TypeOK
    <3>2. pc' \in [Calls -> Steps] /\ arg' \in [Calls -> Args] /\ CallTypes'
      BY <2>0, <3>1, AdvanceTypes DEF Steps, ReviewSteps
    <3> QED
      BY <1>7, <2>1, <3>2 DEF InsertRequest, requestVars, WalletTypeOK, TypeOK
  <2>2. CASE ByIdempotencyKey(t) # {}
    <3> DEFINE a == [arg[t] EXCEPT !.id = None, !.seen = 0]
    <3>1. a \in Args /\ a.w = arg[t].w /\ a.key = arg[t].key /\ a.method = arg[t].method
          /\ a.amount = arg[t].amount
      <4>1. a \in Args
        <5>1. None \in WithdrawalIds \cup {None} /\ 0 \in Int
          OBVIOUS
        <5> QED
          BY <2>0, <5>1, ArgsExcept, ZenonT(20)
      <4> QED
        BY <2>0, <4>1 DEF Args
    <3>2. pc' = [pc EXCEPT ![t] = "race"] /\ arg' = [arg EXCEPT ![t] = a] /\ UNCHANGED requests
      BY <1>7, <2>2 DEF InsertRequest, requestVars, WalletTypeOK, TypeOK
    <3>3. "race" \in Steps /\ "race" \notin {"held", "inserted"} \cup ReviewSteps
      BY DEF Steps, ReviewSteps
    <3>4. pc' \in [Calls -> Steps] /\ arg' \in [Calls -> Args] /\ CallTypes'
      <4> HIDE DEF a
      <4> QED
        BY <2>0, <3>1, <3>2, <3>3, AdvanceTypes
    <3> QED
      BY <1>7, <2>2, <3>4, UnlockTypes DEF InsertRequest, requestVars, WalletTypeOK, TypeOK
  <2> QED
    BY <2>1, <2>2
<1>8. ASSUME NEW t \in Calls, CommitCreate(t)
      PROVE  Typed'
  <2>1. arg[t] \in Args /\ arg[t].key \in Keys /\ arg[t].method \in Methods
        /\ arg[t].amount \in Amounts /\ arg[t].w \in Wallets /\ arg[t].id \in WithdrawalIds
        /\ arg[t].seen \in Int
    BY <1>8 DEF CommitCreate, CallTypes, CreateSteps, WalletTypeOK, TypeOK, Args
  <2>2. balance' \in [Wallets -> Int] /\ ledger' \in [Wallets -> Seq(Entry)]
    <3>1. -arg[t].amount \in Int /\ arg[t].id \in Ids \cup {None} /\ "withdrawal" \in Kinds
      BY <2>1, AmountType DEF Kinds
    <3> QED
      BY <1>8, <2>1, <3>1, MoveTxType DEF CommitCreate, TypeOK
  <2>3. /\ requests' \in [WithdrawalIds -> Request \cup {None}]
        /\ \A i \in WithdrawalIds : requests[i] # None => requests'[i] # None
    <3>1. [key |-> arg[t].key, w |-> arg[t].w, method |-> arg[t].method,
           amount |-> arg[t].amount, status |-> "pending"] \in Request
      BY <2>1 DEF Request
    <3> QED
      BY <1>8, <2>1, <3>1 DEF CommitCreate, WalletTypeOK, TypeOK
  <2>4. pc' \in [Calls -> Steps] /\ arg' \in [Calls -> Args] /\ CallTypes'
    BY <1>8, <2>3, FinishTypes DEF CommitCreate
  <2> QED
    BY <1>8, <2>2, <2>3, <2>4, UnlockTypes DEF CommitCreate, WalletTypeOK, TypeOK
<1>9. ASSUME NEW t \in Calls, NEW id \in WithdrawalIds,
             NEW step \in {"approving", "rejecting", "cancelling"}, LockRequest(t, id, step)
      PROVE  Typed'
  <2> DEFINE a == [w |-> requests[id].w, id |-> id, key |-> None, method |-> None,
                   amount |-> requests[id].amount, seen |-> 0]
  <2>1. requests[id] \in Request
    BY <1>9 DEF LockRequest, WalletTypeOK, TypeOK
  <2>2. a \in Args /\ a.w \in Wallets /\ a.id = id
    <3>1. requests[id].w \in Wallets /\ requests[id].amount \in Int
      BY <2>1, AmountType DEF Request
    <3> QED
      BY <3>1 DEF Args
  <2>3. pc' \in [Calls -> Steps] /\ arg' \in [Calls -> Args] /\ CallTypes'
    <3>1. /\ pc' = [pc EXCEPT ![t] = step] /\ arg' = [arg EXCEPT ![t] = a]
          /\ UNCHANGED requests /\ requests[id] # None
      BY <1>9 DEF LockRequest
    <3>2. step \in Steps /\ step \notin CreateSteps
      BY DEF Steps, CreateSteps
    <3> HIDE DEF a
    <3> QED
      BY <2>2, <3>1, <3>2, AdvanceTypes
  <2>4. requestLock' \in [WithdrawalIds -> Calls \cup {None}]
    BY <1>9 DEF LockRequest, WalletTypeOK, TypeOK
  <2> QED
    BY <1>9, <2>3, <2>4 DEF LockRequest, walletVars, WalletTypeOK, TypeOK
<1>10. ASSUME NEW t \in Calls, CommitApprove(t)
       PROVE  Typed'
  <2>1. arg[t].id \in WithdrawalIds /\ requests[arg[t].id] # None
    BY <1>10 DEF CommitApprove, CallTypes, ReviewSteps
  <2>2. /\ requests' \in [WithdrawalIds -> Request \cup {None}]
        /\ \A i \in WithdrawalIds : requests[i] # None => requests'[i] # None
    BY <1>10, <2>1, MarkType DEF CommitApprove
  <2>3. pc' \in [Calls -> Steps] /\ arg' \in [Calls -> Args] /\ CallTypes'
    BY <1>10, <2>2, FinishTypes DEF CommitApprove
  <2> QED
    BY <1>10, <2>2, <2>3, UnlockTypes DEF CommitApprove, walletVars, WalletTypeOK, TypeOK
<1>11. ASSUME NEW t \in Calls, ReleaseHold(t)
       PROVE  Typed'
  <2>0. /\ pc[t] \in {"rejecting", "cancelling"} /\ UNCHANGED requests
        /\ arg[t] \in Args /\ arg[t].id \in WithdrawalIds /\ arg[t].w \in Wallets
        /\ requests[arg[t].id] # None
    BY <1>11 DEF ReleaseHold, CallTypes, ReviewSteps, WalletTypeOK, TypeOK
  <2>1. CASE Posted(arg[t].w, "refund", arg[t].id) \/ Movable(arg[t].w, arg[t].amount)
    <3> DEFINE a == [arg[t] EXCEPT !.seen = balance[arg[t].w]]
               done == IF pc[t] = "rejecting" THEN "rejected" ELSE "cancelled"
    <3>1. a \in Args /\ a.w = arg[t].w /\ a.id = arg[t].id
      BY <2>0 DEF Args, WalletTypeOK, TypeOK
    <3>2. pc' = [pc EXCEPT ![t] = done] /\ arg' = [arg EXCEPT ![t] = a]
      BY <1>11, <2>1 DEF ReleaseHold, WalletTypeOK, TypeOK
    <3>3. done \in Steps /\ done \notin CreateSteps
      BY DEF Steps, CreateSteps
    <3>4. pc' \in [Calls -> Steps] /\ arg' \in [Calls -> Args] /\ CallTypes'
      <4> HIDE DEF a, done
      <4> QED
        BY <2>0, <3>1, <3>2, <3>3, AdvanceTypes
    <3>5. walletLock' \in [Wallets -> Calls \cup {None}] /\ UNCHANGED requestLock
      <4>1. LockWalletRow(t, arg[t].w) /\ UNCHANGED requestLock
        BY <1>11, <2>1 DEF ReleaseHold
      <4> QED
        BY <4>1 DEF LockWalletRow, WalletTypeOK, TypeOK
    <3> QED
      BY <1>11, <3>4, <3>5 DEF ReleaseHold, WalletTypeOK, TypeOK
  <2>2. CASE ~(Posted(arg[t].w, "refund", arg[t].id) \/ Movable(arg[t].w, arg[t].amount))
    <3>1. UnlockRequests(t) /\ Finish(t) /\ UNCHANGED walletLock
      BY <1>11, <2>2 DEF ReleaseHold
    <3>2. pc' \in [Calls -> Steps] /\ arg' \in [Calls -> Args] /\ CallTypes'
      BY <2>0, <3>1, FinishTypes
    <3> QED
      BY <1>11, <3>1, <3>2, UnlockTypes DEF ReleaseHold, WalletTypeOK, TypeOK
  <2> QED
    BY <2>1, <2>2
<1>12. ASSUME NEW t \in Calls, CommitReject(t) \/ CommitCancel(t)
       PROVE  Typed'
  <2>1. /\ arg[t].id \in WithdrawalIds /\ requests[arg[t].id] # None /\ arg[t].w \in Wallets
        /\ arg[t].amount \in Int /\ arg[t].seen \in Int
    BY <1>12 DEF CommitReject, CommitCancel, CallTypes, ReviewSteps, WalletTypeOK, TypeOK, Args
  <2>2. /\ requests' \in [WithdrawalIds -> Request \cup {None}]
        /\ \A i \in WithdrawalIds : requests[i] # None => requests'[i] # None
    BY <1>12, <2>1, MarkType DEF CommitReject, CommitCancel
  <2>3. balance' \in [Wallets -> Int] /\ ledger' \in [Wallets -> Seq(Entry)]
    BY <1>12, <2>1, MoveTxType DEF CommitReject, CommitCancel, Kinds, TypeOK
  <2>4. pc' \in [Calls -> Steps] /\ arg' \in [Calls -> Args] /\ CallTypes'
    BY <1>12, <2>2, FinishTypes DEF CommitReject, CommitCancel
  <2>5. /\ UNCHANGED <<walletStatus, enabled>>
        /\ walletLock' \in [Wallets -> Calls \cup {None}]
        /\ requestLock' \in [WithdrawalIds -> Calls \cup {None}]
    BY <1>12, UnlockTypes DEF CommitReject, CommitCancel
  <2> QED
    BY <2>2, <2>3, <2>4, <2>5 DEF WalletTypeOK, TypeOK
<1>13. ASSUME NEW w \in Wallets, NEW status \in WalletStatus, SetWalletStatus(w, status),
              UNCHANGED requestVars
       PROVE  Typed'
  BY <1>13 DEF SetWalletStatus, requestVars, WalletTypeOK, TypeOK, CallTypes
<1>14. ASSUME NEW m \in Methods, UpdatePaymentMethod(m)
       PROVE  Typed'
  BY <1>14 DEF UpdatePaymentMethod, walletVars, WalletTypeOK, TypeOK, CallTypes
<1>15. ASSUME UNCHANGED vars
       PROVE  Typed'
  BY <1>15 DEF vars, walletVars, requestVars, WalletTypeOK, TypeOK, CallTypes
<1> QED
  BY <1>1, <1>2, <1>3, <1>4, <1>5, <1>6, <1>7, <1>8, <1>9, <1>10, <1>11, <1>12, <1>13, <1>14, <1>15
     DEF Next, Begin, Continue, Blocking

\* The rows and the calls keep their types, for every instance.
THEOREM TypeCorrect == Spec => []TypeOK
<1>1. Spec => []Typed
  BY TypedInit, TypedNext, PTL DEF Spec
<1> QED
  BY <1>1, PTL DEF Typed

-----------------------------------------------------------------------------
(* Statements chain and balances stay in range: a call that is about to move *)
(* money holds the wallet row, and what it read there is still true.         *)

WalletSteps == {"adjusted", "locked", "new", "held", "inserted", "rejected", "cancelled"}
SeenSteps == {"adjusted", "held", "inserted", "rejected", "cancelled"}

Locked(c) ==
    LET w == arg[c].w
    IN  /\ pc[c] \in WalletSteps => walletLock[w] = c
        /\ pc[c] \in SeenSteps => arg[c].seen = balance[w]
        /\ pc[c] = "adjusted" => arg[c].seen + arg[c].amount \in 0..MaxSafe
        /\ pc[c] \in {"held", "inserted"} => arg[c].seen - arg[c].amount \in 0..MaxSafe
        /\ pc[c] \in {"rejected", "cancelled"} =>
              Posted(w, "refund", arg[c].id) \/ arg[c].seen + arg[c].amount \in 0..MaxSafe

AllLocked == \A c \in Calls : Locked(c)

MoneyInv == Typed /\ AllLocked /\ StatementChains /\ BalancesInRange

\* A step of call t leaves the other calls' locks and the rows under them alone.
LEMMA OthersLocked ==
    ASSUME MoneyInv, NEW t \in Calls,
           \A c \in Calls \ {t} : pc'[c] = pc[c] /\ arg'[c] = arg[c],
           \A v \in Wallets : walletLock[v] \notin {None, t} =>
               walletLock'[v] = walletLock[v] /\ balance'[v] = balance[v] /\ ledger'[v] = ledger[v],
           NEW c \in Calls \ {t}
    PROVE  Locked(c)'
<1>1. Locked(c) /\ (pc[c] # "idle" => arg[c].w \in Wallets)
  BY DEF MoneyInv, AllLocked, Typed, CallTypes
<1>2. c # None
  OBVIOUS
<1>3. CASE pc[c] \in WalletSteps
  <2>1. arg[c].w \in Wallets /\ walletLock[arg[c].w] = c
    BY <1>1, <1>3 DEF Locked, WalletSteps
  <2>2. /\ walletLock'[arg[c].w] = c /\ balance'[arg[c].w] = balance[arg[c].w]
        /\ ledger'[arg[c].w] = ledger[arg[c].w]
    BY <1>2, <2>1
  <2> QED
    BY <1>1, <2>2 DEF Locked, Posted
<1>4. CASE pc[c] \notin WalletSteps
  BY <1>4 DEF Locked, WalletSteps, SeenSteps
<1> QED
  BY <1>3, <1>4

\* A call that goes back to idle holds nothing.
LEMMA FinishLocked ==
    ASSUME MoneyInv, NEW t \in Calls, Finish(t)
    PROVE  /\ Locked(t)'
           /\ \A c \in Calls \ {t} : pc'[c] = pc[c] /\ arg'[c] = arg[c]
BY DEF Finish, MoneyInv, Typed, TypeOK, Locked, WalletSteps, SeenSteps

LEMMA UnlockOthers ==
    ASSUME MoneyInv, NEW t \in Calls, UnlockWallets(t)
    PROVE  \A v \in Wallets : walletLock[v] \notin {None, t} => walletLock'[v] = walletLock[v]
BY DEF UnlockWallets

LEMMA LockOthers ==
    ASSUME MoneyInv, NEW t \in Calls, NEW w \in Wallets, LockWalletRow(t, w)
    PROVE  /\ \A v \in Wallets : walletLock[v] \notin {None, t} => walletLock'[v] = walletLock[v]
           /\ walletLock'[w] = t
BY DEF LockWalletRow, MoneyInv, Typed, TypeOK, WalletTypeOK

\* The commit of a movement: call t holds the row, what it read is current,
\* and the result was checked.
LEMMA CommitMoney ==
    ASSUME MoneyInv, NEW t \in Calls, NEW kind \in Kinds, NEW ref \in Ids \cup {None},
           NEW amount \in Int, arg[t].w \in Wallets,
           walletLock[arg[t].w] = t, arg[t].seen = balance[arg[t].w],
           Posted(arg[t].w, kind, ref) \/ arg[t].seen + amount \in 0..MaxSafe,
           MoveTx(arg[t].w, kind, ref, amount, arg[t].seen), UnlockWallets(t), Finish(t)
    PROVE  AllLocked' /\ StatementChains' /\ BalancesInRange'
<1>0. WalletTypeOK /\ arg[t].seen \in Int
  BY DEF MoneyInv, Typed, TypeOK, WalletTypeOK
<1>1. StatementChains' /\ BalancesInRange'
  BY <1>0, MoveTxChains, MoveTxInRange DEF MoneyInv
<1>2. \A v \in Wallets : walletLock[v] \notin {None, t} =>
          walletLock'[v] = walletLock[v] /\ balance'[v] = balance[v] /\ ledger'[v] = ledger[v]
  BY <1>0, UnlockOthers, MoveTxOthers
<1>3. AllLocked'
  BY <1>2, FinishLocked, OthersLocked DEF AllLocked
<1> QED
  BY <1>1, <1>3

LEMMA MoneyInit == Init => MoneyInv
<1> SUFFICES ASSUME Init PROVE MoneyInv
  OBVIOUS
<1>1. AllLocked
  BY DEF Init, WalletInit, AllLocked, Locked, WalletSteps, SeenSteps
<1>2. StatementChains
  <2>1. \A w \in Wallets : balance[w] = 0 /\ ledger[w] = <<>>
    BY DEF Init, WalletInit
  <2>2. Len(<<>>) = 0 /\ DOMAIN <<>> = {}
    OBVIOUS
  <2> QED
    BY <2>1, <2>2 DEF StatementChains, Chained
<1>3. BalancesInRange
  <2>1. 0 \in 0..MaxSafe
    BY DEF WalletAssumption
  <2> QED
    BY <2>1 DEF Init, WalletInit, BalancesInRange
<1> QED
  BY <1>1, <1>2, <1>3, TypedInit DEF MoneyInv

LEMMA MoneyNext == MoneyInv /\ [Next]_vars => MoneyInv'
<1> SUFFICES ASSUME MoneyInv, [Next]_vars PROVE AllLocked' /\ StatementChains' /\ BalancesInRange'
  BY TypedNext DEF MoneyInv
<1>0. WalletTypeOK /\ TypeOK /\ CallTypes /\ AllLocked /\ Typed
  BY DEF MoneyInv, Typed, TypeOK
\* Steps that leave balances and ledgers alone need only AllLocked'.
<1>a. ASSUME UNCHANGED <<balance, ledger>>
      PROVE  StatementChains' /\ BalancesInRange'
  BY <1>a DEF MoneyInv, StatementChains, Chained, BalancesInRange
<1>1. ASSUME NEW t \in Calls, NEW w \in Wallets, NEW amount \in AdjustAmounts,
             StartAdjust(t, w, amount)
      PROVE  AllLocked' /\ UNCHANGED <<balance, ledger>>
  <2>1. UNCHANGED <<balance, ledger>> /\ LockWalletRow(t, w)
    BY <1>1 DEF StartAdjust
  <2>2. /\ pc'[t] = "adjusted" /\ arg'[t].w = w /\ arg'[t].amount = amount
        /\ arg'[t].seen = balance[w]
        /\ \A c \in Calls \ {t} : pc'[c] = pc[c] /\ arg'[c] = arg[c]
    BY <1>0, <1>1 DEF StartAdjust, TypeOK, NoArg
  <2>3. amount \in Int /\ balance[w] + amount \in 0..MaxSafe
    BY <1>1, MovableInRange DEF StartAdjust, MoneyInv
  <2>4. Locked(t)'
    BY <2>1, <2>2, <2>3, LockOthers DEF Locked
  <2> QED
    BY <2>1, <2>2, <2>4, LockOthers, OthersLocked DEF AllLocked
<1>2. ASSUME NEW t \in Calls, CommitAdjust(t)
      PROVE  AllLocked' /\ StatementChains' /\ BalancesInRange'
  <2>1. /\ arg[t].w \in Wallets /\ arg[t].amount \in Int
        /\ walletLock[arg[t].w] = t /\ arg[t].seen = balance[arg[t].w]
        /\ arg[t].seen + arg[t].amount \in 0..MaxSafe
    BY <1>0, <1>2 DEF CommitAdjust, CallTypes, TypeOK, Args, AllLocked, Locked, WalletSteps, SeenSteps
  <2> QED
    BY <1>2, <2>1, CommitMoney DEF CommitAdjust, Kinds
<1>3. ASSUME NEW t \in Calls, NEW key \in Keys, NEW w \in Wallets, NEW m \in Methods,
             NEW amount \in Amounts, LockWallet(t, key, w, m, amount)
      PROVE  AllLocked' /\ UNCHANGED <<balance, ledger>>
  <2>1. UNCHANGED <<balance, ledger>> /\ LockWalletRow(t, w)
    BY <1>3 DEF LockWallet
  <2>2. /\ pc'[t] = "locked" /\ arg'[t].w = w
        /\ \A c \in Calls \ {t} : pc'[c] = pc[c] /\ arg'[c] = arg[c]
    BY <1>0, <1>3 DEF LockWallet, TypeOK
  <2>3. Locked(t)'
    BY <2>1, <2>2, LockOthers DEF Locked, SeenSteps
  <2> QED
    BY <2>1, <2>2, <2>3, LockOthers, OthersLocked DEF AllLocked
<1>4. ASSUME NEW t \in Calls, Replay(t) \/ Refuse(t) \/ Abort(t) \/ AnswerRace(t) \/ CommitApprove(t)
      PROVE  AllLocked' /\ UNCHANGED <<balance, ledger>>
  <2>1. /\ UNCHANGED <<balance, ledger>> /\ Finish(t)
        /\ UnlockWallets(t) \/ UNCHANGED walletLock
    BY <1>4 DEF Replay, Refuse, Abort, AnswerRace, CommitApprove, walletVars
  <2>2. \A v \in Wallets : walletLock[v] \notin {None, t} => walletLock'[v] = walletLock[v]
    BY <2>1, UnlockOthers
  <2> QED
    BY <2>1, <2>2, FinishLocked, OthersLocked DEF AllLocked
<1>5. ASSUME NEW t \in Calls, KeyUnknown(t)
      PROVE  AllLocked' /\ UNCHANGED <<balance, ledger>>
  <2>1. UNCHANGED <<balance, ledger, walletLock, arg>> /\ pc[t] = "locked" /\ pc'[t] = "new"
        /\ \A c \in Calls \ {t} : pc'[c] = pc[c]
    BY <1>0, <1>5 DEF KeyUnknown, walletVars, TypeOK
  <2>2. Locked(t)'
    BY <1>0, <2>1 DEF AllLocked, Locked, WalletSteps, SeenSteps
  <2> QED
    BY <2>1, <2>2, OthersLocked DEF AllLocked
<1>6. ASSUME NEW t \in Calls, NEW id \in WithdrawalIds, Hold(t, id)
      PROVE  AllLocked' /\ UNCHANGED <<balance, ledger>>
  <2>1. /\ UNCHANGED <<balance, ledger>> /\ LockWalletRow(t, arg[t].w) /\ pc[t] = "new"
        /\ Movable(arg[t].w, -arg[t].amount)
    BY <1>6 DEF Hold, Admissible
  <2>2. arg[t].w \in Wallets /\ arg[t].amount \in Int /\ -arg[t].amount \in Int
        /\ balance[arg[t].w] \in Int
    BY <1>0, <2>1, AmountType DEF CallTypes, CreateSteps, WalletTypeOK
  <2>3. /\ pc'[t] = "held" /\ arg'[t].w = arg[t].w /\ arg'[t].amount = arg[t].amount
        /\ arg'[t].seen = balance[arg[t].w]
        /\ \A c \in Calls \ {t} : pc'[c] = pc[c] /\ arg'[c] = arg[c]
    BY <1>0, <1>6 DEF Hold, TypeOK, Args
  <2>4. balance[arg[t].w] - arg[t].amount \in 0..MaxSafe
    <3>1. balance[arg[t].w] + -arg[t].amount \in 0..MaxSafe
      BY <2>1, <2>2, MovableInRange DEF MoneyInv
    <3> QED
      BY <2>2, <3>1
  <2>5. Locked(t)'
    BY <2>1, <2>2, <2>3, <2>4, LockOthers DEF Locked
  <2> QED
    BY <2>1, <2>2, <2>3, <2>5, LockOthers, OthersLocked DEF AllLocked
<1>7. ASSUME NEW t \in Calls, InsertRequest(t)
      PROVE  AllLocked' /\ UNCHANGED <<balance, ledger>>
  <2>1. UNCHANGED <<balance, ledger>> /\ pc[t] = "held"
    BY <1>7 DEF InsertRequest
  <2>2. CASE ByIdempotencyKey(t) = {}
    <3>1. /\ UNCHANGED <<walletLock, arg>> /\ pc'[t] = "inserted"
          /\ \A c \in Calls \ {t} : pc'[c] = pc[c]
      BY <1>0, <1>7, <2>2 DEF InsertRequest, TypeOK
    <3>2. Locked(t)'
      BY <1>0, <2>1, <3>1 DEF AllLocked, Locked, WalletSteps, SeenSteps
    <3> QED
      BY <2>1, <3>1, <3>2, OthersLocked DEF AllLocked
  <2>3. CASE ByIdempotencyKey(t) # {}
    <3>1. /\ UnlockWallets(t) /\ pc'[t] = "race"
          /\ \A c \in Calls \ {t} : pc'[c] = pc[c] /\ arg'[c] = arg[c]
      BY <1>0, <1>7, <2>3 DEF InsertRequest, TypeOK
    <3>2. Locked(t)'
      BY <3>1 DEF Locked, WalletSteps, SeenSteps
    <3> QED
      BY <2>1, <3>1, <3>2, UnlockOthers, OthersLocked DEF AllLocked
  <2> QED
    BY <2>1, <2>2, <2>3
<1>8. ASSUME NEW t \in Calls, CommitCreate(t)
      PROVE  AllLocked' /\ StatementChains' /\ BalancesInRange'
  <2>1. pc[t] = "inserted"
    BY <1>8 DEF CommitCreate
  <2>2. /\ arg[t].w \in Wallets /\ arg[t].amount \in Amounts /\ arg[t].id \in WithdrawalIds
        /\ walletLock[arg[t].w] = t /\ arg[t].seen = balance[arg[t].w] /\ arg[t].seen \in Int
        /\ arg[t].seen - arg[t].amount \in 0..MaxSafe
    BY <1>0, <2>1 DEF CallTypes, CreateSteps, WalletTypeOK, AllLocked, Locked, WalletSteps, SeenSteps
  <2>3. -arg[t].amount \in Int /\ arg[t].seen + (-arg[t].amount) \in 0..MaxSafe
    BY <2>2, AmountType
  <2>4. MoveTx(arg[t].w, "withdrawal", arg[t].id, -arg[t].amount, arg[t].seen)
        /\ UnlockWallets(t) /\ Finish(t)
    BY <1>8 DEF CommitCreate
  <2> QED
    BY <2>2, <2>3, <2>4, CommitMoney DEF Kinds
<1>9. ASSUME NEW t \in Calls, NEW id \in WithdrawalIds,
             NEW step \in {"approving", "rejecting", "cancelling"}, LockRequest(t, id, step)
      PROVE  AllLocked' /\ UNCHANGED <<balance, ledger>>
  <2>1. /\ UNCHANGED <<balance, ledger, walletLock>> /\ pc'[t] = step
        /\ \A c \in Calls \ {t} : pc'[c] = pc[c] /\ arg'[c] = arg[c]
    BY <1>0, <1>9 DEF LockRequest, walletVars, TypeOK
  <2>2. Locked(t)'
    BY <2>1 DEF Locked, WalletSteps, SeenSteps
  <2> QED
    BY <2>1, <2>2, OthersLocked DEF AllLocked
<1>10. ASSUME NEW t \in Calls, ReleaseHold(t)
       PROVE  AllLocked' /\ UNCHANGED <<balance, ledger>>
  <2>1. /\ UNCHANGED <<balance, ledger>> /\ arg[t].w \in Wallets /\ arg[t].amount \in Int
        /\ arg[t] \in Args
    BY <1>0, <1>10 DEF ReleaseHold, CallTypes, TypeOK, Args
  <2>2. CASE Posted(arg[t].w, "refund", arg[t].id) \/ Movable(arg[t].w, arg[t].amount)
    <3>1. /\ LockWalletRow(t, arg[t].w) /\ pc'[t] \in {"rejected", "cancelled"}
          /\ \A c \in Calls \ {t} : pc'[c] = pc[c] /\ arg'[c] = arg[c]
      BY <1>0, <1>10, <2>2 DEF ReleaseHold, TypeOK
    <3>2. /\ arg'[t].w = arg[t].w /\ arg'[t].id = arg[t].id /\ arg'[t].amount = arg[t].amount
          /\ arg'[t].seen = balance[arg[t].w]
      BY <1>0, <1>10, <2>1, <2>2 DEF ReleaseHold, TypeOK, Args
    <3>3. Posted(arg[t].w, "refund", arg[t].id)' \/ balance[arg[t].w] + arg[t].amount \in 0..MaxSafe
      BY <2>1, <2>2, <3>2, MovableInRange DEF Posted, MoneyInv
    <3>4. Locked(t)'
      BY <2>1, <3>1, <3>2, <3>3, LockOthers DEF Locked, Posted
    <3> QED
      BY <2>1, <3>1, <3>4, LockOthers, OthersLocked DEF AllLocked
  <2>3. CASE ~(Posted(arg[t].w, "refund", arg[t].id) \/ Movable(arg[t].w, arg[t].amount))
    <3>1. UNCHANGED walletLock /\ Finish(t)
      BY <1>10, <2>3 DEF ReleaseHold
    <3> QED
      BY <2>1, <3>1, FinishLocked, OthersLocked DEF AllLocked
  <2> QED
    BY <2>1, <2>2, <2>3
<1>11. ASSUME NEW t \in Calls, CommitReject(t) \/ CommitCancel(t)
       PROVE  AllLocked' /\ StatementChains' /\ BalancesInRange'
  <2>1. pc[t] \in {"rejected", "cancelled"}
    BY <1>11 DEF CommitReject, CommitCancel
  <2>2. /\ arg[t].w \in Wallets /\ arg[t].amount \in Int /\ arg[t].id \in WithdrawalIds
        /\ walletLock[arg[t].w] = t /\ arg[t].seen = balance[arg[t].w]
        /\ Posted(arg[t].w, "refund", arg[t].id) \/ arg[t].seen + arg[t].amount \in 0..MaxSafe
    BY <1>0, <2>1 DEF CallTypes, ReviewSteps, TypeOK, Args, AllLocked, Locked, WalletSteps, SeenSteps
  <2>3. MoveTx(arg[t].w, "refund", arg[t].id, arg[t].amount, arg[t].seen)
        /\ UnlockWallets(t) /\ Finish(t)
    BY <1>11 DEF CommitReject, CommitCancel
  <2> QED
    BY <2>2, <2>3, CommitMoney DEF Kinds
<1>12. ASSUME NEW w \in Wallets, NEW status \in WalletStatus, SetWalletStatus(w, status)
       PROVE  AllLocked' /\ UNCHANGED <<balance, ledger>>
  BY <1>0, <1>12 DEF SetWalletStatus, AllLocked, Locked, Posted
<1>13. ASSUME (\E m \in Methods : UpdatePaymentMethod(m)) \/ UNCHANGED vars
       PROVE  AllLocked' /\ UNCHANGED <<balance, ledger>>
  BY <1>0, <1>13 DEF UpdatePaymentMethod, vars, walletVars, AllLocked, Locked, Posted
<1> QED
  BY <1>a, <1>1, <1>2, <1>3, <1>4, <1>5, <1>6, <1>7, <1>8, <1>9, <1>10, <1>11, <1>12, <1>13
     DEF Next, Begin, Continue, Blocking

\* Every wallet's statement chains and names a movement once, whatever calls
\* interleave and abort.
THEOREM StatementsChain == Spec => []StatementChains
<1>1. Spec => []MoneyInv
  BY MoneyInit, MoneyNext, PTL DEF Spec
<1> QED
  BY <1>1, PTL DEF MoneyInv

\* No balance goes below zero or above what can be shown.
THEOREM BalancesStayInRange == Spec => []BalancesInRange
<1>1. Spec => []MoneyInv
  BY MoneyInit, MoneyNext, PTL DEF Spec
<1> QED
  BY <1>1, PTL DEF MoneyInv

\* What MoveTx owes a wallet holds however many withdrawals, reviews and adjustments
\* interleave on it.
THEOREM LedgerStaysSound == Spec => []LedgerSound
<1>1. Spec => []MoneyInv
  BY MoneyInit, MoneyNext, PTL DEF Spec
<1>2. MoneyInv => LedgerSound
  BY DEF MoneyInv, LedgerSound
<1> QED
  BY <1>1, <1>2, PTL
===============================================================================
