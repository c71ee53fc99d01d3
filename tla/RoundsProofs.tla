------------------------------ MODULE RoundsProofs ------------------------------
(***************************************************************************)
(* Proofs about Rounds, for every number of wallets, calls, rounds, keys    *)
(* and games, every limit, return, stake and outcome, and every MaxSafe:    *)
(* plays, openings, settlements, cancellations and failures on any number   *)
(* of calls keep the ledger, the rows, the answers and the notifications    *)
(* in agreement, and every commit is a step of Wagering.                    *)
(***************************************************************************)
EXTENDS Rounds, WalletProofs

-----------------------------------------------------------------------------
(* Types *)

\* Past the game lock, past the wallet lock, past the insert.
EnteredSteps == {"entered", "recorded", "decided"}
GameSteps == {"priced"} \cup EnteredSteps
InsertedSteps == {"recorded", "decided"}
CloseSteps == {"closing", "closed"}

Args == [w : Wallets \cup {None}, id : RoundIds \cup {None}, key : {None}, method : {None},
         amount : Int, seen : Int]

\* What a call has read by the step it is at.
CallTypes(c) ==
    /\ pc[c] \in OpenSteps =>
          order[c] \in Order /\ order[c].body \in Body /\ order[c].op \in {"play", "open"}
    /\ pc[c] \in CloseSteps =>
          /\ order[c] \in Order /\ order[c].op \in {"settle", "cancel", "fail"}
          /\ order[c].op = "settle" => order[c].outcome \in Outcomes
          /\ arg[c].id \in RoundIds /\ rounds[arg[c].id] # None
    /\ pc[c] \in EnteredSteps => arg[c].w = order[c].body.w /\ arg[c].amount = -order[c].body.stake
    /\ pc[c] \in InsertedSteps => arg[c].id \in RoundIds /\ config[order[c].body.game].rtp \in Options
    /\ pc[c] = "decided" => order[c].op = "play" /\ order[c].outcome \in Outcomes
    /\ pc[c] \in {"adjusted"} \cup EnteredSteps \cup CloseSteps => arg[c].w \in Wallets
    /\ pc[c] = "closed" => arg[c].amount \in Nat

Typed == TypeOK /\ arg \in [Calls -> Args] /\ \A c \in Calls : CallTypes(c)

LEMMA StepSets ==
    /\ OpenSteps = {"asked", "unsupported"} \cup GameSteps
    /\ Steps = {"idle", "adjusted"} \cup CloseSteps \cup OpenSteps
BY DEF OpenSteps, GameSteps, EnteredSteps, CloseSteps, Steps

LEMMA NoArgType == NoArg \in Args
BY DEF NoArg, Args

\* What a call's arg becomes once it has the wallet, picks a round, and locks it.
WagerArg(w, n) == [NoArg EXCEPT !.w = w, !.amount = n]
ClosingArg(w, id) == [NoArg EXCEPT !.w = w, !.id = id]
ClosedArg(a, n, m) == [a EXCEPT !.amount = n, !.seen = m]

LEMMA WagerArgType ==
    ASSUME NEW w \in Wallets, NEW n \in Int
    PROVE  WagerArg(w, n) \in Args /\ WagerArg(w, n).w = w /\ WagerArg(w, n).amount = n
BY NoArgType DEF WagerArg, Args

LEMMA ClosingArgType ==
    ASSUME NEW w \in Wallets, NEW id \in RoundIds
    PROVE  ClosingArg(w, id) \in Args /\ ClosingArg(w, id).w = w /\ ClosingArg(w, id).id = id
BY NoArgType DEF ClosingArg, Args

LEMMA ClosedArgType ==
    ASSUME NEW a \in Args, NEW n \in Int, NEW m \in Int
    PROVE  LET b == ClosedArg(a, n, m)
           IN  b \in Args /\ b.amount = n /\ b.seen = m /\ b.w = a.w /\ b.id = a.id
BY DEF ClosedArg, Args

USE WalletAssumption, RoundsAssumption, RoundAssumption

LEMMA BodyTypes ==
    ASSUME NEW b \in Body
    PROVE  b.key \in Keys /\ b.w \in Wallets /\ b.game \in Games /\ b.stake \in Stakes
           /\ b.stake \in Nat /\ b.stake > 0 /\ b.params \in Params
<1>1. b.key \in Keys /\ b.w \in Wallets /\ b.game \in Games /\ b.stake \in Stakes /\ b.params \in Params
  BY DEF Body
<1>2. \A stake \in Stakes : stake \in Nat /\ stake > 0
  OBVIOUS
<1> QED
  BY <1>1, <1>2

LEMMA OutcomeTypes == \A o \in Outcomes : o.win \in Nat /\ o.multiplier \in Nat
OBVIOUS

\* A round never disappears.
RowsKept == \A id \in RoundIds : rounds[id] # None => rounds'[id] # None

LEMMA WritesRow ==
    ASSUME TypeOK, NEW id \in RoundIds, NEW row \in Round, rounds' = [rounds EXCEPT ![id] = row]
    PROVE  /\ rounds' \in [RoundIds -> Round \cup {None}] /\ RowsKept
           /\ rounds'[id] = row /\ row # None
           /\ \A i \in RoundIds \ {id} : rounds'[i] = rounds[i]
BY DEF TypeOK, RowsKept

\* A step of one call: what is left to show is that it fits its new step.
LEMMA AdvanceTypes ==
    ASSUME Typed, NEW t \in Calls, NEW step \in Steps, NEW a \in Args, NEW o \in Order \cup {None},
           pc' = [pc EXCEPT ![t] = step], arg' = [arg EXCEPT ![t] = a], order' = [order EXCEPT ![t] = o],
           RowsKept, UNCHANGED config, CallTypes(t)'
    PROVE  /\ pc' \in [Calls -> Steps] /\ arg' \in [Calls -> Args] /\ order' \in [Calls -> Order \cup {None}]
           /\ \A c \in Calls : CallTypes(c)'
<1>1. /\ pc \in [Calls -> Steps] /\ arg \in [Calls -> Args] /\ order \in [Calls -> Order \cup {None}]
      /\ \A c \in Calls : CallTypes(c)
  BY DEF Typed, TypeOK
<1>2. ASSUME NEW c \in Calls \ {t} PROVE CallTypes(c)'
  <2>1. pc'[c] = pc[c] /\ arg'[c] = arg[c] /\ order'[c] = order[c] /\ CallTypes(c)
    BY <1>1
  <2> QED
    BY <2>1 DEF CallTypes, RowsKept
<1> QED
  BY <1>1, <1>2

\* A step that leaves the call's order alone.
LEMMA MoveOnTypes ==
    ASSUME Typed, NEW t \in Calls, NEW step \in Steps, NEW a \in Args,
           pc' = [pc EXCEPT ![t] = step], arg' = [arg EXCEPT ![t] = a], UNCHANGED <<order, rounds, config>>,
           CallTypes(t)'
    PROVE  /\ pc' \in [Calls -> Steps] /\ arg' \in [Calls -> Args] /\ order' \in [Calls -> Order \cup {None}]
           /\ \A c \in Calls : CallTypes(c)'
<1>1. order[t] \in Order \cup {None} /\ order' = [order EXCEPT ![t] = order[t]]
  BY DEF Typed, TypeOK
<1> QED
  BY <1>1, AdvanceTypes DEF RowsKept

LEMMA EndTypes ==
    ASSUME Typed, NEW t \in Calls, EndTx(t), RowsKept, UNCHANGED config
    PROVE  /\ pc' \in [Calls -> Steps] /\ arg' \in [Calls -> Args] /\ order' \in [Calls -> Order \cup {None}]
           /\ \A c \in Calls : CallTypes(c)'
           /\ walletLock' \in [Wallets -> Calls \cup {None}] /\ gameLock' \in [Games -> Calls \cup {None}]
<1>1. "idle" \in Steps /\ "idle" \notin OpenSteps \cup EnteredSteps \cup InsertedSteps \cup CloseSteps
  BY DEF Steps, OpenSteps, EnteredSteps, InsertedSteps, CloseSteps
<1>2. /\ pc' = [pc EXCEPT ![t] = "idle"] /\ arg' = [arg EXCEPT ![t] = NoArg]
      /\ order' = [order EXCEPT ![t] = None]
  BY DEF EndTx, Finish
<1>3. CallTypes(t)'
  BY <1>1, <1>2 DEF CallTypes, Typed, TypeOK
<1>4. walletLock' \in [Wallets -> Calls \cup {None}] /\ gameLock' \in [Games -> Calls \cup {None}]
  BY DEF EndTx, UnlockWallets, UnlockGames, Typed, TypeOK, WalletTypeOK
<1> QED
  BY <1>1, <1>2, <1>3, <1>4, NoArgType, AdvanceTypes

LEMMA LockTypes ==
    ASSUME Typed, NEW t \in Calls, NEW w \in Wallets, LockWalletRow(t, w)
    PROVE  /\ walletLock' \in [Wallets -> Calls \cup {None}] /\ walletLock'[w] = t
           /\ \A v \in Wallets : walletLock[v] \notin {None, t} => walletLock'[v] = walletLock[v]
BY DEF LockWalletRow, Typed, TypeOK, WalletTypeOK

LEMMA TypedInit == Init => Typed
<1> SUFFICES ASSUME Init PROVE Typed
  OBVIOUS
<1>1. TypeOK
  <2>1. "idle" \in Steps /\ {"inactive"} \subseteq {"active", "inactive"}
    BY StepSets
  <2>2. WalletTypeOK
    BY DEF Init, WalletInit, WalletTypeOK, WalletStatus
  <2>3. config \in [Games -> Config]
    <3>1. [status : {"inactive"}, rtp : {None}, limit : Limits] \subseteq Config
      BY DEF Config
    <3> QED
      BY <3>1 DEF Init
  <2> QED
    BY <2>1, <2>2, <2>3 DEF Init, WalletInit, TypeOK
<1>2. arg \in [Calls -> Args] /\ \A t \in Calls : pc[t] = "idle"
  BY NoArgType DEF Init, WalletInit
<1>3. \A t \in Calls : CallTypes(t)
  BY <1>2 DEF CallTypes, OpenSteps, EnteredSteps, InsertedSteps, CloseSteps
<1> QED
  BY <1>1, <1>2, <1>3 DEF Typed

\* A play appends one entry or two.

\* The statement once a stake and its win are appended to it.
PlayedOn(book, held, id, stake, win) ==
    IF win > 0 THEN Append(Append(book, EntryOf("wager", id, -stake, held)),
                           EntryOf("win", id, win, held - stake))
    ELSE Append(book, EntryOf("wager", id, -stake, held))

LEMMA PostPlayWrites ==
    ASSUME WalletTypeOK, NEW w \in Wallets, NEW id \in RoundIds, NEW stake \in Nat, NEW win \in Nat,
           NEW seen \in Int, PostPlay(w, id, stake, win, seen)
    PROVE  /\ balance' = [balance EXCEPT ![w] = seen - stake + win]
           /\ ledger' = [ledger EXCEPT ![w] = PlayedOn(ledger[w], seen, id, stake, win)]
           /\ balance' \in [Wallets -> Int] /\ ledger' \in [Wallets -> Seq(Entry)]
<1> DEFINE wager == EntryOf("wager", id, -stake, seen)
           credit == EntryOf("win", id, win, seen - stake)
           book == ledger[w]
<1>1. wager \in Entry /\ credit \in Entry /\ book \in Seq(Entry)
  BY EntryType DEF Kinds, WalletTypeOK
<1>2. /\ wager = [kind |-> "wager", ref |-> id, amount |-> -stake, before |-> seen, after |-> seen - stake]
      /\ credit = [kind |-> "win", ref |-> id, amount |-> win, before |-> seen - stake,
                   after |-> seen - stake + win]
  BY DEF EntryOf
<1>3. /\ balance' = [balance EXCEPT ![w] = seen - stake + win]
      /\ ledger' = [ledger EXCEPT ![w] = book \o IF win > 0 THEN <<wager, credit>> ELSE <<wager>>]
  BY <1>2 DEF PostPlay
<1> HIDE DEF wager, credit
<1>4. book \o <<wager>> = Append(book, wager) /\ Append(book, wager) \in Seq(Entry)
  BY <1>1
<1>5. book \o <<wager, credit>> = Append(Append(book, wager), credit)
      /\ Append(Append(book, wager), credit) \in Seq(Entry)
  BY <1>1, <1>4
<1> DEFINE new == IF win > 0 THEN Append(Append(book, wager), credit) ELSE Append(book, wager)
<1>6. ledger' = [ledger EXCEPT ![w] = new] /\ new \in Seq(Entry)
  BY <1>3, <1>4, <1>5
<1>7. balance' \in [Wallets -> Int]
  <2>1. seen - stake + win \in Int
    OBVIOUS
  <2> QED
    BY <1>3, <2>1 DEF WalletTypeOK
<1>8. ledger' \in [Wallets -> Seq(Entry)]
  <2>1. ASSUME NEW x \in Seq(Entry), ledger' = [ledger EXCEPT ![w] = x] PROVE ledger' \in [Wallets -> Seq(Entry)]
    BY <2>1 DEF WalletTypeOK
  <2> HIDE DEF new
  <2> QED
    BY <1>6, <2>1
<1> QED
  BY <1>3, <1>6, <1>7, <1>8 DEF wager, credit, PlayedOn

LEMMA NewRoundType ==
    ASSUME Typed, NEW t \in Calls, pc[t] \in InsertedSteps, NEW params \in Params,
           NEW status \in {"open", "settled", "cancelled", "failed"},
           NEW result, result.win \in Nat \cup {None}, result.multiplier \in Nat \cup {None}
    PROVE  LET row == NewRound(t, params, status, result)
               body == order[t].body
           IN  /\ row \in Round
               /\ row.key = body.key /\ row.w = body.w /\ row.game = body.game /\ row.stake = body.stake
               /\ row.params = params /\ row.rtp = config[body.game].rtp /\ row.status = status
               /\ row.win = result.win /\ row.multiplier = result.multiplier
<1>1. /\ order[t].body \in Body /\ config[order[t].body.game].rtp \in Options
  BY StepSets DEF Typed, CallTypes, InsertedSteps, GameSteps, EnteredSteps
<1> QED
  BY <1>1, BodyTypes DEF NewRound, Round

\* The row a close writes.
ClosedRow(t) ==
    LET row == rounds[arg[t].id]
        settles == order[t].op = "settle"
    IN  [row EXCEPT !.status = Closed[order[t].op],
                    !.win = IF settles THEN arg[t].amount ELSE row.win,
                    !.multiplier = IF settles THEN order[t].outcome.multiplier ELSE row.multiplier]

LEMMA ClosedRowType ==
    ASSUME Typed, NEW t \in Calls, CommitClose(t)
    PROVE  LET row == rounds[arg[t].id]
               new == ClosedRow(t)
               settles == order[t].op = "settle"
           IN  /\ arg[t].id \in RoundIds /\ row \in Round /\ row # None
               /\ rounds' = [rounds EXCEPT ![arg[t].id] = new] /\ new \in Round
               /\ new = [row EXCEPT !.status = new.status, !.win = new.win, !.multiplier = new.multiplier]
               /\ new.key = row.key /\ new.w = row.w /\ new.game = row.game /\ new.stake = row.stake
               /\ new.params = row.params /\ new.rtp = row.rtp
               /\ order[t].op = "settle" => new.status = "settled"
               /\ order[t].op = "cancel" => new.status = "cancelled"
               /\ order[t].op = "fail" => new.status = "failed"
               /\ new.win = IF settles THEN arg[t].amount ELSE row.win
               /\ new.multiplier = IF settles THEN order[t].outcome.multiplier ELSE row.multiplier
<1> DEFINE row == rounds[arg[t].id]
           op == order[t].op
<1>1. /\ pc[t] = "closed" /\ arg[t].id \in RoundIds /\ row # None
      /\ op \in {"settle", "cancel", "fail"}
      /\ op = "settle" => order[t].outcome \in Outcomes
      /\ arg[t].amount \in Nat
  BY DEF CommitClose, Typed, CallTypes, CloseSteps
<1>2. row \in Round
  BY <1>1 DEF Typed, TypeOK
<1>3. /\ op = "settle" => Closed[op] = "settled"
      /\ op = "cancel" => Closed[op] = "cancelled"
      /\ op = "fail" => Closed[op] = "failed"
      /\ Closed[op] \in {"open", "settled", "cancelled", "failed"}
  BY <1>1 DEF Closed
<1> DEFINE win == IF op = "settle" THEN arg[t].amount ELSE row.win
           multiplier == IF op = "settle" THEN order[t].outcome.multiplier ELSE row.multiplier
           status == Closed[op]
           new == [row EXCEPT !.status = status, !.win = win, !.multiplier = multiplier]
<1>4. win \in Nat \cup {None} /\ multiplier \in Nat \cup {None}
  BY <1>1, <1>2, OutcomeTypes DEF Round
<1>5. rounds' = [rounds EXCEPT ![arg[t].id].status = status, ![arg[t].id].win = win,
                               ![arg[t].id].multiplier = multiplier]
  BY <1>1, <1>2 DEF CommitClose, Typed, TypeOK
<1>6. new = ClosedRow(t)
  BY DEF ClosedRow
<1> HIDE DEF win, multiplier, status
<1>7. new \in Round /\ new.key = row.key /\ new.w = row.w /\ new.game = row.game /\ new.stake = row.stake
      /\ new.params = row.params /\ new.rtp = row.rtp /\ new.status = status /\ new.win = win
      /\ new.multiplier = multiplier
  BY <1>2, <1>3, <1>4 DEF Round, status
<1>8. rounds' = [rounds EXCEPT ![arg[t].id] = new]
  BY <1>1, <1>2, <1>5 DEF Typed, TypeOK, Round
<1> QED
  BY <1>1, <1>2, <1>3, <1>6, <1>7, <1>8 DEF win, multiplier, status

LEMMA TypedBegin ==
    ASSUME Typed, NEW t \in Calls, Begin(t)
    PROVE  Typed'
<1>1. ASSUME NEW w \in Wallets, NEW amount \in AdjustAmounts, StartAdjust(t, w, amount), UNCHANGED roundVars
      PROVE  Typed'
  <2> DEFINE a == [NoArg EXCEPT !.w = w, !.amount = amount, !.seen = balance[w]]
  <2>1. a \in Args /\ a.w = w
    BY DEF Typed, WalletTypeOK, TypeOK, NoArg, Args
  <2>2. /\ pc' = [pc EXCEPT ![t] = "adjusted"] /\ arg' = [arg EXCEPT ![t] = a]
        /\ UNCHANGED <<balance, walletStatus, ledger, rounds, config, gameLock, order>>
        /\ LockWalletRow(t, w)
    BY <1>1 DEF StartAdjust, roundVars
  <2> HIDE DEF a
  <2>3. CallTypes(t)'
    BY <2>1, <2>2 DEF CallTypes, OpenSteps, EnteredSteps, InsertedSteps, CloseSteps, Typed, TypeOK
  <2>4. "adjusted" \in Steps
    BY StepSets
  <2> QED
    BY <2>1, <2>2, <2>3, <2>4, MoveOnTypes, LockTypes DEF Typed, TypeOK, WalletTypeOK
<1>2. ASSUME NEW op \in {"play", "open"}, op \in Operations, NEW body \in Body, StartOpen(t, op, body)
      PROVE  Typed'
  <2>1. UNCHANGED <<walletVars, arg, rounds, config, gameLock>>
    BY <1>2 DEF StartOpen
  <2>2. CASE ByKey(body.key) # {}
    <3>1. UNCHANGED <<pc, order>>
      BY <1>2, <2>2 DEF StartOpen
    <3> QED
      BY <2>1, <3>1 DEF walletVars, Typed, TypeOK, WalletTypeOK, CallTypes
  <2>3. CASE ByKey(body.key) = {}
    <3> DEFINE o == [op |-> op, body |-> body, replaced |-> FALSE, outcome |-> None]
    <3>1. o \in Order /\ o.body = body /\ o.op = op
      BY <1>2 DEF Order
    <3>2. /\ pc' = [pc EXCEPT ![t] = "asked"] /\ order' = [order EXCEPT ![t] = o]
          /\ arg' = [arg EXCEPT ![t] = arg[t]] /\ arg[t] \in Args
      BY <1>2, <2>3 DEF StartOpen, Typed
    <3> HIDE DEF o
    <3>3. CallTypes(t)'
      BY <3>1, <3>2 DEF CallTypes, EnteredSteps, InsertedSteps, CloseSteps, Typed, TypeOK
    <3>4. "asked" \in Steps
      BY StepSets
    <3> QED
      BY <2>1, <3>1, <3>2, <3>3, <3>4, AdvanceTypes DEF RowsKept, walletVars, Typed, TypeOK, WalletTypeOK
  <2> QED
    BY <2>2, <2>3
<1>3. ASSUME NEW op \in {"settle", "cancel", "fail"}, op \in Operations, NEW id \in RoundIds,
             NEW outcome \in Outcomes \cup {None}, op = "settle" => outcome \in Outcomes,
             StartClose(t, op, id, outcome)
      PROVE  Typed'
  <2>1. rounds[id] # None /\ rounds[id].w \in Wallets
    BY <1>3 DEF StartClose, Typed, TypeOK, Round
  <2>1a. PICK w \in Wallets : w = rounds[id].w
    BY <2>1
  <2> DEFINE a == ClosingArg(w, id)
             o == [op |-> op, body |-> None, replaced |-> FALSE, outcome |-> outcome]
  <2>2. a \in Args /\ a.w = w /\ a.id = id
    BY ClosingArgType
  <2>3. o \in Order /\ o.op = op /\ o.outcome = outcome
    BY <1>3 DEF Order
  <2>4. /\ pc' = [pc EXCEPT ![t] = "closing"] /\ arg' = [arg EXCEPT ![t] = a]
        /\ order' = [order EXCEPT ![t] = o] /\ UNCHANGED <<walletVars, rounds, config, gameLock>>
    BY <1>3, <2>1a DEF StartClose, ClosingArg
  <2> HIDE DEF a, o
  <2>5. CallTypes(t)'
    BY <1>3, <2>1, <2>1a, <2>2, <2>3, <2>4 DEF CallTypes, OpenSteps, EnteredSteps, InsertedSteps, Typed, TypeOK
  <2>6. "closing" \in Steps
    BY StepSets DEF CloseSteps
  <2> QED
    BY <2>2, <2>3, <2>4, <2>5, <2>6, AdvanceTypes DEF RowsKept, walletVars, Typed, TypeOK, WalletTypeOK
<1> QED
  BY <1>1, <1>2, <1>3 DEF Begin

\* A transaction that ends and leaves the rows as they are.
LEMMA TypedEnd ==
    ASSUME Typed, NEW t \in Calls, EndTx(t), UNCHANGED <<balance, walletStatus, ledger, rounds, config>>
    PROVE  Typed'
BY EndTypes DEF RowsKept, Typed, TypeOK, WalletTypeOK

LEMMA TypedBlocking ==
    ASSUME Typed, NEW t \in Calls, Blocking(t)
    PROVE  Typed'
<1>0. TypeOK /\ WalletTypeOK /\ arg[t] \in Args /\ CallTypes(t)
  BY DEF Typed, TypeOK
<1>1. CASE LockGame(t)
  <2> DEFINE g == order[t].body.game
  <2>1. pc[t] = "asked" /\ g \in Games
    BY <1>0, <1>1, BodyTypes DEF LockGame, CallTypes, OpenSteps
  <2>2. UNCHANGED <<balance, walletStatus, ledger, rounds, config>>
    BY <1>1 DEF LockGame
  <2>3. \/ EndTx(t)
        \/ /\ UNCHANGED <<walletLock, arg, order>>
           /\ gameLock' = gameLock \/ gameLock' = [gameLock EXCEPT ![g] = t]
           /\ pc' = [pc EXCEPT ![t] = "unsupported"] \/ pc' = [pc EXCEPT ![t] = "priced"]
    BY <1>1 DEF LockGame
  <2>4. CASE EndTx(t)
    BY <2>2, <2>4, TypedEnd
  <2>5. CASE ~EndTx(t)
    <3>1. PICK step \in {"unsupported", "priced"} : pc' = [pc EXCEPT ![t] = step]
      BY <2>3, <2>5
    <3>2. step \in Steps /\ arg' = [arg EXCEPT ![t] = arg[t]]
      BY <2>3, <2>5, StepSets DEF GameSteps, Typed
    <3>3. CallTypes(t)'
      BY <1>0, <2>1, <2>3, <2>5, <3>1
         DEF CallTypes, OpenSteps, EnteredSteps, InsertedSteps, CloseSteps, TypeOK
    <3>4. gameLock' \in [Games -> Calls \cup {None}]
      BY <1>0, <2>1, <2>3, <2>5 DEF TypeOK
    <3> QED
      BY <1>0, <2>2, <2>3, <2>5, <3>1, <3>2, <3>3, <3>4, MoveOnTypes DEF Typed, TypeOK, WalletTypeOK
  <2> QED
    BY <2>4, <2>5
<1>2. CASE LockWallet(t)
  <2>1. pc[t] = "priced" /\ order[t] \in Order /\ order[t].op \in {"play", "open"}
    BY <1>0, <1>2 DEF LockWallet, CallTypes, OpenSteps
  <2>1a. PICK body \in Body : body = order[t].body
    BY <1>0, <1>2 DEF LockWallet, CallTypes, OpenSteps
  <2> DEFINE a == WagerArg(body.w, -body.stake)
  <2>2. a \in Args /\ a.w = body.w /\ a.amount = -body.stake /\ body.w \in Wallets
    <3>1. body.w \in Wallets /\ -body.stake \in Int
      BY BodyTypes
    <3> QED
      BY <3>1, WagerArgType
  <2>3. /\ pc' = [pc EXCEPT ![t] = "entered"] /\ arg' = [arg EXCEPT ![t] = a] /\ LockWalletRow(t, body.w)
        /\ UNCHANGED <<balance, walletStatus, ledger, rounds, config, gameLock, order>>
    BY <1>2, <2>1a DEF LockWallet, roundVars, WagerArg
  <2> HIDE DEF a
  <2>4. CallTypes(t)'
    BY <1>0, <2>1, <2>1a, <2>2, <2>3 DEF CallTypes, InsertedSteps, CloseSteps, TypeOK, Typed
  <2>5. "entered" \in Steps
    BY StepSets DEF GameSteps, EnteredSteps
  <2> QED
    BY <2>2, <2>3, <2>4, <2>5, MoveOnTypes, LockTypes DEF Typed, TypeOK, WalletTypeOK
<1>3. CASE Refuse(t)
  BY <1>3, TypedEnd DEF Refuse
<1>4. ASSUME NEW id \in RoundIds, InsertOpen(t, id) PROVE Typed'
  <2> DEFINE a == [arg[t] EXCEPT !.id = id, !.seen = balance[arg[t].w]]
  <2>1. /\ pc[t] = "entered" /\ order[t].body \in Body /\ order[t] \in Order /\ order[t].op \in {"play", "open"}
        /\ arg[t].w \in Wallets /\ arg[t].w = order[t].body.w /\ arg[t].amount = -order[t].body.stake
        /\ config[order[t].body.game].rtp \in Options
    BY <1>0, <1>4 DEF InsertOpen, Playable, CallTypes, OpenSteps, EnteredSteps
  <2>2. a \in Args /\ a.w = arg[t].w /\ a.amount = arg[t].amount /\ a.id = id
    BY <1>0, <2>1 DEF Args, WalletTypeOK
  <2>3. /\ pc' = [pc EXCEPT ![t] = "recorded"] /\ arg' = [arg EXCEPT ![t] = a]
        /\ UNCHANGED <<walletVars, rounds, config, gameLock, order>>
    BY <1>4 DEF InsertOpen, roundVars
  <2> HIDE DEF a
  <2>4. CallTypes(t)'
    BY <1>0, <2>1, <2>2, <2>3 DEF CallTypes, CloseSteps, TypeOK, Typed
  <2>5. "recorded" \in Steps
    BY StepSets DEF GameSteps, EnteredSteps
  <2> QED
    BY <2>2, <2>3, <2>4, <2>5, MoveOnTypes DEF walletVars, Typed, TypeOK, WalletTypeOK
<1>5. CASE LockRound(t)
  <2>1. /\ pc[t] = "closing" /\ order[t] \in Order /\ order[t].op \in {"settle", "cancel", "fail"}
        /\ arg[t].id \in RoundIds /\ rounds[arg[t].id] # None
        /\ arg[t].w \in Wallets
    BY <1>0, <1>5 DEF LockRound, CallTypes, CloseSteps
  <2>2. order[t].op = "settle" => order[t].outcome \in Outcomes
    BY <1>0, <2>1 DEF CallTypes, CloseSteps
  <2>3. Due(t) \in Nat
    <3>1. rounds[arg[t].id].stake \in Stakes /\ Stakes \subseteq Nat
      BY <1>0, <2>1 DEF TypeOK, Round
    <3> QED
      BY <2>2, <3>1, OutcomeTypes DEF Due
  <2>3a. PICK due \in Nat, held \in Int : due = Due(t) /\ held = balance[arg[t].w]
    BY <1>0, <2>1, <2>3 DEF WalletTypeOK
  <2> DEFINE a == ClosedArg(arg[t], due, held)
  <2>4. a \in Args /\ a.w = arg[t].w /\ a.amount = due /\ a.id = arg[t].id
    BY <1>0, ClosedArgType
  <2>5. UNCHANGED <<balance, walletStatus, ledger, rounds, config>>
    BY <1>5 DEF LockRound
  <2>6. CASE EndTx(t)
    BY <2>5, <2>6, TypedEnd
  <2>7. CASE ~EndTx(t)
    <3>1. /\ pc' = [pc EXCEPT ![t] = "closed"] /\ arg' = [arg EXCEPT ![t] = a]
          /\ UNCHANGED <<gameLock, order>> /\ LockWalletRow(t, arg[t].w)
      BY <1>5, <2>3a, <2>7 DEF LockRound, ClosedArg
    <3> HIDE DEF a
    <3>2. CallTypes(t)'
      BY <1>0, <2>1, <2>2, <2>3, <2>4, <2>5, <3>1
         DEF CallTypes, OpenSteps, EnteredSteps, InsertedSteps, TypeOK, Typed
    <3>3. "closed" \in Steps
      BY StepSets DEF CloseSteps
    <3> QED
      BY <2>1, <2>4, <2>5, <3>1, <3>2, <3>3, MoveOnTypes, LockTypes DEF Typed, TypeOK, WalletTypeOK
  <2> QED
    BY <2>6, <2>7
<1> QED
  BY <1>1, <1>2, <1>3, <1>4, <1>5 DEF Blocking

LEMMA TypedContinue ==
    ASSUME Typed, NEW t \in Calls, Continue(t)
    PROVE  Typed'
<1>0. TypeOK /\ WalletTypeOK /\ arg[t] \in Args /\ CallTypes(t) /\ arg[t].amount \in Int /\ arg[t].seen \in Int
  BY DEF Typed, TypeOK, Args
<1>1. ASSUME CommitAdjust(t), UNCHANGED roundVars PROVE Typed'
  <2>1. arg[t].w \in Wallets /\ MoveTx(arg[t].w, "adjustment", None, arg[t].amount, arg[t].seen)
    BY <1>0, <1>1 DEF CommitAdjust, CallTypes
  <2>2. balance' \in [Wallets -> Int] /\ ledger' \in [Wallets -> Seq(Entry)]
    BY <1>0, <2>1, MoveTxType DEF Kinds
  <2>3. "idle" \in Steps
    BY StepSets
  <2>4. /\ pc' = [pc EXCEPT ![t] = "idle"] /\ arg' = [arg EXCEPT ![t] = NoArg]
        /\ UNCHANGED <<walletStatus, rounds, config, gameLock, order>>
        /\ walletLock' \in [Wallets -> Calls \cup {None}]
    BY <1>0, <1>1 DEF CommitAdjust, Finish, UnlockWallets, roundVars, WalletTypeOK
  <2>5. CallTypes(t)'
    BY <1>0, <2>4 DEF CallTypes, OpenSteps, EnteredSteps, InsertedSteps, CloseSteps, TypeOK, Typed
  <2> QED
    BY <2>2, <2>3, <2>4, <2>5, NoArgType, MoveOnTypes DEF Typed, TypeOK, WalletTypeOK
<1>2. CASE AnswerUnsupported(t) \/ Replay(t)
  BY <1>2, TypedEnd DEF AnswerUnsupported, Replay
<1>3. ASSUME NEW outcome \in Outcomes, Decide(t, outcome) PROVE Typed'
  <2> DEFINE o == [order[t] EXCEPT !.outcome = outcome]
  <2>1. /\ pc[t] = "recorded" /\ order[t] \in Order /\ order[t].op = "play"
        /\ UNCHANGED <<balance, walletStatus, ledger, rounds, config>>
    BY <1>0, <1>3 DEF Decide, CallTypes, OpenSteps
  <2>2. CASE EndTx(t)
    BY <2>1, <2>2, TypedEnd
  <2>3. CASE ~EndTx(t)
    <3>1. /\ pc' = [pc EXCEPT ![t] = "decided"] /\ order' = [order EXCEPT ![t] = o]
          /\ arg' = [arg EXCEPT ![t] = arg[t]] /\ UNCHANGED <<walletLock, gameLock>>
      BY <1>3, <2>3 DEF Decide, Typed
    <3>2. o \in Order /\ o.op = "play" /\ o.body = order[t].body /\ o.outcome = outcome
      BY <2>1 DEF Order
    <3> HIDE DEF o
    <3>3. CallTypes(t)'
      BY <1>0, <2>1, <3>1, <3>2
         DEF CallTypes, OpenSteps, EnteredSteps, InsertedSteps, CloseSteps, TypeOK, Typed
    <3>4. "decided" \in Steps
      BY StepSets DEF GameSteps, EnteredSteps
    <3> QED
      BY <1>0, <2>1, <3>1, <3>2, <3>3, <3>4, AdvanceTypes DEF RowsKept, Typed, TypeOK, WalletTypeOK
  <2> QED
    BY <2>2, <2>3
<1>4. CASE CommitOpen(t)
  <2>1. /\ pc[t] \in InsertedSteps /\ arg[t].id \in RoundIds /\ arg[t].id \in Ids /\ arg[t].w \in Wallets
        /\ arg[t].w = order[t].body.w
    BY <1>0, <1>4 DEF CommitOpen, CallTypes, InsertedSteps, EnteredSteps
  <2> DEFINE row == NewRound(t, EmptyObject, "open", NoResult)
  <2>2. row \in Round /\ row.w = arg[t].w
    <3>1. NoResult.win = None /\ NoResult.multiplier = None
      BY DEF NoResult
    <3> QED
      BY <2>1, <3>1, NewRoundType
  <2>3. rounds' = [rounds EXCEPT ![arg[t].id] = row] /\ EndTx(t) /\ UNCHANGED <<walletStatus, config>>
        /\ MoveTx(arg[t].w, "wager", arg[t].id, arg[t].amount, arg[t].seen)
    BY <1>4 DEF CommitOpen
  <2> HIDE DEF row
  <2>4. balance' \in [Wallets -> Int] /\ ledger' \in [Wallets -> Seq(Entry)]
    BY <1>0, <2>1, <2>3, MoveTxType DEF Kinds
  <2> QED
    BY <1>0, <2>1, <2>2, <2>3, <2>4, WritesRow, EndTypes DEF Typed, TypeOK, WalletTypeOK
<1>5. CASE CommitPlay(t)
  <2>1. /\ pc[t] \in InsertedSteps /\ arg[t].id \in RoundIds /\ order[t].body \in Body
        /\ order[t].outcome \in Outcomes
    BY <1>0, <1>5 DEF CommitPlay, CallTypes, InsertedSteps, OpenSteps
  <2> DEFINE row == NewRound(t, order[t].body.params, "settled", order[t].outcome)
  <2>2. row \in Round
    <3>1. /\ order[t].outcome.win \in Nat \cup {None} /\ order[t].outcome.multiplier \in Nat \cup {None}
          /\ order[t].body.params \in Params
      BY <2>1, BodyTypes, OutcomeTypes
    <3> QED
      BY <2>1, <3>1, NewRoundType
  <2>3. /\ rounds' = [rounds EXCEPT ![arg[t].id] = row] /\ EndTx(t) /\ UNCHANGED <<walletStatus, config>>
        /\ PostPlay(order[t].body.w, arg[t].id, order[t].body.stake, order[t].outcome.win, arg[t].seen)
    BY <1>5 DEF CommitPlay
  <2> HIDE DEF row
  <2>4. balance' \in [Wallets -> Int] /\ ledger' \in [Wallets -> Seq(Entry)]
    BY <1>0, <2>1, <2>3, BodyTypes, OutcomeTypes, PostPlayWrites
  <2> QED
    BY <1>0, <2>1, <2>2, <2>3, <2>4, WritesRow, EndTypes DEF Typed, TypeOK, WalletTypeOK
<1>6. CASE CommitClose(t)
  <2>1. /\ EndTx(t) /\ UNCHANGED <<walletStatus, config>>
        /\ \/ MoveTx(arg[t].w, KindOf(t), arg[t].id, arg[t].amount, arg[t].seen)
           \/ UNCHANGED <<balance, ledger>>
    BY <1>6 DEF CommitClose
  <2>2. /\ arg[t].id \in RoundIds /\ ClosedRow(t) \in Round
        /\ rounds' = [rounds EXCEPT ![arg[t].id] = ClosedRow(t)]
    BY <1>6, ClosedRowType
  <2>3. arg[t].w \in Wallets /\ KindOf(t) \in Kinds /\ arg[t].id \in Ids
    BY <1>0, <1>6, <2>2 DEF CommitClose, CallTypes, CloseSteps, KindOf, Kinds
  <2>4. balance' \in [Wallets -> Int] /\ ledger' \in [Wallets -> Seq(Entry)]
    BY <1>0, <2>1, <2>3, MoveTxType DEF WalletTypeOK
  <2> QED
    BY <1>0, <2>1, <2>2, <2>4, WritesRow, EndTypes DEF Typed, TypeOK, WalletTypeOK
<1> QED
  BY <1>1, <1>2, <1>3, <1>4, <1>5, <1>6 DEF Continue

LEMMA TypedOutside ==
    ASSUME Typed,
           \/ \E w \in Wallets, status \in WalletStatus : SetWalletStatus(w, status) /\ UNCHANGED roundVars
           \/ \E g \in Games, status \in {"active", "inactive"}, limit \in Limits : UpdateGame(g, status, limit)
           \/ \E g \in Games, rtp \in Options : SetRTP(g, rtp)
           \/ UNCHANGED vars
    PROVE  Typed'
<1>0. TypeOK /\ WalletTypeOK /\ arg \in [Calls -> Args] /\ \A c \in Calls : CallTypes(c)
  BY DEF Typed, TypeOK
<1>1. ASSUME NEW w \in Wallets, NEW status \in WalletStatus, SetWalletStatus(w, status), UNCHANGED roundVars
      PROVE  Typed'
  BY <1>0, <1>1 DEF SetWalletStatus, roundVars, Typed, TypeOK, WalletTypeOK, CallTypes
<1>2. ASSUME NEW g \in Games, NEW status \in {"active", "inactive"}, NEW limit \in Limits,
             UpdateGame(g, status, limit)
      PROVE  Typed'
  <2>1. /\ config' \in [Games -> Config] /\ \A x \in Games : config'[x].rtp = config[x].rtp
        /\ UNCHANGED <<walletVars, pc, arg, rounds, gameLock>>
    <3>1. config' = [config EXCEPT ![g].status = status, ![g].limit = limit]
      BY <1>2 DEF UpdateGame
    <3>2. config[g] \in Config
      BY <1>0 DEF TypeOK
    <3>3. config' = [config EXCEPT ![g] = [config[g] EXCEPT !.status = status, !.limit = limit]]
      BY <1>0, <3>1, <3>2 DEF TypeOK, Config
    <3> QED
      BY <1>0, <1>2, <3>2, <3>3 DEF UpdateGame, TypeOK, Config
  <2>2. ASSUME NEW c \in Calls
        PROVE  /\ \/ order'[c] = order[c]
                  \/ pc[c] = "asked" /\ order[c] \in Order /\ order'[c] = [order[c] EXCEPT !.replaced = TRUE]
               /\ pc[c] # "asked" => order'[c] = order[c]
    BY <1>0, <1>2 DEF UpdateGame, CallTypes, OpenSteps
  <2>3. ASSUME NEW c \in Calls
        PROVE  /\ order'[c] \in Order \cup {None}
               /\ order[c] \in Order =>
                     order'[c] \in Order /\ order'[c].body = order[c].body /\ order'[c].op = order[c].op
                     /\ order'[c].outcome = order[c].outcome
    <3>1. ASSUME NEW o \in Order
          PROVE  LET r == [o EXCEPT !.replaced = TRUE]
                 IN  r \in Order /\ r.body = o.body /\ r.op = o.op /\ r.outcome = o.outcome
      BY DEF Order
    <3>2. CASE order'[c] = order[c]
      BY <1>0, <3>2 DEF TypeOK
    <3>3. CASE order[c] \in Order /\ order'[c] = [order[c] EXCEPT !.replaced = TRUE]
      <4> PICK o \in Order : o = order[c] /\ order'[c] = [o EXCEPT !.replaced = TRUE]
        BY <3>3
      <4> QED
        BY <3>1
    <3> QED
      BY <2>2, <3>2, <3>3
  <2>4. order' \in [Calls -> Order \cup {None}]
    BY <1>2, <2>3 DEF UpdateGame
  <2>5. ASSUME NEW c \in Calls PROVE CallTypes(c)'
    <3>1. CASE pc[c] = "asked"
      BY <1>0, <2>1, <2>3, <3>1 DEF CallTypes, OpenSteps, EnteredSteps, InsertedSteps, CloseSteps
    <3>2. CASE pc[c] # "asked"
      <4>1. CallTypes(c) /\ order'[c] = order[c] /\ UNCHANGED <<pc, arg, rounds>>
        BY <1>0, <2>1, <2>2, <3>2
      <4>2. pc[c] \in InsertedSteps => order[c].body.game \in Games
        BY <4>1, BodyTypes DEF CallTypes, OpenSteps, InsertedSteps
      <4> QED
        BY <2>1, <4>1, <4>2 DEF CallTypes
    <3> QED
      BY <3>1, <3>2
  <2> QED
    BY <1>0, <2>1, <2>4, <2>5 DEF Typed, TypeOK, walletVars, WalletTypeOK
<1>3. ASSUME NEW g \in Games, NEW rtp \in Options, SetRTP(g, rtp) PROVE Typed'
  <2>1. /\ config' \in [Games -> Config]
        /\ \A x \in Games : config[x].rtp \in Options => config'[x].rtp \in Options
        /\ UNCHANGED <<walletVars, pc, arg, rounds, gameLock, order>>
    <3>1. config' = [config EXCEPT ![g].rtp = rtp]
      BY <1>3 DEF SetRTP
    <3>2. config[g] \in Config
      BY <1>0 DEF TypeOK
    <3>3. config' = [config EXCEPT ![g] = [config[g] EXCEPT !.rtp = rtp]]
      BY <1>0, <3>1, <3>2 DEF TypeOK, Config
    <3> QED
      BY <1>0, <1>3, <3>2, <3>3 DEF SetRTP, TypeOK, Config
  <2>2. ASSUME NEW c \in Calls PROVE CallTypes(c)'
    <3>1. CallTypes(c) /\ (pc[c] \in InsertedSteps => order[c].body.game \in Games)
      BY <1>0, BodyTypes DEF CallTypes, OpenSteps, InsertedSteps
    <3> QED
      BY <2>1, <3>1 DEF CallTypes
  <2> QED
    BY <1>0, <2>1, <2>2 DEF Typed, TypeOK, walletVars, WalletTypeOK
<1>4. CASE UNCHANGED vars
  BY <1>0, <1>4 DEF vars, walletVars, roundVars, Typed, TypeOK, WalletTypeOK, CallTypes
<1> QED
  BY <1>1, <1>2, <1>3, <1>4

LEMMA TypedNext == Typed /\ [Next]_vars => Typed'
<1> SUFFICES ASSUME Typed, [Next]_vars PROVE Typed'
  OBVIOUS
<1>1. ASSUME NEW t \in Calls, Abort(t) PROVE Typed'
  BY <1>1, TypedEnd DEF Abort
<1> QED
  BY <1>1, TypedBegin, TypedContinue, TypedBlocking, TypedOutside DEF Next

\* The rows, the games and the calls keep their types, for every instance: a round is
\* bound to a return the engine ships though a game starts without one.
THEOREM TypeCorrect == Spec => []TypeOK
<1>1. Spec => []Typed
  BY TypedInit, TypedNext, PTL DEF Spec
<1> QED
  BY <1>1, PTL DEF Typed

-----------------------------------------------------------------------------
(* What each row says *)

\* What the ledger of wallet w must say of a round with this row.
Said(row, w) ==
    IF row = None THEN {}
    ELSE IF row.w # w THEN {}
    ELSE {<<"wager", -row.stake>>} \cup
            CASE row.status = "open" -> {}
              [] row.status = "settled" -> IF row.win > 0 THEN {<<"win", row.win>>} ELSE {}
              [] row.status \in {"cancelled", "failed"} -> {<<"refund", row.stake>>}

LEMMA MoneyByRow ==
    /\ MoneyFollowsRound <=> \A id \in RoundIds, w \in Wallets : PostedFor(w, id) = Said(rounds[id], w)
    /\ MoneyFollowsRound' <=> \A id \in RoundIds, w \in Wallets : PostedFor(w, id)' = Said(rounds'[id], w)
<1>1. MoneyFollowsRound <=> \A id \in RoundIds, w \in Wallets : PostedFor(w, id) = Said(rounds[id], w)
  BY DEF MoneyFollowsRound, PostedFor, Said
<1>2. MoneyFollowsRound' <=> \A id \in RoundIds, w \in Wallets : PostedFor(w, id)' = Said(rounds'[id], w)
  BY DEF MoneyFollowsRound, PostedFor, Said
<1> QED
  BY <1>1, <1>2

LEMMA SaidByStatus ==
    ASSUME NEW row \in Round
    PROVE  /\ \A w : row.w # w => Said(row, w) = {}
           /\ row.status = "open" => Said(row, row.w) = {<<"wager", -row.stake>>}
           /\ row.status = "settled" =>
                 Said(row, row.w) = {<<"wager", -row.stake>>} \cup IF row.win > 0 THEN {<<"win", row.win>>} ELSE {}
           /\ row.status \in {"cancelled", "failed"} =>
                 Said(row, row.w) = {<<"wager", -row.stake>>, <<"refund", row.stake>>}
<1>1. row # None
  OBVIOUS
<1>2. \A w : row.w # w => Said(row, w) = {}
  BY <1>1 DEF Said
<1>3. CASE row.status = "open"
  BY <1>1, <1>2, <1>3, Zenon DEF Said
<1>4. CASE row.status = "settled"
  BY <1>1, <1>2, <1>4, Zenon DEF Said
<1>5. CASE row.status \in {"cancelled", "failed"}
  BY <1>1, <1>2, <1>5, Zenon DEF Said
<1>6. row.status \in {"open", "settled", "cancelled", "failed"}
  BY DEF Round
<1> QED
  BY <1>2, <1>3, <1>4, <1>5, <1>6

BigRow(row) == row.win > 0 /\ BigWin > 0 /\ row.multiplier >= BigWin

LEMMA TellsByRow ==
    /\ BigWinsAreTold <=>
          /\ \A n \in notices : /\ n.id \in RoundIds /\ rounds[n.id] # None
                                /\ rounds[n.id].status = "settled" /\ rounds[n.id].win = n.amount
          /\ \A id \in RoundIds : rounds[id] # None /\ rounds[id].status = "settled" =>
                (BigRow(rounds[id]) <=> \E n \in notices : n.id = id)
    /\ BigWinsAreTold' <=>
          /\ \A n \in notices' : /\ n.id \in RoundIds /\ rounds'[n.id] # None
                                 /\ rounds'[n.id].status = "settled" /\ rounds'[n.id].win = n.amount
          /\ \A id \in RoundIds : rounds'[id] # None /\ rounds'[id].status = "settled" =>
                (BigRow(rounds'[id]) <=> \E n \in notices' : n.id = id)
<1>1. BigWinsAreTold <=>
          /\ \A n \in notices : /\ n.id \in RoundIds /\ rounds[n.id] # None
                                /\ rounds[n.id].status = "settled" /\ rounds[n.id].win = n.amount
          /\ \A id \in RoundIds : rounds[id] # None /\ rounds[id].status = "settled" =>
                (BigRow(rounds[id]) <=> \E n \in notices : n.id = id)
  BY DEF BigWinsAreTold, Recorded, BigRow
<1>2. BigWinsAreTold' <=>
          /\ \A n \in notices' : /\ n.id \in RoundIds /\ rounds'[n.id] # None
                                 /\ rounds'[n.id].status = "settled" /\ rounds'[n.id].win = n.amount
          /\ \A id \in RoundIds : rounds'[id] # None /\ rounds'[id].status = "settled" =>
                (BigRow(rounds'[id]) <=> \E n \in notices' : n.id = id)
  BY DEF BigWinsAreTold, Recorded, BigRow
<1> QED
  BY <1>1, <1>2

\* An answer is the row it names.
TrueOf(a, row) ==
    /\ row # None
    /\ row.key = a.body.key /\ row.game = a.body.game /\ row.w = a.body.w /\ row.stake = a.body.stake
    /\ a.op = "play" => row.status # "open" /\ row.params = a.body.params /\ row.win = a.win

LEMMA KeysByRow ==
    /\ OneRoundPerKey <=>
          /\ \A id, other \in RoundIds : rounds[id] # None /\ rounds[other] # None
                                         /\ rounds[id].key = rounds[other].key => id = other
          /\ \A a \in answers : a.id \in RoundIds /\ TrueOf(a, rounds[a.id])
    /\ OneRoundPerKey' <=>
          /\ \A id, other \in RoundIds : rounds'[id] # None /\ rounds'[other] # None
                                         /\ rounds'[id].key = rounds'[other].key => id = other
          /\ \A a \in answers' : a.id \in RoundIds /\ TrueOf(a, rounds'[a.id])
<1>1. OneRoundPerKey <=>
          /\ \A id, other \in RoundIds : rounds[id] # None /\ rounds[other] # None
                                         /\ rounds[id].key = rounds[other].key => id = other
          /\ \A a \in answers : a.id \in RoundIds /\ TrueOf(a, rounds[a.id])
  BY DEF OneRoundPerKey, Recorded, ByKey, TrueOf
<1>2. OneRoundPerKey' <=>
          /\ \A id, other \in RoundIds : rounds'[id] # None /\ rounds'[other] # None
                                         /\ rounds'[id].key = rounds'[other].key => id = other
          /\ \A a \in answers' : a.id \in RoundIds /\ TrueOf(a, rounds'[a.id])
  BY DEF OneRoundPerKey, Recorded, ByKey, TrueOf
<1> QED
  BY <1>1, <1>2

LEMMA KeyAbsent ==
    \A key : /\ ByKey(key) = {} <=> \A id \in RoundIds : rounds[id] # None => rounds[id].key # key
             /\ ByKey(key)' = {} <=> \A id \in RoundIds : rounds'[id] # None => rounds'[id].key # key
BY DEF ByKey, Recorded

RowsSound == MoneyFollowsRound /\ OneRoundPerKey /\ BigWinsAreTold

-----------------------------------------------------------------------------
(* A row is written *)

Writes(k, row) == rounds' = [rounds EXCEPT ![k] = row]

LEMMA MoneyCommits ==
    ASSUME TypeOK, MoneyFollowsRound, NEW k \in RoundIds, NEW row \in Round, Writes(k, row),
           \A id \in RoundIds, w \in Wallets :
               PostedFor(w, id)' = IF id = k THEN Said(row, w) ELSE PostedFor(w, id)
    PROVE  MoneyFollowsRound'
<1>1. /\ rounds'[k] = row /\ \A i \in RoundIds \ {k} : rounds'[i] = rounds[i]
  BY WritesRow DEF Writes
<1>2. \A id \in RoundIds, w \in Wallets : PostedFor(w, id) = Said(rounds[id], w)
  BY MoneyByRow
<1>3. \A id \in RoundIds, w \in Wallets : PostedFor(w, id)' = Said(rounds'[id], w)
  BY <1>1, <1>2
<1> QED
  BY <1>3, MoneyByRow

LEMMA BigWinCommits ==
    ASSUME TypeOK, BigWinsAreTold, NEW k \in RoundIds, NEW row \in Round, Writes(k, row),
           rounds[k] = None \/ rounds[k].status # "settled",
           notices' = IF row.status = "settled" /\ BigRow(row)
                      THEN notices \cup {[id |-> k, amount |-> row.win]} ELSE notices
    PROVE  BigWinsAreTold'
<1>1. /\ rounds'[k] = row /\ row # None /\ \A i \in RoundIds \ {k} : rounds'[i] = rounds[i]
  BY WritesRow DEF Writes
<1>2. /\ \A n \in notices : /\ n.id \in RoundIds /\ rounds[n.id] # None
                            /\ rounds[n.id].status = "settled" /\ rounds[n.id].win = n.amount
      /\ \A id \in RoundIds : rounds[id] # None /\ rounds[id].status = "settled" =>
            (BigRow(rounds[id]) <=> \E n \in notices : n.id = id)
  BY TellsByRow
<1>3. \A n \in notices : n.id # k
  BY <1>2
<1>4. CASE row.status = "settled" /\ BigRow(row)
  <2> DEFINE new == [id |-> k, amount |-> row.win]
  <2>1. notices' = notices \cup {new} /\ new.id = k /\ new.amount = row.win
    BY <1>4
  <2> HIDE DEF new
  <2>2. \A n \in notices' : /\ n.id \in RoundIds /\ rounds'[n.id] # None
                            /\ rounds'[n.id].status = "settled" /\ rounds'[n.id].win = n.amount
    BY <1>1, <1>2, <1>3, <1>4, <2>1
  <2>3. \A id \in RoundIds : rounds'[id] # None /\ rounds'[id].status = "settled" =>
            (BigRow(rounds'[id]) <=> \E n \in notices' : n.id = id)
    BY <1>1, <1>2, <1>3, <1>4, <2>1
  <2> QED
    BY <2>2, <2>3, TellsByRow
<1>5. CASE ~(row.status = "settled" /\ BigRow(row))
  <2>1. notices' = notices
    BY <1>5
  <2>2. \A n \in notices' : /\ n.id \in RoundIds /\ rounds'[n.id] # None
                            /\ rounds'[n.id].status = "settled" /\ rounds'[n.id].win = n.amount
    BY <1>1, <1>2, <1>3, <2>1
  <2>3. \A id \in RoundIds : rounds'[id] # None /\ rounds'[id].status = "settled" =>
            (BigRow(rounds'[id]) <=> \E n \in notices' : n.id = id)
    BY <1>1, <1>2, <1>3, <1>5, <2>1
  <2> QED
    BY <2>2, <2>3, TellsByRow
<1> QED
  BY <1>4, <1>5

\* A new round has a key of its own and is what its call answers with.
LEMMA NewKeyCommits ==
    ASSUME TypeOK, OneRoundPerKey, NEW k \in RoundIds, NEW row \in Round, Writes(k, row),
           rounds[k] = None, ByKey(row.key) = {},
           NEW a, answers' = answers \cup {a}, a.id = k, TrueOf(a, row)
    PROVE  OneRoundPerKey'
<1>1. /\ rounds'[k] = row /\ row # None /\ \A i \in RoundIds \ {k} : rounds'[i] = rounds[i]
  BY WritesRow DEF Writes
<1>2. /\ \A id, other \in RoundIds : rounds[id] # None /\ rounds[other] # None
                                     /\ rounds[id].key = rounds[other].key => id = other
      /\ \A x \in answers : x.id \in RoundIds /\ TrueOf(x, rounds[x.id])
      /\ \A id \in RoundIds : rounds[id] # None => rounds[id].key # row.key
  BY KeysByRow, KeyAbsent
<1>3. \A x \in answers : x.id # k
  BY <1>2 DEF TrueOf
<1>4. \A id, other \in RoundIds : rounds'[id] # None /\ rounds'[other] # None
                                  /\ rounds'[id].key = rounds'[other].key => id = other
  BY <1>1, <1>2
<1>5. \A x \in answers' : x.id \in RoundIds /\ TrueOf(x, rounds'[x.id])
  BY <1>1, <1>2, <1>3
<1> QED
  BY <1>4, <1>5, KeysByRow

\* A round that closes stays what was asked, and no Play had answered with it.
LEMMA CloseKeepsKey ==
    ASSUME TypeOK, OneRoundPerKey, NEW k \in RoundIds, NEW row \in Round, Writes(k, row),
           rounds[k] # None, rounds[k].status = "open",
           row.key = rounds[k].key, row.w = rounds[k].w, row.game = rounds[k].game,
           row.stake = rounds[k].stake, UNCHANGED answers
    PROVE  OneRoundPerKey'
<1>1. /\ rounds'[k] = row /\ row # None /\ \A i \in RoundIds \ {k} : rounds'[i] = rounds[i]
  BY WritesRow DEF Writes
<1>2. /\ \A id, other \in RoundIds : rounds[id] # None /\ rounds[other] # None
                                     /\ rounds[id].key = rounds[other].key => id = other
      /\ \A a \in answers : a.id \in RoundIds /\ TrueOf(a, rounds[a.id])
  BY KeysByRow
<1>3. \A id, other \in RoundIds : rounds'[id] # None /\ rounds'[other] # None
                                  /\ rounds'[id].key = rounds'[other].key => id = other
  BY <1>1, <1>2
<1>4. ASSUME NEW a \in answers PROVE a.id \in RoundIds /\ TrueOf(a, rounds'[a.id])
  <2>1. CASE a.id = k
    BY <1>1, <1>2, <2>1 DEF TrueOf
  <2>2. CASE a.id # k
    BY <1>1, <1>2, <2>2
  <2> QED
    BY <2>1, <2>2
<1> QED
  BY <1>3, <1>4, KeysByRow

\* A step that writes no row answers, if it does, with one that is there.
Uncommitted ==
    /\ UNCHANGED <<rounds, notices>>
    /\ UNCHANGED answers \/ \E op, body : AnswerRecorded(op, body)
    /\ \A id \in RoundIds, w \in Wallets : PostedFor(w, id)' = PostedFor(w, id)

LEMMA RowsStay ==
    ASSUME RowsSound, Uncommitted
    PROVE  RowsSound'
<1>1. MoneyFollowsRound'
  BY MoneyByRow DEF RowsSound, Uncommitted
<1>2. BigWinsAreTold'
  BY TellsByRow DEF RowsSound, Uncommitted
<1>3. OneRoundPerKey'
  <2>1. /\ \A id, other \in RoundIds : rounds[id] # None /\ rounds[other] # None
                                       /\ rounds[id].key = rounds[other].key => id = other
        /\ \A a \in answers : a.id \in RoundIds /\ TrueOf(a, rounds[a.id])
    BY KeysByRow DEF RowsSound
  <2>2. \A a \in answers' : a.id \in RoundIds /\ TrueOf(a, rounds[a.id])
    <3>1. CASE UNCHANGED answers
      BY <2>1, <3>1
    <3>2. ASSUME NEW op, NEW body, AnswerRecorded(op, body)
          PROVE  \A a \in answers' : a.id \in RoundIds /\ TrueOf(a, rounds[a.id])
      <4>1. ASSUME NEW a \in answers', a \notin answers
            PROVE  a.id \in RoundIds /\ TrueOf(a, rounds[a.id])
        <5>1. PICK id \in ByKey(body.key) : /\ sameOpenRequest(id, body)
                                            /\ op = "play" => Replayable(id, body)
                                            /\ a = [op |-> op, body |-> body, id |-> id, win |-> rounds[id].win]
          BY <3>2, <4>1 DEF AnswerRecorded
        <5>2. id \in RoundIds /\ rounds[id] # None /\ rounds[id].key = body.key
          BY DEF ByKey, Recorded
        <5>3. a.op = op /\ a.body = body /\ a.id = id /\ a.win = rounds[id].win
          BY <5>1
        <5> QED
          BY <5>1, <5>2, <5>3 DEF TrueOf, sameOpenRequest, Replayable
      <4> QED
        BY <2>1, <4>1
    <3> QED
      BY <3>1, <3>2 DEF Uncommitted
  <2> QED
    BY <2>1, <2>2, KeysByRow DEF Uncommitted
<1> QED
  BY <1>1, <1>2, <1>3 DEF RowsSound

-----------------------------------------------------------------------------
(* The calls in flight *)

WalletSteps == {"adjusted", "closed"} \cup EnteredSteps

\* A call that has its wallet's lock read the balance the wallet still has, and its
\* movements fit.
Paying(c) ==
    /\ pc[c] \in WalletSteps => walletLock[arg[c].w] = c
    /\ pc[c] \in WalletSteps \ {"entered"} => arg[c].seen = balance[arg[c].w]
    /\ pc[c] \in {"adjusted", "closed"} \cup InsertedSteps => arg[c].seen + arg[c].amount \in 0..MaxSafe
    /\ pc[c] = "decided" => arg[c].seen + arg[c].amount + order[c].outcome.win \in 0..MaxSafe

\* A call past lockGame holds the game as it was checked; past the insert, its round
\* and its key are still absent.
Playing(c) ==
    /\ pc[c] \in GameSteps =>
          gameLock[order[c].body.game] = c /\ config[order[c].body.game].status = "active"
    /\ pc[c] \in InsertedSteps =>
          Playable(c) /\ rounds[arg[c].id] = None /\ ByKey(order[c].body.key) = {}

\* A call that closes a round has that round's wallet, and once it has the lock the
\* round is still open and owes what the call is about to pay.
Closing(c) ==
    /\ pc[c] \in CloseSteps => rounds[arg[c].id].w = arg[c].w
    /\ pc[c] = "closed" => rounds[arg[c].id].status = "open" /\ arg[c].amount = Due(c)

Ready(c) == Paying(c) /\ Playing(c) /\ Closing(c)

\* No two inserts that are not committed have the same id or the same key.
Apart ==
    \A c \in Calls : \A d \in Calls \ {c} :
        pc[c] \in InsertedSteps /\ pc[d] \in InsertedSteps =>
            arg[c].id # arg[d].id /\ order[c].body.key # order[d].body.key

AllReady == Apart /\ \A c \in Calls : Ready(c)

RoundInv == Typed /\ LedgerSound /\ RowsSound /\ AllReady

\* A call stays ready while nobody touches what it has locked or counts on.
LEMMA StaysReady ==
    ASSUME Typed, NEW c \in Calls, Ready(c), pc'[c] = pc[c], arg'[c] = arg[c],
           pc[c] # "asked" => order'[c] = order[c],
           pc[c] \in WalletSteps => walletLock'[arg[c].w] = c /\ balance'[arg[c].w] = balance[arg[c].w],
           pc[c] \in GameSteps =>
               gameLock'[order[c].body.game] = c /\ config'[order[c].body.game] = config[order[c].body.game],
           pc[c] \in InsertedSteps => rounds'[arg[c].id] = None /\ ByKey(order[c].body.key)' = {},
           pc[c] \in CloseSteps => rounds'[arg[c].id].w = rounds[arg[c].id].w,
           pc[c] = "closed" => rounds'[arg[c].id] = rounds[arg[c].id]
    PROVE  Ready(c)'
<1>0. Paying(c) /\ Playing(c) /\ Closing(c)
  BY DEF Ready
<1>1. Paying(c)'
  <2>1. pc[c] \in WalletSteps => order'[c] = order[c]
    BY DEF WalletSteps, EnteredSteps
  <2> QED
    BY <1>0, <2>1 DEF Paying, WalletSteps, EnteredSteps, InsertedSteps
<1>2. Playing(c)'
  <2>1. pc[c] \in GameSteps => order'[c] = order[c]
    BY DEF GameSteps, EnteredSteps
  <2>2. pc[c] \in InsertedSteps => pc[c] \in GameSteps
    BY DEF GameSteps, EnteredSteps, InsertedSteps
  <2>3. pc[c] \in InsertedSteps => Playable(c)'
    BY <1>0, <2>1, <2>2 DEF Playing, Playable
  <2> QED
    BY <1>0, <2>1, <2>2, <2>3 DEF Playing
<1>3. Closing(c)'
  <2>1. pc[c] \in CloseSteps => order'[c] = order[c]
    BY DEF CloseSteps
  <2>2. pc[c] = "closed" => pc[c] \in CloseSteps /\ Due(c)' = Due(c)
    BY <2>1 DEF CloseSteps, Due
  <2> QED
    BY <1>0, <2>1, <2>2 DEF Closing
<1> QED
  BY <1>1, <1>2, <1>3 DEF Ready

\* Inserts stay apart while none is added.
LEMMA StaysApart ==
    ASSUME Apart,
           \A c \in Calls : pc'[c] \in InsertedSteps =>
               pc[c] \in InsertedSteps /\ arg'[c].id = arg[c].id /\ order'[c].body = order[c].body
    PROVE  Apart'
BY DEF Apart

\* A call with nothing locked.
LEMMA NothingReady ==
    ASSUME NEW t \in Calls, pc'[t] \in {"idle", "asked", "unsupported"}
    PROVE  Ready(t)' /\ pc'[t] \notin InsertedSteps
BY DEF Ready, Paying, Playing, Closing, WalletSteps, GameSteps, EnteredSteps, InsertedSteps, CloseSteps

\* What one call leaves to the others.
Alone(t) ==
    \A c \in Calls \ {t} : pc'[c] = pc[c] /\ arg'[c] = arg[c] /\ order'[c] = order[c]

KeepsLocks(t) ==
    /\ \A w \in Wallets : walletLock[w] \notin {None, t} => walletLock'[w] = walletLock[w]
    /\ \A g \in Games : gameLock[g] \notin {None, t} => gameLock'[g] = gameLock[g]

LEMMA EndKeeps ==
    ASSUME Typed, NEW t \in Calls, EndTx(t)
    PROVE  Alone(t) /\ KeepsLocks(t) /\ pc'[t] = "idle"
BY DEF Typed, TypeOK, EndTx, Finish, UnlockWallets, UnlockGames, Alone, KeepsLocks

\* The rows the others hold are not t's.
LEMMA Holdings ==
    ASSUME Typed, AllReady, NEW t \in Calls, NEW c \in Calls \ {t}
    PROVE  /\ pc[c] \in WalletSteps =>
                 arg[c].w \in Wallets /\ walletLock[arg[c].w] = c /\ walletLock[arg[c].w] \notin {None, t}
           /\ pc[c] \in GameSteps =>
                 order[c].body.game \in Games /\ gameLock[order[c].body.game] = c
                 /\ gameLock[order[c].body.game] \notin {None, t}
           /\ pc[c] \in WalletSteps /\ pc[t] \in WalletSteps => arg[c].w # arg[t].w
<1>1. \A d \in Calls : Paying(d) /\ Playing(d) /\ CallTypes(d)
  BY DEF AllReady, Ready, Typed
<1>2. None \notin Calls
  OBVIOUS
<1>3. \A d \in Calls : pc[d] \in WalletSteps => arg[d].w \in Wallets /\ walletLock[arg[d].w] = d
  BY <1>1 DEF Paying, CallTypes, WalletSteps, CloseSteps
<1>4. pc[c] \in GameSteps => order[c].body.game \in Games /\ gameLock[order[c].body.game] = c
  BY <1>1, BodyTypes, StepSets DEF Playing, CallTypes
<1> QED
  BY <1>2, <1>3, <1>4

\* A step of t that writes no row, and no balance but its own wallet's, leaves the
\* others ready.
LEMMA OthersReady ==
    ASSUME Typed, AllReady, NEW t \in Calls, Alone(t), KeepsLocks(t), UNCHANGED <<rounds, config>>,
           \/ UNCHANGED balance
           \/ pc[t] \in WalletSteps /\ \A v \in Wallets : v # arg[t].w => balance'[v] = balance[v]
    PROVE  \A c \in Calls \ {t} : Ready(c)'
<1> SUFFICES ASSUME NEW c \in Calls \ {t} PROVE Ready(c)'
  OBVIOUS
<1>1. Ready(c) /\ pc'[c] = pc[c] /\ arg'[c] = arg[c] /\ order'[c] = order[c]
  BY DEF AllReady, Alone
<1>2. /\ pc[c] \in WalletSteps => walletLock'[arg[c].w] = c /\ balance'[arg[c].w] = balance[arg[c].w]
      /\ pc[c] \in GameSteps => gameLock'[order[c].body.game] = c
  BY Holdings DEF KeepsLocks
<1>3. pc[c] \in InsertedSteps => rounds[arg[c].id] = None /\ ByKey(order[c].body.key) = {}
  BY <1>1 DEF Ready, Playing
<1>4. pc[c] \in InsertedSteps => rounds'[arg[c].id] = None /\ ByKey(order[c].body.key)' = {}
  BY <1>1, <1>3 DEF ByKey, Recorded
<1> QED
  BY <1>1, <1>2, <1>4, StaysReady

LEMMA StepReady ==
    ASSUME Typed, AllReady, NEW t \in Calls, Alone(t), KeepsLocks(t), UNCHANGED <<rounds, config, balance>>,
           Ready(t)',
           pc'[t] \in InsertedSteps =>
               pc[t] \in InsertedSteps /\ arg'[t].id = arg[t].id /\ order'[t].body = order[t].body
    PROVE  AllReady'
<1>1. \A c \in Calls \ {t} : Ready(c)'
  BY OthersReady
<1>2. Apart'
  BY StaysApart DEF AllReady, Alone
<1> QED
  BY <1>1, <1>2 DEF AllReady

\* So does one that ends, for t too.
LEMMA EndReady ==
    ASSUME Typed, AllReady, NEW t \in Calls, EndTx(t), UNCHANGED <<rounds, config, balance>>
    PROVE  AllReady'
<1>1. Alone(t) /\ KeepsLocks(t) /\ pc'[t] = "idle"
  BY EndKeeps
<1>2. Ready(t)' /\ pc'[t] \notin InsertedSteps
  BY <1>1, NothingReady
<1> QED
  BY <1>1, <1>2, StepReady

\* A commit writes the row its call inserted or locked, and the balance of its wallet.
LEMMA CommitReady ==
    ASSUME Typed, AllReady, NEW t \in Calls, EndTx(t), UNCHANGED config,
           NEW k \in RoundIds, k = arg[t].id, NEW row \in Round, Writes(k, row),
           \A v \in Wallets : v # arg[t].w => balance'[v] = balance[v],
           \/ pc[t] \in InsertedSteps /\ row.key = order[t].body.key
           \/ pc[t] = "closed" /\ row.key = rounds[k].key /\ row.w = rounds[k].w
    PROVE  AllReady'
<1>1. Alone(t) /\ KeepsLocks(t) /\ pc'[t] = "idle"
  BY EndKeeps
<1>2. Ready(t)' /\ pc'[t] \notin InsertedSteps
  BY <1>1, NothingReady
<1>3. ASSUME NEW c \in Calls \ {t} PROVE Ready(c)'
  <2>1. /\ Ready(c) /\ pc'[c] = pc[c] /\ arg'[c] = arg[c] /\ order'[c] = order[c]
        /\ CallTypes(c) /\ CallTypes(t) /\ Playing(c) /\ Playing(t) /\ Closing(c) /\ Closing(t)
    BY <1>1 DEF AllReady, Ready, Alone, Typed
  <2>2. /\ rounds'[k] = row /\ row # None /\ \A i \in RoundIds \ {k} : rounds'[i] = rounds[i]
    BY WritesRow DEF Writes, Typed
  <2>3. pc[t] \in WalletSteps
    BY DEF WalletSteps, EnteredSteps, InsertedSteps
  <2>4. /\ pc[c] \in WalletSteps => walletLock'[arg[c].w] = c /\ balance'[arg[c].w] = balance[arg[c].w]
        /\ pc[c] \in GameSteps => gameLock'[order[c].body.game] = c
    BY <1>1, <2>3, Holdings DEF KeepsLocks
  <2>5. pc[c] \in InsertedSteps => rounds'[arg[c].id] = None /\ ByKey(order[c].body.key)' = {}
    <3> SUFFICES ASSUME pc[c] \in InsertedSteps
                 PROVE  rounds'[arg[c].id] = None /\ ByKey(order[c].body.key)' = {}
      OBVIOUS
    <3>1. /\ arg[c].id \in RoundIds /\ rounds[arg[c].id] = None
          /\ \A id \in RoundIds : rounds[id] # None => rounds[id].key # order[c].body.key
      BY <2>1 DEF CallTypes, Playing, ByKey, Recorded
    <3>2. arg[c].id # k /\ row.key # order[c].body.key
      <4>1. CASE pc[t] \in InsertedSteps /\ row.key = order[t].body.key
        BY <4>1 DEF AllReady, Apart
      <4>2. CASE pc[t] = "closed" /\ row.key = rounds[k].key
        <5>1. rounds[k] # None
          BY <2>1, <4>2 DEF CallTypes, CloseSteps
        <5> QED
          BY <3>1, <4>2, <5>1
      <4> QED
        BY <4>1, <4>2
    <3>3. \A id \in RoundIds : rounds'[id] # None => rounds'[id].key # order[c].body.key
      BY <2>2, <3>1, <3>2
    <3>4. ByKey(order[c].body.key)' = {}
      BY <2>1, <3>3 DEF ByKey, Recorded
    <3> QED
      BY <2>2, <3>1, <3>2, <3>4
  <2>6. /\ pc[c] \in CloseSteps => rounds'[arg[c].id].w = rounds[arg[c].id].w
        /\ pc[c] = "closed" => rounds'[arg[c].id] = rounds[arg[c].id]
    <3> SUFFICES ASSUME pc[c] \in CloseSteps
                 PROVE  /\ rounds'[arg[c].id].w = rounds[arg[c].id].w
                        /\ pc[c] = "closed" => rounds'[arg[c].id] = rounds[arg[c].id]
      BY DEF CloseSteps
    <3>1. arg[c].id \in RoundIds /\ rounds[arg[c].id] # None /\ rounds[arg[c].id].w = arg[c].w
      BY <2>1 DEF CallTypes, Closing
    <3>2. CASE arg[c].id # k
      BY <2>2, <3>1, <3>2
    <3>3. CASE arg[c].id = k
      <4>1. pc[t] = "closed" /\ row.w = rounds[k].w
        BY <2>1, <3>1, <3>3 DEF Playing
      <4>2. rounds[k].w = arg[t].w
        BY <2>1, <4>1 DEF Closing, CloseSteps
      <4>3. pc[c] # "closed"
        BY <2>3, <3>1, <3>3, <4>2, Holdings DEF WalletSteps
      <4> QED
        BY <2>2, <3>3, <4>1, <4>3
    <3> QED
      BY <3>2, <3>3
  <2> QED
    BY <2>1, <2>4, <2>5, <2>6, StaysReady
<1>4. Apart'
  BY <1>1, <1>2, StaysApart DEF AllReady, Alone
<1> QED
  BY <1>2, <1>3, <1>4 DEF AllReady

-----------------------------------------------------------------------------
(* Init and every step *)

LEMMA RoundInit == Init => RoundInv
<1> SUFFICES ASSUME Init PROVE RoundInv
  OBVIOUS
<1>1. /\ \A c \in Calls : pc[c] = "idle"
      /\ \A id \in RoundIds : rounds[id] = None
      /\ \A w \in Wallets : ledger[w] = <<>> /\ balance[w] = 0
      /\ notices = {} /\ answers = {}
  BY DEF Init, WalletInit
<1>2. AllReady
  BY <1>1 DEF AllReady, Apart, Ready, Paying, Playing, Closing, WalletSteps, GameSteps, EnteredSteps,
              InsertedSteps, CloseSteps
<1>3. LedgerSound
  BY <1>1 DEF LedgerSound, StatementChains, Chained, BalancesInRange
<1>4. MoneyFollowsRound
  <2>1. \A w \in Wallets, id \in RoundIds : PostedFor(w, id) = {}
    BY <1>1 DEF PostedFor
  <2> QED
    BY <1>1, <2>1, MoneyByRow DEF Said
<1>5. OneRoundPerKey /\ BigWinsAreTold
  BY <1>1, KeysByRow, TellsByRow
<1> QED
  BY <1>2, <1>3, <1>4, <1>5, TypedInit DEF RoundInv, RowsSound

Sound == LedgerSound /\ RowsSound

\* A step that moves no money and writes no row.
LEMMA Quiet ==
    ASSUME Sound, UNCHANGED <<balance, ledger, rounds, notices>>,
           UNCHANGED answers \/ \E op, body : AnswerRecorded(op, body)
    PROVE  Sound'
<1>1. LedgerSound'
  BY DEF Sound, LedgerSound, StatementChains, Chained, BalancesInRange
<1>2. \A id \in RoundIds, w \in Wallets : PostedFor(w, id)' = PostedFor(w, id)
  BY DEF PostedFor
<1>3. RowsSound'
  BY <1>2, RowsStay DEF Sound, Uncommitted
<1> QED
  BY <1>1, <1>3 DEF Sound

LEMMA EndsSound ==
    ASSUME Typed, Sound, AllReady, NEW t \in Calls,
           AnswerUnsupported(t) \/ Replay(t) \/ Refuse(t) \/ Abort(t)
    PROVE  Sound' /\ AllReady'
<1>1. EndTx(t) /\ UNCHANGED <<balance, ledger, rounds, config, notices>>
  BY DEF AnswerUnsupported, Replay, Refuse, Abort
<1>2. UNCHANGED answers \/ \E op, body : AnswerRecorded(op, body)
  BY DEF AnswerUnsupported, Replay, Refuse, Abort
<1> QED
  BY <1>1, <1>2, Quiet, EndReady

LEMMA StartsSound ==
    ASSUME Typed, Sound, AllReady, NEW t \in Calls, Begin(t)
    PROVE  Sound' /\ AllReady'
<1>0. TypeOK /\ WalletTypeOK /\ arg \in [Calls -> Args] /\ order \in [Calls -> Order \cup {None}]
      /\ pc \in [Calls -> Steps] /\ BalancesInRange
  BY DEF Typed, TypeOK, Sound, LedgerSound
<1>1. ASSUME NEW w \in Wallets, NEW amount \in AdjustAmounts, StartAdjust(t, w, amount), UNCHANGED roundVars
      PROVE  Sound' /\ AllReady'
  <2>1. /\ UNCHANGED <<balance, ledger, rounds, config, gameLock, order, notices, answers>>
        /\ LockWalletRow(t, w) /\ Movable(w, amount) /\ amount \in Int
        /\ pc' = [pc EXCEPT ![t] = "adjusted"]
        /\ arg' = [arg EXCEPT ![t] = [NoArg EXCEPT !.w = w, !.amount = amount, !.seen = balance[w]]]
    BY <1>1 DEF StartAdjust, roundVars
  <2>2. Alone(t) /\ KeepsLocks(t) /\ walletLock'[w] = t
    BY <1>0, <2>1, LockTypes DEF Alone, KeepsLocks
  <2>3. arg'[t].w = w /\ arg'[t].amount = amount /\ arg'[t].seen = balance[w] /\ pc'[t] = "adjusted"
    BY <1>0, <2>1 DEF NoArg
  <2>4. balance[w] + amount \in 0..MaxSafe
    BY <1>0, <2>1, MovableInRange
  <2>5. Ready(t)'
    BY <2>1, <2>2, <2>3, <2>4
       DEF Ready, Paying, Playing, Closing, GameSteps, EnteredSteps, InsertedSteps, CloseSteps
  <2>6. pc'[t] \notin InsertedSteps
    BY <2>3 DEF InsertedSteps
  <2> QED
    BY <2>1, <2>2, <2>5, <2>6, StepReady, Quiet
<1>2. ASSUME NEW op \in {"play", "open"}, NEW body \in Body, StartOpen(t, op, body)
      PROVE  Sound' /\ AllReady'
  <2>1. UNCHANGED <<balance, ledger, walletLock, arg, rounds, config, gameLock, notices>> /\ pc[t] = "idle"
    BY <1>2 DEF StartOpen, walletVars
  <2>2. UNCHANGED answers \/ AnswerRecorded(op, body)
    BY <1>2 DEF StartOpen
  <2>3. Alone(t) /\ KeepsLocks(t) /\ pc'[t] \in {"idle", "asked"}
    BY <1>0, <1>2, <2>1 DEF StartOpen, Alone, KeepsLocks
  <2> QED
    BY <2>1, <2>2, <2>3, NothingReady, StepReady, Quiet
<1>3. ASSUME NEW op \in {"settle", "cancel", "fail"}, NEW id \in RoundIds, NEW outcome,
             StartClose(t, op, id, outcome)
      PROVE  Sound' /\ AllReady'
  <2>1. /\ UNCHANGED <<balance, ledger, walletLock, rounds, config, gameLock, notices, answers>>
        /\ pc' = [pc EXCEPT ![t] = "closing"]
        /\ arg' = [arg EXCEPT ![t] = ClosingArg(rounds[id].w, id)] /\ rounds[id] # None
    BY <1>3 DEF StartClose, walletVars, ClosingArg
  <2>2. Alone(t) /\ KeepsLocks(t) /\ pc'[t] = "closing"
    BY <1>0, <1>3, <2>1 DEF StartClose, Alone, KeepsLocks
  <2>3. rounds[id].w \in Wallets
    BY <1>0, <2>1 DEF TypeOK, Round
  <2>4. PICK w \in Wallets : w = rounds[id].w
    BY <2>3
  <2>5. arg'[t].w = w /\ arg'[t].id = id
    BY <1>0, <2>1, <2>4, ClosingArgType
  <2>6. Ready(t)' /\ pc'[t] \notin InsertedSteps
    BY <2>1, <2>2, <2>4, <2>5
       DEF Ready, Paying, Playing, Closing, WalletSteps, GameSteps, EnteredSteps, InsertedSteps
  <2> QED
    BY <2>1, <2>2, <2>6, StepReady, Quiet
<1> QED
  BY <1>1, <1>2, <1>3 DEF Begin

\* What the ledger says of an open round: its stake, nothing else.
LEMMA OpenOwes ==
    ASSUME Typed, Sound, NEW id \in RoundIds, rounds[id] # None, rounds[id].status = "open"
    PROVE  /\ rounds[id] \in Round
           /\ PostedFor(rounds[id].w, id) = {<<"wager", -rounds[id].stake>>}
           /\ \A kind \in {"win", "refund"} : ~Posted(rounds[id].w, kind, id)
<1>1. rounds[id] \in Round /\ rounds[id].w \in Wallets /\ WalletTypeOK
  BY DEF Typed, TypeOK, Round
<1>2. PostedFor(rounds[id].w, id) = {<<"wager", -rounds[id].stake>>}
  <2>1. PostedFor(rounds[id].w, id) = Said(rounds[id], rounds[id].w)
    BY <1>1, MoneyByRow DEF Sound, RowsSound
  <2> QED
    BY <1>1, <2>1, SaidByStatus
<1>3. ASSUME NEW kind \in {"win", "refund"}, Posted(rounds[id].w, kind, id) PROVE FALSE
  <2>1. PICK w \in Wallets : w = rounds[id].w
    BY <1>1
  <2>2. \E amount \in Int : <<kind, amount>> \in PostedFor(w, id)
    BY <1>1, <1>3, <2>1, PostedIsSaid
  <2> QED
    BY <1>2, <2>1, <2>2
<1> QED
  BY <1>1, <1>2, <1>3

LEMMA LocksSound ==
    ASSUME Typed, Sound, AllReady, NEW t \in Calls, LockGame(t) \/ LockWallet(t) \/ LockRound(t)
    PROVE  Sound' /\ AllReady'
<1>0. /\ TypeOK /\ WalletTypeOK /\ arg \in [Calls -> Args] /\ order \in [Calls -> Order \cup {None}]
      /\ pc \in [Calls -> Steps] /\ gameLock \in [Games -> Calls \cup {None}] /\ BalancesInRange
      /\ CallTypes(t) /\ Paying(t) /\ Playing(t) /\ Closing(t)
  BY DEF Typed, TypeOK, Sound, LedgerSound, AllReady, Ready
<1>1. UNCHANGED <<balance, ledger, rounds, config, notices, answers>>
  BY DEF LockGame, LockWallet, LockRound, roundVars
<1>2. Sound'
  BY <1>1, Quiet
<1>3. CASE EndTx(t)
  BY <1>1, <1>2, <1>3, EndReady
<1>4. CASE LockGame(t) /\ ~EndTx(t)
  <2> DEFINE g == order[t].body.game
  <2>1. /\ pc[t] = "asked" /\ gameLock[g] = None /\ UNCHANGED <<walletLock, arg, order>>
        /\ \/ pc' = [pc EXCEPT ![t] = "unsupported"] /\ UNCHANGED gameLock
           \/ /\ pc' = [pc EXCEPT ![t] = "priced"] /\ gameLock' = [gameLock EXCEPT ![g] = t]
              /\ config[g].status = "active"
    BY <1>4 DEF LockGame
  <2>2. g \in Games
    BY <1>0, <2>1, BodyTypes DEF CallTypes, OpenSteps
  <2>3. Alone(t) /\ KeepsLocks(t) /\ pc'[t] \in {"unsupported", "priced"}
    BY <1>0, <2>1, <2>2 DEF Alone, KeepsLocks
  <2>4. CASE pc'[t] = "unsupported"
    BY <1>1, <1>2, <2>3, <2>4, NothingReady, StepReady
  <2>5. CASE pc'[t] = "priced"
    <3>1. gameLock'[g] = t /\ config'[g].status = "active" /\ order'[t].body.game = g
      BY <1>0, <1>1, <2>1, <2>2, <2>5
    <3>2. Ready(t)' /\ pc'[t] \notin InsertedSteps
      BY <2>5, <3>1 DEF Ready, Paying, Playing, Closing, WalletSteps, EnteredSteps, InsertedSteps, CloseSteps
    <3> QED
      BY <1>1, <1>2, <2>3, <3>2, StepReady
  <2> QED
    BY <2>3, <2>4, <2>5
<1>5. CASE LockWallet(t)
  <2>1. PICK body \in Body : body = order[t].body
    BY <1>0, <1>5 DEF LockWallet, CallTypes, OpenSteps
  <2>2. /\ pc[t] = "priced" /\ pc' = [pc EXCEPT ![t] = "entered"] /\ UNCHANGED <<gameLock, order>>
        /\ arg' = [arg EXCEPT ![t] = WagerArg(body.w, -body.stake)] /\ LockWalletRow(t, body.w)
    BY <1>5, <2>1 DEF LockWallet, roundVars, WagerArg
  <2>3. body.w \in Wallets /\ -body.stake \in Int
    BY BodyTypes
  <2>4. Alone(t) /\ KeepsLocks(t) /\ pc'[t] = "entered" /\ walletLock'[body.w] = t /\ arg'[t].w = body.w
    BY <1>0, <2>2, <2>3, LockTypes, WagerArgType DEF Alone, KeepsLocks
  <2>5. gameLock'[order'[t].body.game] = t /\ config'[order'[t].body.game].status = "active"
    BY <1>0, <1>1, <2>2 DEF Playing, GameSteps
  <2>6. Ready(t)' /\ pc'[t] \notin InsertedSteps
    BY <2>4, <2>5 DEF Ready, Paying, Playing, Closing, WalletSteps, EnteredSteps, InsertedSteps, CloseSteps
  <2> QED
    BY <1>1, <1>2, <2>4, <2>6, StepReady
<1>6. CASE LockRound(t) /\ ~EndTx(t)
  <2>1. /\ pc[t] = "closing" /\ rounds[arg[t].id].status = "open" /\ CanClose(t)
        /\ LockWalletRow(t, arg[t].w) /\ pc' = [pc EXCEPT ![t] = "closed"] /\ UNCHANGED <<gameLock, order>>
        /\ arg' = [arg EXCEPT ![t] = ClosedArg(arg[t], Due(t), balance[arg[t].w])]
    BY <1>6 DEF LockRound, ClosedArg
  <2>2. PICK id \in RoundIds, w \in Wallets : id = arg[t].id /\ w = arg[t].w
    BY <1>0, <2>1 DEF CallTypes, CloseSteps
  <2>3. rounds[id] # None /\ rounds[id] \in Round /\ rounds[id].w = w /\ rounds[id].status = "open"
    BY <1>0, <2>1, <2>2 DEF CallTypes, CloseSteps, Closing, TypeOK
  <2>4. PICK due \in Nat : due = Due(t)
    <3>1. rounds[id].stake \in Nat
      BY <2>3 DEF Round
    <3> QED
      BY <1>0, <2>1, <2>2, <3>1, OutcomeTypes DEF Due, CallTypes, CloseSteps
  <2>5. /\ arg'[t].w = w /\ arg'[t].id = id /\ arg'[t].amount = due /\ arg'[t].seen = balance[w]
    <3>1. balance[w] \in Int /\ arg[t] \in Args
      BY <1>0 DEF WalletTypeOK
    <3>2. PICK held \in Int : held = balance[w]
      BY <3>1
    <3> QED
      BY <1>0, <2>1, <2>2, <2>4, <3>1, <3>2, ClosedArgType
  <2>6. balance[w] + due \in 0..MaxSafe
    <3>1. balance[w] \in 0..MaxSafe
      BY <1>0 DEF BalancesInRange
    <3>2. ~Posted(w, KindOf(t), id)
      BY <2>3, OpenOwes DEF KindOf
    <3>3. due = 0 \/ Movable(w, due)
      BY <2>1, <2>2, <2>4, <3>2 DEF CanClose
    <3> QED
      BY <1>0, <3>1, <3>3, MovableInRange
  <2>7. Alone(t) /\ KeepsLocks(t) /\ pc'[t] = "closed" /\ walletLock'[w] = t
    BY <1>0, <2>1, <2>2, LockTypes DEF Alone, KeepsLocks
  <2>8. Due(t)' = due
    BY <1>1, <2>1, <2>2, <2>4, <2>5 DEF Due
  <2>9. Ready(t)' /\ pc'[t] \notin InsertedSteps
    BY <1>1, <2>3, <2>5, <2>6, <2>7, <2>8
       DEF Ready, Paying, Playing, Closing, GameSteps, EnteredSteps, InsertedSteps
  <2> QED
    BY <1>1, <1>2, <2>7, <2>9, StepReady
<1> QED
  BY <1>3, <1>4, <1>5, <1>6

\* The insert is the only step that adds a round in the making.
LEMMA InsertSound ==
    ASSUME Typed, Sound, AllReady, NEW t \in Calls, NEW id \in RoundIds, InsertOpen(t, id)
    PROVE  Sound' /\ AllReady'
<1>0. /\ TypeOK /\ WalletTypeOK /\ arg \in [Calls -> Args] /\ pc \in [Calls -> Steps] /\ BalancesInRange
      /\ CallTypes(t) /\ Paying(t) /\ Playing(t) /\ Closing(t) /\ Apart
  BY DEF Typed, TypeOK, Sound, LedgerSound, AllReady, Ready
<1>1. UNCHANGED <<balance, ledger, walletLock, rounds, config, gameLock, order, notices, answers>>
  BY DEF InsertOpen, roundVars, walletVars
<1>2. Sound'
  BY <1>1, Quiet
<1>3. /\ pc[t] = "entered" /\ ByKey(order[t].body.key) = {} /\ KeyFree(t) /\ Playable(t)
      /\ Movable(arg[t].w, arg[t].amount) /\ rounds[id] = None /\ \A c \in Calls : arg[c].id # id
      /\ pc' = [pc EXCEPT ![t] = "recorded"]
      /\ arg' = [arg EXCEPT ![t].id = id, ![t].seen = balance[arg[t].w]]
  BY DEF InsertOpen, FreeIds
<1>4. arg'[t].id = id /\ arg'[t].w = arg[t].w /\ arg'[t].amount = arg[t].amount
      /\ arg'[t].seen = balance[arg[t].w] /\ pc'[t] = "recorded"
  BY <1>0, <1>3 DEF Args
<1>5. Alone(t) /\ KeepsLocks(t)
  BY <1>0, <1>1, <1>3 DEF Alone, KeepsLocks
<1>6. balance[arg[t].w] + arg[t].amount \in 0..MaxSafe
  <2>1. PICK w \in Wallets, n \in Int : w = arg[t].w /\ n = arg[t].amount
    BY <1>0, <1>3 DEF CallTypes, EnteredSteps, Args
  <2> QED
    BY <1>0, <1>3, <2>1, MovableInRange
<1>7. Paying(t)'
  BY <1>0, <1>1, <1>3, <1>4, <1>6 DEF Paying, WalletSteps, EnteredSteps, InsertedSteps
<1>8. Playing(t)'
  <2>1. Playable(t)' /\ ByKey(order[t].body.key)' = {}
    BY <1>1, <1>3 DEF Playable, ByKey, Recorded
  <2> QED
    BY <1>0, <1>1, <1>3, <1>4, <2>1 DEF Playing, GameSteps, EnteredSteps
<1>9. Closing(t)'
  BY <1>4 DEF Closing, CloseSteps
<1>10. \A c \in Calls \ {t} : Ready(c)'
  BY <1>1, <1>5, OthersReady
<1>11. Apart'
  <2>1. \A c \in Calls \ {t} : pc'[c] \in InsertedSteps =>
            arg'[c].id # id /\ order'[c].body.key # order[t].body.key
    BY <1>1, <1>3, <1>5 DEF Alone, KeyFree, InsertedSteps
  <2>2. arg'[t].id = id /\ order'[t].body.key = order[t].body.key
    BY <1>1, <1>4
  <2>3. \A c, d \in Calls \ {t} : c # d /\ pc'[c] \in InsertedSteps /\ pc'[d] \in InsertedSteps =>
            arg'[c].id # arg'[d].id /\ order'[c].body.key # order'[d].body.key
    BY <1>0, <1>5 DEF Apart, Alone
  <2> QED
    BY <2>1, <2>2, <2>3 DEF Apart
<1> QED
  BY <1>2, <1>7, <1>8, <1>9, <1>10, <1>11 DEF AllReady, Ready

LEMMA DecideSound ==
    ASSUME Typed, Sound, AllReady, NEW t \in Calls, NEW outcome \in Outcomes, Decide(t, outcome)
    PROVE  Sound' /\ AllReady'
<1>0. /\ arg \in [Calls -> Args] /\ order \in [Calls -> Order \cup {None}] /\ pc \in [Calls -> Steps]
      /\ CallTypes(t) /\ Paying(t) /\ Playing(t) /\ Closing(t)
  BY DEF Typed, TypeOK, AllReady, Ready
<1>1. UNCHANGED <<balance, ledger, rounds, config, notices, answers>>
  BY DEF Decide
<1>2. Sound'
  BY <1>1, Quiet
<1>3. CASE EndTx(t)
  BY <1>1, <1>2, <1>3, EndReady
<1>4. CASE ~EndTx(t)
  <2>1. /\ pc[t] = "recorded" /\ order[t] \in Order /\ Creditable(t, outcome)
        /\ pc' = [pc EXCEPT ![t] = "decided"] /\ UNCHANGED <<walletLock, gameLock, arg>>
        /\ order' = [order EXCEPT ![t] = [order[t] EXCEPT !.outcome = outcome]]
    BY <1>0, <1>4 DEF Decide, CallTypes, OpenSteps
  <2>2. order'[t].outcome = outcome /\ order'[t].body = order[t].body /\ pc'[t] = "decided"
    BY <1>0, <2>1 DEF Order
  <2>3. Alone(t) /\ KeepsLocks(t)
    BY <1>0, <2>1 DEF Alone, KeepsLocks
  <2>4. arg[t].seen + arg[t].amount + outcome.win \in 0..MaxSafe
    <3>1. PICK held \in Int, n \in Int : held = arg[t].seen /\ n = arg[t].amount
      BY <1>0 DEF Args
    <3>2. held + n \in 0..MaxSafe /\ outcome.win \in Nat
      BY <1>0, <2>1, <3>1, OutcomeTypes DEF Paying, InsertedSteps
    <3>3. held + n + outcome.win <= MaxSafe
      BY <2>1, <3>1 DEF Creditable, IsSafeMinor
    <3> QED
      BY <3>1, <3>2, <3>3
  <2>5. Paying(t)'
    BY <1>0, <1>1, <2>1, <2>2, <2>4 DEF Paying, WalletSteps, EnteredSteps, InsertedSteps
  <2>6. Playing(t)'
    <3>1. Playable(t)' /\ ByKey(order[t].body.key)' = {}
      BY <1>0, <1>1, <2>1, <2>2 DEF Playing, InsertedSteps, Playable, ByKey, Recorded
    <3> QED
      BY <1>0, <1>1, <2>1, <2>2, <3>1 DEF Playing, GameSteps, EnteredSteps, InsertedSteps
  <2>7. Closing(t)'
    BY <2>2 DEF Closing, CloseSteps
  <2>8. pc[t] \in InsertedSteps /\ arg'[t].id = arg[t].id
    BY <2>1 DEF InsertedSteps
  <2> QED
    BY <1>1, <1>2, <2>2, <2>3, <2>5, <2>6, <2>7, <2>8, StepReady DEF Ready
<1> QED
  BY <1>3, <1>4

-----------------------------------------------------------------------------
(* The commits *)

\* A movement that fits and whose key is new: the statement stays sound, and only
\* what it says of its round changes.
LEMMA MoveTxSound ==
    ASSUME Typed, LedgerSound, NEW w \in Wallets, NEW kind \in Kinds, NEW ref \in Ids \cup {None},
           NEW amount \in Int, NEW seen \in Int, MoveTx(w, kind, ref, amount, seen), seen = balance[w],
           seen + amount \in 0..MaxSafe, ~Posted(w, kind, ref)
    PROVE  /\ LedgerSound'
           /\ \A v \in Wallets : v # w => balance'[v] = balance[v]
           /\ \A id \in RoundIds, v \in Wallets :
                 PostedFor(v, id)' = IF v = w /\ id = ref THEN PostedFor(v, id) \cup {<<kind, amount>>}
                                     ELSE PostedFor(v, id)
<1>0. WalletTypeOK
  BY DEF Typed, TypeOK
<1>1. LedgerSound'
  BY <1>0, MoveTxChains, MoveTxInRange DEF LedgerSound
<1>2. \A v \in Wallets : v # w => balance'[v] = balance[v]
  BY <1>0, MoveTxOthers
<1>3. \A id \in RoundIds, v \in Wallets :
          PostedFor(v, id)' = IF v = w /\ id = ref THEN PostedFor(v, id) \cup {<<kind, amount>>}
                              ELSE PostedFor(v, id)
  BY <1>0, MoveTxPosts
<1> QED
  BY <1>1, <1>2, <1>3

\* An adjustment speaks of no round.
LEMMA AdjustSound ==
    ASSUME Typed, Sound, AllReady, NEW t \in Calls, CommitAdjust(t), UNCHANGED roundVars
    PROVE  Sound' /\ AllReady'
<1>0. /\ TypeOK /\ WalletTypeOK /\ arg \in [Calls -> Args] /\ pc \in [Calls -> Steps]
      /\ CallTypes(t) /\ Paying(t)
  BY DEF Typed, TypeOK, AllReady, Ready
<1>1. /\ pc[t] = "adjusted" /\ MoveTx(arg[t].w, "adjustment", None, arg[t].amount, arg[t].seen)
      /\ UnlockWallets(t) /\ Finish(t) /\ UNCHANGED <<rounds, config, gameLock, order, notices, answers>>
  BY DEF CommitAdjust, roundVars
<1>2. PICK w \in Wallets, n \in Int, seen \in Int : w = arg[t].w /\ n = arg[t].amount /\ seen = arg[t].seen
  BY <1>0, <1>1 DEF CallTypes, Args
<1>3. MoveTx(w, "adjustment", None, n, seen) /\ seen = balance[w] /\ seen + n \in 0..MaxSafe
      /\ ~Posted(w, "adjustment", None)
  BY <1>0, <1>1, <1>2 DEF Paying, WalletSteps, EnteredSteps, Posted
<1>4. /\ LedgerSound'
      /\ \A v \in Wallets : v # w => balance'[v] = balance[v]
      /\ \A id \in RoundIds, v \in Wallets :
            PostedFor(v, id)' = IF v = w /\ id = None THEN PostedFor(v, id) \cup {<<"adjustment", n>>}
                                ELSE PostedFor(v, id)
  BY <1>3, MoveTxSound DEF Kinds, Sound
<1>5. \A id \in RoundIds, v \in Wallets : PostedFor(v, id)' = PostedFor(v, id)
  BY <1>4
<1>6. Sound'
  BY <1>1, <1>4, <1>5, RowsStay DEF Sound, Uncommitted
<1>7. Alone(t) /\ KeepsLocks(t) /\ pc'[t] = "idle"
  BY <1>0, <1>1 DEF Alone, KeepsLocks, Finish, UnlockWallets
<1>8. Ready(t)' /\ pc'[t] \notin InsertedSteps
  BY <1>7, NothingReady
<1>9. \A c \in Calls \ {t} : Ready(c)'
  BY <1>1, <1>2, <1>4, <1>7, OthersReady DEF WalletSteps
<1>10. Apart'
  BY <1>7, <1>8, StaysApart DEF AllReady, Alone
<1> QED
  BY <1>6, <1>8, <1>9, <1>10 DEF AllReady

\* Open's commit: the stake is the first the ledger hears of the round.
LEMMA OpenSound ==
    ASSUME Typed, Sound, AllReady, NEW t \in Calls, CommitOpen(t)
    PROVE  Sound' /\ AllReady'
<1>0. /\ TypeOK /\ WalletTypeOK /\ CallTypes(t) /\ Paying(t) /\ Playing(t)
  BY DEF Typed, TypeOK, AllReady, Ready
<1>1. pc[t] = "recorded" /\ order[t].op = "open" /\ EndTx(t) /\ UNCHANGED <<config, notices>>
  BY DEF CommitOpen
<1>2. PICK id \in RoundIds, body \in Body, seen \in Int :
          id = arg[t].id /\ body = order[t].body /\ seen = arg[t].seen
  <2>1. arg[t].id \in RoundIds /\ order[t].body \in Body /\ arg[t].seen \in Int
    BY <1>0, <1>1 DEF CallTypes, OpenSteps, InsertedSteps, Typed, Args
  <2> QED
    BY <2>1
<1>3. body.w \in Wallets /\ body.stake \in Nat /\ arg[t].w = body.w /\ arg[t].amount = -body.stake
      /\ id \in Ids /\ -body.stake \in Int
  BY <1>0, <1>1, <1>2, BodyTypes DEF CallTypes, EnteredSteps
<1>4. /\ rounds[id] = None /\ ByKey(body.key) = {} /\ seen = balance[body.w]
      /\ seen + (-body.stake) \in 0..MaxSafe
  BY <1>0, <1>1, <1>2, <1>3 DEF Paying, Playing, WalletSteps, EnteredSteps, InsertedSteps
<1> DEFINE row == NewRound(t, EmptyObject, "open", NoResult)
<1>5. row \in Round /\ row.key = body.key /\ row.w = body.w /\ row.game = body.game
      /\ row.stake = body.stake /\ row.status = "open"
  <2>1. NoResult.win = None /\ NoResult.multiplier = None /\ pc[t] \in InsertedSteps
    BY <1>1 DEF NoResult, InsertedSteps
  <2> QED
    BY <1>2, <2>1, NewRoundType
<1> DEFINE a == [op |-> "open", body |-> body, id |-> id, win |-> None]
<1>6. /\ Writes(id, row) /\ answers' = answers \cup {a}
      /\ MoveTx(body.w, "wager", id, -body.stake, seen)
  BY <1>2, <1>3 DEF CommitOpen, Writes
<1>7. a.id = id /\ a.body = body /\ a.op = "open"
  OBVIOUS
<1> HIDE DEF row, a
<1>8. \A w \in Wallets : PostedFor(w, id) = {}
  BY <1>4, MoneyByRow DEF Sound, RowsSound, Said
<1>9. ~Posted(body.w, "wager", id)
  BY <1>0, <1>3, <1>8, PostedIsSaid
<1>10. /\ LedgerSound'
       /\ \A v \in Wallets : v # body.w => balance'[v] = balance[v]
       /\ \A i \in RoundIds, v \in Wallets :
             PostedFor(v, i)' = IF v = body.w /\ i = id THEN PostedFor(v, i) \cup {<<"wager", -body.stake>>}
                                ELSE PostedFor(v, i)
  <2>1. PICK n \in Int : n = -body.stake
    BY <1>3
  <2> QED
    BY <1>3, <1>4, <1>6, <1>9, <2>1, MoveTxSound DEF Kinds, Sound
<1>11. MoneyFollowsRound'
  <2>1. /\ Said(row, body.w) = {<<"wager", -body.stake>>}
        /\ \A w : w # body.w => Said(row, w) = {}
    BY <1>5, SaidByStatus
  <2>2. \A i \in RoundIds, w \in Wallets : PostedFor(w, i)' = IF i = id THEN Said(row, w) ELSE PostedFor(w, i)
    BY <1>8, <1>10, <2>1
  <2> QED
    BY <1>0, <1>5, <1>6, <2>2, MoneyCommits DEF Sound, RowsSound
<1>12. BigWinsAreTold'
  BY <1>0, <1>1, <1>4, <1>5, <1>6, BigWinCommits DEF Sound, RowsSound
<1>13. OneRoundPerKey'
  <2>1. TrueOf(a, row)
    BY <1>5, <1>7 DEF TrueOf
  <2> QED
    BY <1>0, <1>4, <1>5, <1>6, <1>7, <2>1, NewKeyCommits DEF Sound, RowsSound
<1>14. AllReady'
  BY <1>1, <1>2, <1>3, <1>5, <1>6, <1>10, CommitReady DEF InsertedSteps
<1> QED
  BY <1>10, <1>11, <1>12, <1>13, <1>14 DEF Sound, RowsSound

LEMMA AppendedSays ==
    ASSUME NEW book \in Seq(Entry), NEW e \in Entry, NEW kind, NEW ref, Says(Append(book, e), kind, ref)
    PROVE  Says(book, kind, ref) \/ (e.kind = kind /\ e.ref = ref)
BY AppendedEntries DEF Says

PlaySays(stake, win) == {<<"wager", -stake>>} \cup IF win > 0 THEN {<<"win", win>>} ELSE {}

\* One statement continues another and speaks of one more round.
SaysAlso(new, book, id, said) ==
    \A i \in RoundIds : SaidOf(new, i) = IF i = id THEN said ELSE SaidOf(book, i)

\* A stake and its win, appended together, continue the statement: the win is computed
\* from what the stake has left.
LEMMA PlayedBook ==
    ASSUME NEW book \in Seq(Entry), NEW held \in Int, BookChains(book, held), NEW id \in RoundIds,
           NEW stake \in Nat, NEW win \in Nat, SaidOf(book, id) = {}
    PROVE  /\ BookChains(PlayedOn(book, held, id, stake, win), held - stake + win)
           /\ SaysAlso(PlayedOn(book, held, id, stake, win), book, id, PlaySays(stake, win))
<1> DEFINE wager == EntryOf("wager", id, -stake, held)
           credit == EntryOf("win", id, win, held - stake)
           staked == Append(book, wager)
           paid == Append(staked, credit)
           new == PlayedOn(book, held, id, stake, win)
<1>1. id \in Ids /\ id # None /\ -stake \in Int /\ held - stake \in Int /\ held + (-stake) = held - stake
  OBVIOUS
<1>2. wager \in Entry /\ credit \in Entry
  BY <1>1, EntryType DEF Kinds
<1>3. /\ wager.kind = "wager" /\ wager.ref = id /\ wager.amount = -stake
      /\ credit.kind = "win" /\ credit.ref = id /\ credit.amount = win
  BY DEF EntryOf
<1>4. \A kind : ~Says(book, kind, id)
  <2> SUFFICES ASSUME NEW kind, Says(book, kind, id) PROVE FALSE
    OBVIOUS
  <2>1. PICK i \in DOMAIN book : book[i].ref = id
    BY DEF Says
  <2>2. <<book[i].kind, book[i].amount>> \in SaidOf(book, id)
    BY <2>1 DEF SaidOf
  <2> QED
    BY <2>2
<1>5. BookChains(staked, held - stake)
  <2>1. PICK n \in Int : n = -stake
    BY <1>1
  <2>2. "wager" \in Kinds /\ id \in Ids \cup {None}
    BY <1>1 DEF Kinds
  <2>3. BookChains(Append(book, EntryOf("wager", id, n, held)), held + n)
    BY <1>4, <2>1, <2>2, AppendChains
  <2> QED
    BY <1>1, <2>1, <2>3
<1>6. new = IF win > 0 THEN paid ELSE staked
  BY DEF PlayedOn
<1> HIDE DEF wager, credit, new
<1>7. staked \in Seq(Entry) /\ ~Says(staked, "win", id)
  BY <1>2, <1>3, <1>4, AppendedEntries, AppendedSays
<1>8. \A i \in RoundIds : SaidOf(staked, i) = IF i = id THEN {<<"wager", -stake>>} ELSE SaidOf(book, i)
  <2>1. \A i : SaidOf(staked, i) = IF i = wager.ref THEN SaidOf(book, i) \cup {<<wager.kind, wager.amount>>}
                                   ELSE SaidOf(book, i)
    BY <1>2, AppendSays, Zenon
  <2> QED
    BY <1>3, <2>1
<1>9. \A i \in RoundIds : SaidOf(paid, i) = IF i = id THEN {<<"wager", -stake>>} \cup {<<"win", win>>}
                                            ELSE SaidOf(book, i)
  <2>1. \A i : SaidOf(paid, i) = IF i = credit.ref THEN SaidOf(staked, i) \cup {<<credit.kind, credit.amount>>}
                                 ELSE SaidOf(staked, i)
    BY <1>2, <1>7, AppendSays, Zenon
  <2> HIDE DEF staked, paid
  <2> QED
    BY <1>3, <1>8, <2>1
<1>10. BookChains(paid, held - stake + win)
  <2>1. PICK left \in Int : left = held - stake
    BY <1>1
  <2>2. "win" \in Kinds /\ id \in Ids \cup {None} /\ win \in Int
    BY <1>1 DEF Kinds
  <2> HIDE DEF staked
  <2>3. BookChains(Append(staked, EntryOf("win", id, win, left)), left + win)
    BY <1>5, <1>7, <2>1, <2>2, AppendChains
  <2> QED
    BY <2>1, <2>3 DEF credit
<1> HIDE DEF staked, paid
<1> DEFINE Goal == BookChains(new, held - stake + win) /\ SaysAlso(new, book, id, PlaySays(stake, win))
<1>11. ASSUME win > 0 PROVE Goal
  <2>1. new = paid /\ PlaySays(stake, win) = {<<"wager", -stake>>} \cup {<<"win", win>>}
    BY <1>6, <1>11 DEF PlaySays
  <2> QED
    BY <1>9, <1>10, <2>1, Zenon DEF SaysAlso
<1>12. ASSUME win = 0 PROVE Goal
  <2>1. new = staked /\ held - stake + win = held - stake
    BY <1>1, <1>6, <1>12
  <2>2. PlaySays(stake, win) = {<<"wager", -stake>>}
    BY <1>12 DEF PlaySays
  <2> QED
    BY <1>5, <1>8, <2>1, <2>2, Zenon DEF SaysAlso
<1>13. win > 0 \/ win = 0
  OBVIOUS
<1>14. Goal
  BY <1>11, <1>12, <1>13, Zenon
<1> QED
  BY <1>14 DEF new

\* Play's commit: the stake and the win at once.
LEMMA PlaySound ==
    ASSUME Typed, Sound, AllReady, NEW t \in Calls, CommitPlay(t)
    PROVE  Sound' /\ AllReady'
<1>0. /\ TypeOK /\ WalletTypeOK /\ CallTypes(t) /\ Paying(t) /\ Playing(t)
  BY DEF Typed, TypeOK, AllReady, Ready
<1>1. pc[t] = "decided" /\ EndTx(t) /\ UNCHANGED config
  BY DEF CommitPlay
<1>2. PICK id \in RoundIds, body \in Body, outcome \in Outcomes, seen \in Int :
          id = arg[t].id /\ body = order[t].body /\ outcome = order[t].outcome /\ seen = arg[t].seen
  <2>1. arg[t].id \in RoundIds /\ order[t].body \in Body /\ order[t].outcome \in Outcomes /\ arg[t].seen \in Int
    BY <1>0, <1>1 DEF CallTypes, OpenSteps, InsertedSteps, Typed, Args
  <2> QED
    BY <2>1
<1>3. PICK w \in Wallets, stake \in Nat, win \in Nat :
          w = body.w /\ stake = body.stake /\ win = outcome.win
  BY BodyTypes, OutcomeTypes
<1>4. arg[t].w = w /\ arg[t].amount = -stake
  BY <1>0, <1>1, <1>2, <1>3 DEF CallTypes, EnteredSteps
<1>5. /\ rounds[id] = None /\ ByKey(body.key) = {} /\ seen = balance[w]
      /\ seen - stake + win \in 0..MaxSafe
  BY <1>0, <1>1, <1>2, <1>3, <1>4 DEF Paying, Playing, WalletSteps, EnteredSteps, InsertedSteps
<1> DEFINE row == NewRound(t, body.params, "settled", outcome)
<1>6. row \in Round /\ row.key = body.key /\ row.w = w /\ row.game = body.game /\ row.stake = stake
      /\ row.params = body.params /\ row.status = "settled" /\ row.win = win
      /\ row.multiplier = outcome.multiplier
  <2>1. outcome.win \in Nat \cup {None} /\ outcome.multiplier \in Nat \cup {None} /\ body.params \in Params
        /\ pc[t] \in InsertedSteps
    BY <1>1, OutcomeTypes, BodyTypes DEF InsertedSteps
  <2> QED
    BY <1>2, <1>3, <2>1, NewRoundType
<1> DEFINE a == [op |-> "play", body |-> body, id |-> id, win |-> win]
<1>7. /\ Writes(id, row) /\ answers' = answers \cup {a} /\ PostPlay(w, id, stake, win, seen)
      /\ NotifyWin(id, outcome)
  BY <1>2, <1>3 DEF CommitPlay, Writes
<1>8. a.id = id /\ a.body = body /\ a.op = "play" /\ a.win = win
  OBVIOUS
<1> HIDE DEF row, a
<1>9. /\ balance' = [balance EXCEPT ![w] = seen - stake + win]
      /\ ledger' = [ledger EXCEPT ![w] = PlayedOn(ledger[w], seen, id, stake, win)]
  BY <1>0, <1>7, PostPlayWrites
<1>10. /\ balance'[w] = seen - stake + win
       /\ \A v \in Wallets : v # w => balance'[v] = balance[v] /\ ledger'[v] = ledger[v]
       /\ ledger'[w] = PlayedOn(ledger[w], seen, id, stake, win)
  <2>1. balance \in [Wallets -> Int] /\ ledger \in [Wallets -> Seq(Entry)]
    BY <1>0 DEF WalletTypeOK
  <2> QED
    BY <1>9, <2>1, Zenon
<1>11. \A v \in Wallets : PostedFor(v, id) = {}
  BY <1>5, MoneyByRow DEF Sound, RowsSound, Said
<1>12. /\ BookChains(ledger'[w], balance'[w])
       /\ \A i \in RoundIds : SaidOf(ledger'[w], i) =
             IF i = id THEN PlaySays(stake, win) ELSE SaidOf(ledger[w], i)
  <2>1. ledger[w] \in Seq(Entry) /\ balance[w] = seen
    BY <1>0, <1>5 DEF WalletTypeOK
  <2>2. BookChains(ledger[w], seen)
    BY <2>1, ChainedBook DEF Sound, LedgerSound, StatementChains
  <2>3. SaidOf(ledger[w], id) = {}
    BY <1>11, PostedForBook
  <2>4. PICK book \in Seq(Entry) : book = ledger[w]
    BY <2>1
  <2>5. BookChains(book, seen) /\ SaidOf(book, id) = {}
    BY <2>2, <2>3, <2>4
  <2> DEFINE new == PlayedOn(book, seen, id, stake, win)
  <2>6. BookChains(new, seen - stake + win) /\ SaysAlso(new, book, id, PlaySays(stake, win))
    BY <2>5, PlayedBook
  <2>7. ledger'[w] = new /\ balance'[w] = seen - stake + win
    BY <1>10, <2>4
  <2> HIDE DEF new
  <2> QED
    BY <2>4, <2>6, <2>7, Zenon DEF SaysAlso
<1>13. LedgerSound'
  <2>1. StatementChains'
    <3> SUFFICES ASSUME NEW v \in Wallets PROVE Chained(v)'
      BY DEF StatementChains
    <3>1. BookChains(ledger[v], balance[v])
      BY ChainedBook DEF Sound, LedgerSound, StatementChains
    <3>2. BookChains(ledger'[v], balance'[v])
      <4>1. CASE v = w
        BY <1>12, <4>1
      <4>2. CASE v # w
        BY <1>10, <3>1, <4>2
      <4> QED
        BY <4>1, <4>2
    <3> QED
      BY <3>2, ChainedBook
  <2>2. BalancesInRange'
    BY <1>5, <1>10 DEF BalancesInRange, Sound, LedgerSound
  <2> QED
    BY <2>1, <2>2 DEF LedgerSound
<1>14. MoneyFollowsRound'
  <2>1. Said(row, w) = PlaySays(stake, win) /\ \A v : v # w => Said(row, v) = {}
    BY <1>6, SaidByStatus DEF PlaySays
  <2>2. ASSUME NEW i \in RoundIds, NEW v \in Wallets
        PROVE  PostedFor(v, i)' = IF i = id THEN Said(row, v) ELSE PostedFor(v, i)
    <3>1. PostedFor(v, i) = SaidOf(ledger[v], i) /\ PostedFor(v, i)' = SaidOf(ledger'[v], i)
      BY PostedForBook
    <3>2. CASE v = w
      BY <1>12, <2>1, <3>1, <3>2
    <3>3. CASE v # w
      BY <1>10, <1>11, <2>1, <3>1, <3>3
    <3> QED
      BY <3>2, <3>3
  <2> QED
    BY <1>0, <1>6, <1>7, <2>2, MoneyCommits DEF Sound, RowsSound
<1>15. BigWinsAreTold'
  <2>1. IsBigWin(outcome) <=> BigRow(row)
    BY <1>3, <1>6 DEF IsBigWin, BigRow
  <2>2. notices' = IF row.status = "settled" /\ BigRow(row)
                   THEN notices \cup {[id |-> id, amount |-> row.win]} ELSE notices
    BY <1>3, <1>6, <1>7, <2>1 DEF NotifyWin
  <2> QED
    BY <1>0, <1>5, <1>6, <1>7, <2>2, BigWinCommits DEF Sound, RowsSound
<1>16. OneRoundPerKey'
  <2>1. TrueOf(a, row)
    BY <1>3, <1>6, <1>8 DEF TrueOf
  <2> QED
    BY <1>0, <1>5, <1>6, <1>7, <1>8, <2>1, NewKeyCommits DEF Sound, RowsSound
<1>17. AllReady'
  BY <1>1, <1>2, <1>4, <1>6, <1>7, <1>10, CommitReady DEF InsertedSteps
<1> QED
  BY <1>13, <1>14, <1>15, <1>16, <1>17 DEF Sound, RowsSound

\* The close pays what the open round owes, and the ledger says so under its new status.
LEMMA CloseSound ==
    ASSUME Typed, Sound, AllReady, NEW t \in Calls, CommitClose(t)
    PROVE  Sound' /\ AllReady'
<1>0. /\ TypeOK /\ WalletTypeOK /\ CallTypes(t) /\ Paying(t) /\ Closing(t)
  BY DEF Typed, TypeOK, AllReady, Ready
<1>1. /\ pc[t] = "closed" /\ EndTx(t) /\ UNCHANGED <<config, answers>>
      /\ order[t].op \in {"settle", "cancel", "fail"}
      /\ order[t].op = "settle" => order[t].outcome \in Outcomes
  BY <1>0 DEF CommitClose, CallTypes, CloseSteps
<1>2. PICK id \in RoundIds, w \in Wallets, due \in Nat, seen \in Int :
          id = arg[t].id /\ w = arg[t].w /\ due = arg[t].amount /\ seen = arg[t].seen
  <2>1. arg[t].id \in RoundIds /\ arg[t].w \in Wallets /\ arg[t].amount \in Nat /\ arg[t].seen \in Int
    BY <1>0, <1>1 DEF CallTypes, CloseSteps, Typed, Args
  <2> QED
    BY <2>1
<1>3. PICK old \in Round : old = rounds[id]
  BY <1>0, <1>1, <1>2 DEF CallTypes, CloseSteps, TypeOK
<1>4. old # None /\ old.w = w /\ old.status = "open" /\ due = Due(t)
      /\ seen = balance[w] /\ seen + due \in 0..MaxSafe
  BY <1>0, <1>1, <1>2, <1>3 DEF Closing, CloseSteps, Paying, WalletSteps, EnteredSteps
<1>5. PICK row \in Round : row = ClosedRow(t)
  BY ClosedRowType
<1>6. /\ Writes(id, row)
      /\ row.key = old.key /\ row.w = old.w /\ row.game = old.game /\ row.stake = old.stake
      /\ order[t].op = "settle" =>
            row.status = "settled" /\ row.win = due /\ row.multiplier = order[t].outcome.multiplier
      /\ order[t].op # "settle" => row.status \in {"cancelled", "failed"}
  BY <1>1, <1>2, <1>3, <1>5, ClosedRowType DEF Writes
<1>7. /\ order[t].op = "settle" => due = order[t].outcome.win
      /\ order[t].op # "settle" => due = old.stake /\ due > 0
  <2>1. old.stake > 0
    BY DEF Round
  <2> QED
    BY <1>2, <1>3, <1>4, <2>1 DEF Due
<1>8. PICK kind \in {"win", "refund"} : kind = KindOf(t)
  BY DEF KindOf
<1>9. (kind = "win" <=> order[t].op = "settle") /\ kind \in Kinds /\ id \in Ids
  BY <1>8 DEF KindOf, Kinds
<1>10. PostedFor(w, id) = {<<"wager", -old.stake>>} /\ ~Posted(w, kind, id)
  BY <1>3, <1>4, OpenOwes
<1>11. \A v \in Wallets : v # w => PostedFor(v, id) = {}
  BY <1>3, <1>4, MoneyByRow, SaidByStatus DEF Sound, RowsSound
<1>12. IF due > 0 THEN MoveTx(w, kind, id, due, seen) ELSE UNCHANGED <<balance, ledger>>
  BY <1>2, <1>8 DEF CommitClose
<1>13. /\ LedgerSound'
       /\ \A v \in Wallets : v # w => balance'[v] = balance[v]
       /\ \A i \in RoundIds, v \in Wallets :
             PostedFor(v, i)' = IF v = w /\ i = id /\ due > 0 THEN PostedFor(v, i) \cup {<<kind, due>>}
                                ELSE PostedFor(v, i)
  <2>1. CASE due > 0
    <3>1. /\ LedgerSound'
          /\ \A v \in Wallets : v # w => balance'[v] = balance[v]
          /\ \A i \in RoundIds, v \in Wallets :
                PostedFor(v, i)' = IF v = w /\ i = id THEN PostedFor(v, i) \cup {<<kind, due>>}
                                   ELSE PostedFor(v, i)
      BY <1>4, <1>9, <1>10, <1>12, <2>1, MoveTxSound DEF Sound
    <3> QED
      BY <2>1, <3>1
  <2>2. CASE due = 0
    <3>1. UNCHANGED <<balance, ledger>>
      BY <1>12, <2>2
    <3>2. \A i \in RoundIds, v \in Wallets : PostedFor(v, i)' = PostedFor(v, i)
      BY <3>1 DEF PostedFor
    <3>3. LedgerSound'
      BY <3>1 DEF Sound, LedgerSound, StatementChains, Chained, BalancesInRange
    <3> QED
      BY <2>2, <3>1, <3>2, <3>3
  <2> QED
    BY <2>1, <2>2
<1>14. MoneyFollowsRound'
  <2>1. /\ Said(row, w) = {<<"wager", -old.stake>>} \cup IF due > 0 THEN {<<kind, due>>} ELSE {}
        /\ \A v : v # w => Said(row, v) = {}
    <3>1. CASE order[t].op = "settle"
      <4>1. row.status = "settled" /\ row.win = due /\ row.w = w /\ row.stake = old.stake /\ kind = "win"
        BY <1>4, <1>6, <1>9, <3>1
      <4> QED
        BY <4>1, SaidByStatus
    <3>2. CASE order[t].op # "settle"
      <4>1. row.status \in {"cancelled", "failed"} /\ row.w = w /\ row.stake = old.stake
            /\ kind = "refund" /\ due = old.stake /\ due > 0
        BY <1>4, <1>6, <1>7, <1>9, <3>2
      <4>2. Said(row, w) = {<<"wager", -old.stake>>, <<"refund", old.stake>>}
        BY <4>1, SaidByStatus
      <4> QED
        BY <4>1, <4>2, SaidByStatus
    <3> QED
      BY <3>1, <3>2
  <2>2. \A i \in RoundIds, v \in Wallets : PostedFor(v, i)' = IF i = id THEN Said(row, v) ELSE PostedFor(v, i)
    BY <1>10, <1>11, <1>13, <2>1
  <2> QED
    BY <1>0, <1>6, <2>2, MoneyCommits DEF Sound, RowsSound
<1>15. BigWinsAreTold'
  <2>1. notices' = IF row.status = "settled" /\ BigRow(row)
                   THEN notices \cup {[id |-> id, amount |-> row.win]} ELSE notices
    <3>1. CASE order[t].op = "settle"
      <4>1. NotifyWin(id, order[t].outcome)
        BY <1>2, <3>1 DEF CommitClose
      <4>2. IsBigWin(order[t].outcome) <=> BigRow(row)
        BY <1>6, <1>7, <3>1 DEF IsBigWin, BigRow
      <4> QED
        BY <1>6, <1>7, <3>1, <4>1, <4>2 DEF NotifyWin
    <3>2. CASE order[t].op # "settle"
      BY <1>6, <3>2 DEF CommitClose
    <3> QED
      BY <3>1, <3>2
  <2> QED
    BY <1>0, <1>3, <1>4, <1>6, <2>1, BigWinCommits DEF Sound, RowsSound
<1>16. OneRoundPerKey'
  BY <1>0, <1>1, <1>3, <1>4, <1>6, CloseKeepsKey DEF Sound, RowsSound
<1>17. AllReady'
  BY <1>1, <1>2, <1>3, <1>6, <1>13, CommitReady
<1> QED
  BY <1>13, <1>14, <1>15, <1>16, <1>17 DEF Sound, RowsSound

\* An operator freezes a wallet, or changes a game nobody has locked.
LEMMA OutsideSound ==
    ASSUME Typed, Sound, AllReady,
           \/ \E w \in Wallets, status \in WalletStatus : SetWalletStatus(w, status) /\ UNCHANGED roundVars
           \/ \E g \in Games, status \in {"active", "inactive"}, limit \in Limits : UpdateGame(g, status, limit)
           \/ \E g \in Games, rtp \in Options : SetRTP(g, rtp)
           \/ UNCHANGED vars
    PROVE  Sound' /\ AllReady'
<1>0. /\ order \in [Calls -> Order \cup {None}] /\ config \in [Games -> Config]
      /\ \A c \in Calls : CallTypes(c) /\ Ready(c) /\ Playing(c) /\ Paying(c)
  BY DEF Typed, TypeOK, AllReady, Ready
<1>1. UNCHANGED <<balance, ledger, walletLock, pc, arg, rounds, gameLock, notices, answers>>
  BY DEF SetWalletStatus, UpdateGame, SetRTP, vars, walletVars, roundVars
<1>2. Sound'
  BY <1>1, Quiet
<1>3. ASSUME NEW c \in Calls
      PROVE  /\ pc[c] # "asked" => order'[c] = order[c]
             /\ pc[c] \in GameSteps => config'[order[c].body.game] = config[order[c].body.game]
  <2>1. pc[c] \in GameSteps => order[c].body.game \in Games /\ gameLock[order[c].body.game] = c
    BY <1>0, BodyTypes, StepSets DEF CallTypes, Playing
  <2>2. None # c
    OBVIOUS
  <2> QED
    BY <1>0, <2>1, <2>2 DEF SetWalletStatus, UpdateGame, SetRTP, vars, roundVars
<1>4. ASSUME NEW c \in Calls PROVE Ready(c)'
  <2>1. pc[c] \in InsertedSteps => rounds[arg[c].id] = None /\ ByKey(order[c].body.key) = {}
    BY <1>0 DEF Playing
  <2>2. pc[c] \in InsertedSteps => rounds'[arg[c].id] = None /\ ByKey(order[c].body.key)' = {}
    <3>1. pc[c] \in InsertedSteps => order'[c] = order[c]
      BY <1>3 DEF InsertedSteps
    <3> QED
      BY <1>1, <2>1, <3>1 DEF ByKey, Recorded
  <2>3. /\ pc[c] \in WalletSteps => walletLock'[arg[c].w] = c
        /\ pc[c] \in GameSteps => gameLock'[order[c].body.game] = c
    BY <1>0, <1>1 DEF Paying, Playing
  <2> QED
    BY <1>0, <1>1, <1>3, <2>2, <2>3, StaysReady
<1>5. Apart'
  <2>1. \A c \in Calls : pc'[c] \in InsertedSteps =>
            pc[c] \in InsertedSteps /\ arg'[c].id = arg[c].id /\ order'[c].body = order[c].body
    BY <1>1, <1>3 DEF InsertedSteps
  <2> QED
    BY <2>1, StaysApart DEF AllReady
<1> QED
  BY <1>2, <1>4, <1>5 DEF AllReady

LEMMA RoundNext == RoundInv /\ [Next]_vars => RoundInv'
<1> SUFFICES ASSUME RoundInv, [Next]_vars PROVE RoundInv'
  OBVIOUS
<1>0. Typed /\ Sound /\ AllReady
  BY DEF RoundInv, Sound
<1>1. Typed'
  BY <1>0, TypedNext
<1>2. ASSUME NEW t \in Calls, Begin(t) \/ Continue(t) \/ Blocking(t) \/ Abort(t)
      PROVE  Sound' /\ AllReady'
  <2>1. CASE Begin(t)
    BY <1>0, <2>1, StartsSound
  <2>2. CASE Continue(t)
    BY <1>0, <2>2, EndsSound, AdjustSound, OpenSound, DecideSound, PlaySound, CloseSound DEF Continue
  <2>3. CASE Blocking(t)
    BY <1>0, <2>3, EndsSound, LocksSound, InsertSound DEF Blocking
  <2>4. CASE Abort(t)
    BY <1>0, <2>4, EndsSound
  <2> QED
    BY <1>2, <2>1, <2>2, <2>3, <2>4
<1>3. Sound' /\ AllReady'
  BY <1>0, <1>2, OutsideSound DEF Next
<1> QED
  BY <1>1, <1>3 DEF RoundInv, Sound

LEMMA RoundsHold == Spec => []RoundInv
BY RoundInit, RoundNext, PTL DEF Spec

\* MoveTx keeps its promise to the rounds: no interleaving of plays, openings,
\* settlements and refunds computes a balance from one that is no longer there, posts
\* a key twice, overdraws a wallet or lifts it past the largest safe amount.
THEOREM LedgerStaysSound == Spec => []LedgerSound
<1>1. RoundInv => LedgerSound
  BY DEF RoundInv
<1> QED
  BY <1>1, RoundsHold, PTL

\* For any number of calls on one round, its stake is debited once, and then its win is
\* credited once or its stake refunded once, as its status says.
THEOREM MoneyStaysWithRound == Spec => []MoneyFollowsRound
<1>1. RoundInv => MoneyFollowsRound
  BY DEF RoundInv, RowsSound
<1> QED
  BY <1>1, RoundsHold, PTL

\* A round key names one round, whatever games and wallets its callers lock, and every
\* answer to it is that round.
THEOREM KeysStaySingle == Spec => []OneRoundPerKey
<1>1. RoundInv => OneRoundPerKey
  BY DEF RoundInv, RowsSound
<1> QED
  BY <1>1, RoundsHold, PTL

\* The player is told of exactly the big wins that were credited.
THEOREM BigWinsStayTold == Spec => []BigWinsAreTold
<1>1. RoundInv => BigWinsAreTold
  BY DEF RoundInv, RowsSound
<1> QED
  BY <1>1, RoundsHold, PTL

-----------------------------------------------------------------------------
(* What a commit does to the rows, and to nothing but the rows and one balance *)

\* The configuration a round must be bound to.
InForce(row) ==
    LET now == config[row.game]
    IN  now.status = "active" /\ now.rtp = row.rtp /\ validWager(now.limit, row.stake)

\* A new row takes its stake, and pays its win if it has one.
Bought(row) ==
    /\ row.stake \in 1..MaxSafe /\ row.stake <= balance[row.w]
    /\ \/ /\ row.status = "open" /\ row.win = None
          /\ balance' = [balance EXCEPT ![row.w] = balance[row.w] - row.stake]
       \/ /\ row.status = "settled" /\ row.win \in 0..MaxSafe
          /\ balance[row.w] - row.stake + row.win <= MaxSafe
          /\ balance' = [balance EXCEPT ![row.w] = balance[row.w] - row.stake + row.win]

\* An open row is closed with what it owes.
Closes(old, row) ==
    /\ old.status = "open"
    /\ row = [old EXCEPT !.status = row.status, !.win = row.win, !.multiplier = row.multiplier]
    /\ row.key = old.key /\ row.w = old.w /\ row.stake = old.stake
    /\ \/ /\ row.status = "settled" /\ row.win \in 0..MaxSafe
          /\ balance[old.w] + row.win <= MaxSafe
          /\ balance' = [balance EXCEPT ![old.w] = balance[old.w] + row.win]
       \/ /\ row.status \in {"cancelled", "failed"} /\ row.win = old.win
          /\ balance[old.w] + old.stake <= MaxSafe
          /\ balance' = [balance EXCEPT ![old.w] = balance[old.w] + old.stake]

LEMMA NewRounds ==
    ASSUME RoundInv, NEW t \in Calls, CommitOpen(t) \/ CommitPlay(t)
    PROVE  \E id \in RoundIds, row \in Round : rounds[id] = None /\ Writes(id, row) /\ InForce(row) /\ Bought(row)
<1>0. /\ Typed /\ TypeOK /\ WalletTypeOK /\ Sound /\ CallTypes(t) /\ Paying(t) /\ Playing(t) /\ BalancesInRange
  BY DEF RoundInv, Sound, LedgerSound, Typed, TypeOK, AllReady, Ready
<1>1. pc[t] \in InsertedSteps /\ pc[t] \in GameSteps /\ pc[t] \in EnteredSteps /\ pc[t] \in OpenSteps
      /\ pc[t] \in WalletSteps \ {"entered"} /\ (CommitPlay(t) => pc[t] = "decided")
  BY DEF CommitOpen, CommitPlay, InsertedSteps, GameSteps, EnteredSteps, OpenSteps, WalletSteps
<1>2. PICK id \in RoundIds, body \in Body, seen \in Int :
          id = arg[t].id /\ body = order[t].body /\ seen = arg[t].seen
  <2>1. arg[t].id \in RoundIds /\ order[t].body \in Body /\ arg[t].seen \in Int
    BY <1>0, <1>1 DEF CallTypes, Typed, Args
  <2> QED
    BY <2>1
<1>3. PICK w \in Wallets, stake \in Nat : w = body.w /\ stake = body.stake /\ stake > 0
  BY BodyTypes
<1>4. arg[t].w = w /\ arg[t].amount = -stake /\ id \in Ids /\ -stake \in Int
  BY <1>0, <1>1, <1>2, <1>3 DEF CallTypes
<1>5. /\ rounds[id] = None /\ seen = balance[w] /\ seen - stake \in 0..MaxSafe
      /\ config[body.game].status = "active" /\ validWager(config[body.game].limit, stake)
  BY <1>0, <1>1, <1>2, <1>3, <1>4 DEF Paying, Playing, Playable
<1>6. stake \in 1..MaxSafe /\ stake <= balance[w]
  BY <1>0, <1>3, <1>5 DEF BalancesInRange
<1>7. CASE CommitOpen(t)
  <2> DEFINE row == NewRound(t, EmptyObject, "open", NoResult)
  <2>1. row \in Round /\ row.w = w /\ row.stake = stake /\ row.game = body.game /\ row.status = "open"
        /\ row.win = None /\ row.rtp = config[body.game].rtp
    <3>1. NoResult.win = None /\ NoResult.multiplier = None
      BY DEF NoResult
    <3> QED
      BY <1>0, <1>1, <1>2, <1>3, <3>1, NewRoundType
  <2>2. Writes(id, row) /\ MoveTx(w, "wager", id, -stake, seen)
    BY <1>2, <1>4, <1>7 DEF CommitOpen, Writes
  <2> HIDE DEF row
  <2>3. ~Posted(w, "wager", id)
    <3>1. PostedFor(w, id) = {}
      BY <1>0, <1>5, MoneyByRow DEF Sound, RowsSound, Said
    <3> QED
      BY <1>0, <3>1, PostedIsSaid
  <2>4. balance' = [balance EXCEPT ![w] = balance[w] - stake]
    <3>1. balance' = [balance EXCEPT ![w] = seen + (-stake)] /\ balance[w] \in Int
      BY <1>0, <2>2, <2>3 DEF MoveTx, WalletTypeOK
    <3> QED
      BY <1>5, <3>1
  <2>5. InForce(row) /\ Bought(row)
    BY <1>5, <1>6, <2>1, <2>4 DEF InForce, Bought
  <2> QED
    BY <1>5, <2>1, <2>2, <2>5
<1>8. CASE CommitPlay(t)
  <2>1. PICK outcome \in Outcomes : outcome = order[t].outcome
    BY <1>0, <1>1, <1>8 DEF CallTypes
  <2>2. PICK win \in Nat : win = outcome.win
    BY OutcomeTypes
  <2> DEFINE row == NewRound(t, body.params, "settled", outcome)
  <2>3. row \in Round /\ row.w = w /\ row.stake = stake /\ row.game = body.game /\ row.status = "settled"
        /\ row.win = win /\ row.rtp = config[body.game].rtp
    <3>1. outcome.win \in Nat \cup {None} /\ outcome.multiplier \in Nat \cup {None} /\ body.params \in Params
      BY OutcomeTypes, BodyTypes
    <3> QED
      BY <1>0, <1>1, <1>2, <1>3, <2>2, <3>1, NewRoundType
  <2>4. Writes(id, row) /\ PostPlay(w, id, stake, win, seen)
    BY <1>2, <1>3, <1>8, <2>1, <2>2 DEF CommitPlay, Writes
  <2> HIDE DEF row
  <2>5. balance' = [balance EXCEPT ![w] = balance[w] - stake + win]
    BY <1>0, <1>5, <2>4, PostPlayWrites
  <2>6. seen - stake + win \in 0..MaxSafe
    BY <1>0, <1>1, <1>2, <1>4, <1>8, <2>1, <2>2 DEF Paying
  <2>7. win \in 0..MaxSafe /\ balance[w] - stake + win <= MaxSafe
    BY <1>5, <2>6
  <2>8. InForce(row) /\ Bought(row)
    BY <1>5, <1>6, <2>3, <2>5, <2>7 DEF InForce, Bought
  <2> QED
    BY <1>5, <2>3, <2>4, <2>8
<1> QED
  BY <1>7, <1>8

LEMMA ClosedRounds ==
    ASSUME RoundInv, NEW t \in Calls, CommitClose(t)
    PROVE  \E id \in RoundIds, old \in Round, row \in Round :
               old = rounds[id] /\ Writes(id, row) /\ Closes(old, row)
<1>0. /\ Typed /\ TypeOK /\ WalletTypeOK /\ Sound /\ CallTypes(t) /\ Paying(t) /\ Closing(t) /\ BalancesInRange
  BY DEF RoundInv, Sound, LedgerSound, Typed, TypeOK, AllReady, Ready
<1>1. /\ pc[t] = "closed" /\ order[t].op \in {"settle", "cancel", "fail"}
      /\ order[t].op = "settle" => order[t].outcome \in Outcomes
  BY <1>0 DEF CommitClose, CallTypes, CloseSteps
<1>2. PICK id \in RoundIds, w \in Wallets, due \in Nat, seen \in Int :
          id = arg[t].id /\ w = arg[t].w /\ due = arg[t].amount /\ seen = arg[t].seen
  <2>1. arg[t].id \in RoundIds /\ arg[t].w \in Wallets /\ arg[t].amount \in Nat /\ arg[t].seen \in Int
    BY <1>0, <1>1 DEF CallTypes, CloseSteps, Typed, Args
  <2> QED
    BY <2>1
<1>3. PICK old \in Round : old = rounds[id]
  BY <1>0, <1>1, <1>2 DEF CallTypes, CloseSteps, TypeOK
<1>4. old # None /\ old.w = w /\ old.status = "open" /\ due = Due(t)
      /\ seen = balance[w] /\ seen + due \in 0..MaxSafe /\ seen >= 0
  BY <1>0, <1>1, <1>2, <1>3 DEF Closing, CloseSteps, Paying, WalletSteps, EnteredSteps, BalancesInRange
<1>5. PICK row \in Round : row = ClosedRow(t)
  BY <1>0, ClosedRowType
<1>6. /\ Writes(id, row)
      /\ row = [old EXCEPT !.status = row.status, !.win = row.win, !.multiplier = row.multiplier]
      /\ row.key = old.key /\ row.w = old.w /\ row.stake = old.stake
      /\ order[t].op = "settle" => row.status = "settled" /\ row.win = due
      /\ order[t].op # "settle" => row.status \in {"cancelled", "failed"} /\ row.win = old.win
  BY <1>0, <1>1, <1>2, <1>3, <1>5, ClosedRowType DEF Writes
<1>7. order[t].op # "settle" => due = old.stake
  BY <1>2, <1>3, <1>4 DEF Due
<1>8. balance' = [balance EXCEPT ![w] = balance[w] + due]
  <2>1. ~Posted(w, KindOf(t), id)
    BY <1>0, <1>3, <1>4, OpenOwes DEF KindOf
  <2>2. CASE due > 0
    BY <1>2, <1>4, <2>1, <2>2 DEF CommitClose, MoveTx
  <2>3. CASE due = 0
    <3>1. balance' = balance
      BY <1>2, <2>3 DEF CommitClose
    <3> QED
      BY <1>0, <2>3, <3>1 DEF WalletTypeOK
  <2> QED
    BY <2>2, <2>3
<1>9. due \in 0..MaxSafe /\ balance[w] + due <= MaxSafe
  BY <1>4
<1>10. Closes(old, row)
  BY <1>4, <1>6, <1>7, <1>8, <1>9 DEF Closes
<1> QED
  BY <1>3, <1>6, <1>10

\* Any other step leaves the rows alone, and the balances unless it is an adjustment.
LEMMA OtherSteps ==
    ASSUME RoundInv, [Next]_vars,
           ~\E t \in Calls : CommitOpen(t) \/ CommitPlay(t) \/ CommitClose(t)
    PROVE  /\ UNCHANGED rounds
           /\ \/ UNCHANGED balance
              \/ \E w \in Wallets, after \in 0..MaxSafe : balance' = [balance EXCEPT ![w] = after]
<1>1. ASSUME NEW t \in Calls, CommitAdjust(t), UNCHANGED roundVars
      PROVE  /\ UNCHANGED rounds
             /\ \E w \in Wallets, after \in 0..MaxSafe : balance' = [balance EXCEPT ![w] = after]
  <2>1. /\ arg[t].w \in Wallets /\ arg[t].seen + arg[t].amount \in 0..MaxSafe
    BY <1>1 DEF RoundInv, Typed, CallTypes, AllReady, Ready, Paying, CommitAdjust
  <2>2. balance' = [balance EXCEPT ![arg[t].w] = arg[t].seen + arg[t].amount]
    BY <1>1 DEF CommitAdjust, MoveTx, Posted
  <2> QED
    BY <1>1, <2>1, <2>2 DEF roundVars
<1>2. ASSUME NEW t \in Calls,
             \/ Begin(t) \/ Blocking(t) \/ Abort(t) \/ AnswerUnsupported(t) \/ Replay(t)
             \/ \E outcome \in Outcomes : Decide(t, outcome)
      PROVE  UNCHANGED <<rounds, balance>>
  <2>1. Begin(t) => UNCHANGED <<rounds, balance>>
    BY DEF Begin, StartAdjust, StartOpen, StartClose, roundVars, walletVars
  <2>2. Blocking(t) => UNCHANGED <<rounds, balance>>
    BY DEF Blocking, LockGame, LockWallet, Refuse, InsertOpen, LockRound, roundVars, walletVars
  <2>3. /\ Abort(t) => UNCHANGED <<rounds, balance>>
        /\ AnswerUnsupported(t) => UNCHANGED <<rounds, balance>>
        /\ Replay(t) => UNCHANGED <<rounds, balance>>
        /\ \A outcome \in Outcomes : Decide(t, outcome) => UNCHANGED <<rounds, balance>>
    BY DEF Abort, AnswerUnsupported, Replay, Decide
  <2> QED
    BY <1>2, <2>1, <2>2, <2>3
<1>3. ASSUME \/ \E w \in Wallets, status \in WalletStatus : SetWalletStatus(w, status) /\ UNCHANGED roundVars
             \/ \E g \in Games, status \in {"active", "inactive"}, limit \in Limits : UpdateGame(g, status, limit)
             \/ \E g \in Games, rtp \in Options : SetRTP(g, rtp)
             \/ UNCHANGED vars
      PROVE  UNCHANGED <<rounds, balance>>
  BY <1>3 DEF SetWalletStatus, UpdateGame, SetRTP, vars, walletVars, roundVars
<1> QED
  BY <1>1, <1>2, <1>3 DEF Next, Continue

-----------------------------------------------------------------------------
(* What no step does *)

\* Every round is bound to the status, the limits and the return of its game as they are
\* at its commit, whenever the operator changes them.
THEOREM RoundsBindToConfig == Spec => BindsToConfigInForce
<1> DEFINE Binds == \A id \in Recorded' \ Recorded :
                        LET row == rounds'[id]
                            now == config[row.game]
                        IN  now.status = "active" /\ now.rtp = row.rtp /\ validWager(now.limit, row.stake)
<1>1. RoundInv /\ [Next]_vars => [Binds]_vars
  <2> SUFFICES ASSUME RoundInv, [Next]_vars PROVE Binds
    OBVIOUS
  <2>0. TypeOK
    BY DEF RoundInv, Typed
  <2>1. ASSUME NEW t \in Calls, CommitOpen(t) \/ CommitPlay(t) PROVE Binds
    <3>1. PICK id \in RoundIds, row \in Round : rounds[id] = None /\ Writes(id, row) /\ InForce(row)
      BY <2>1, NewRounds
    <3>2. \A i \in Recorded' \ Recorded : rounds'[i] = row
      BY <2>0, <3>1, WritesRow DEF Recorded, Writes
    <3> QED
      BY <3>1, <3>2 DEF InForce
  <2>2. ASSUME NEW t \in Calls, CommitClose(t) PROVE Binds
    <3>1. PICK id \in RoundIds, old \in Round, row \in Round : old = rounds[id] /\ Writes(id, row)
      BY <2>2, ClosedRounds
    <3>2. old # None
      OBVIOUS
    <3>3. Recorded' \ Recorded = {}
      BY <2>0, <3>1, <3>2, WritesRow DEF Recorded, Writes
    <3> QED
      BY <3>3
  <2>3. CASE ~\E t \in Calls : CommitOpen(t) \/ CommitPlay(t) \/ CommitClose(t)
    <3>1. UNCHANGED rounds
      BY <2>3, OtherSteps
    <3> QED
      BY <3>1 DEF Recorded
  <2> QED
    BY <2>1, <2>2, <2>3
<1> QED
  BY <1>1, RoundsHold, PTL DEF Spec, BindsToConfigInForce

\* A round stays recorded with what was bet, and once it is closed nothing about it
\* changes, though two calls may be closing it.
THEOREM ClosedStaysFinal == Spec => ClosedIsFinal
<1> DEFINE Final == \A id \in Recorded :
                        /\ id \in Recorded'
                        /\ rounds'[id] = [rounds[id] EXCEPT !.status = rounds'[id].status, !.win = rounds'[id].win,
                                                            !.multiplier = rounds'[id].multiplier]
                        /\ rounds[id].status # "open" => rounds'[id] = rounds[id]
<1>1. RoundInv /\ [Next]_vars => [Final]_vars
  <2> SUFFICES ASSUME RoundInv, [Next]_vars PROVE Final
    OBVIOUS
  <2>0. TypeOK
    BY DEF RoundInv, Typed
  <2>1. \A row \in Round : row = [row EXCEPT !.status = row.status, !.win = row.win,
                                              !.multiplier = row.multiplier]
    BY DEF Round
  <2>2. \A id \in Recorded : id \in RoundIds /\ rounds[id] \in Round /\ rounds[id] # None
    BY <2>0 DEF Recorded, TypeOK
  <2>3. ASSUME NEW t \in Calls, CommitOpen(t) \/ CommitPlay(t) PROVE Final
    <3>1. PICK k \in RoundIds, row \in Round : rounds[k] = None /\ Writes(k, row)
      BY <2>3, NewRounds
    <3>2. \A id \in Recorded : rounds'[id] = rounds[id]
      BY <2>0, <2>2, <3>1, WritesRow DEF Writes
    <3> QED
      BY <2>1, <2>2, <3>2 DEF Recorded
  <2>4. ASSUME NEW t \in Calls, CommitClose(t) PROVE Final
    <3>1. PICK k \in RoundIds, old \in Round, row \in Round :
              old = rounds[k] /\ Writes(k, row) /\ Closes(old, row)
      BY <2>4, ClosedRounds
    <3>2. /\ rounds'[k] = row /\ row # None /\ old.status = "open"
          /\ \A i \in RoundIds \ {k} : rounds'[i] = rounds[i]
      BY <2>0, <3>1, WritesRow DEF Writes, Closes
    <3>3. row = [old EXCEPT !.status = row.status, !.win = row.win, !.multiplier = row.multiplier]
      BY <3>1 DEF Closes
    <3>4. ASSUME NEW id \in Recorded
          PROVE  /\ id \in Recorded'
                 /\ rounds'[id] = [rounds[id] EXCEPT !.status = rounds'[id].status, !.win = rounds'[id].win,
                                                     !.multiplier = rounds'[id].multiplier]
                 /\ rounds[id].status # "open" => rounds'[id] = rounds[id]
      <4>1. CASE id = k
        BY <3>1, <3>2, <3>3, <4>1 DEF Recorded
      <4>2. CASE id # k
        <5>1. rounds'[id] = rounds[id] /\ id \in Recorded'
          BY <2>2, <3>2, <4>2 DEF Recorded
        <5> QED
          BY <2>1, <2>2, <5>1
      <4> QED
        BY <4>1, <4>2
    <3> QED
      BY <3>4
  <2>5. CASE ~\E t \in Calls : CommitOpen(t) \/ CommitPlay(t) \/ CommitClose(t)
    <3>1. UNCHANGED rounds
      BY <2>5, OtherSteps
    <3> QED
      BY <2>1, <2>2, <3>1 DEF Recorded
  <2> QED
    BY <2>3, <2>4, <2>5
<1> QED
  BY <1>1, RoundsHold, PTL DEF Spec, ClosedIsFinal

-----------------------------------------------------------------------------
(* The refinement: every commit is a step of Wagering, every other step a stutter *)

\* The rows seen as bets, as Bets is instantiated.
BetOf(row) == IF row = None THEN None
              ELSE [w |-> row.w, stake |-> row.stake, state |-> BetState[row.status], win |-> row.win]
BetRows == [id \in RoundIds |-> BetOf(rounds[id])]

LEMMA BetFields ==
    ASSUME NEW row \in Round
    PROVE  /\ BetOf(row) = [w |-> row.w, stake |-> row.stake, state |-> BetState[row.status], win |-> row.win]
           /\ BetOf(row) # None /\ BetOf(row).w = row.w /\ BetOf(row).stake = row.stake
           /\ BetOf(row).state = BetState[row.status] /\ BetOf(row).win = row.win
           /\ row.status = "open" => BetState[row.status] = "open"
           /\ row.status = "settled" => BetState[row.status] = "resolved"
           /\ row.status \in {"cancelled", "failed"} => BetState[row.status] = "void"
<1>1. row # None /\ row.w \in Wallets /\ row.stake \in Stakes /\ row.win \in Nat \cup {None}
      /\ row.status \in {"open", "settled", "cancelled", "failed"}
  BY DEF Round
<1>2. /\ BetState["open"] = "open" /\ BetState["settled"] = "resolved"
      /\ BetState["cancelled"] = "void" /\ BetState["failed"] = "void"
  BY DEF BetState
<1>3. BetOf(row) = [w |-> row.w, stake |-> row.stake, state |-> BetState[row.status], win |-> row.win]
  BY <1>1 DEF BetOf
<1>4. BetState[row.status] \in {"open", "resolved", "void"}
  BY <1>1, <1>2
<1>5. BetOf(row) \in [w : Wallets, stake : Stakes, state : {"open", "resolved", "void"}, win : Nat \cup {None}]
  BY <1>1, <1>3, <1>4
<1> QED
  BY <1>1, <1>2, <1>3, <1>5, BetAssumption

LEMMA ResolvedBet ==
    ASSUME NEW w, NEW stake, NEW win, NEW paid
    PROVE  [[w |-> w, stake |-> stake, state |-> "open", win |-> win] EXCEPT !.state = "resolved", !.win = paid]
           = [w |-> w, stake |-> stake, state |-> "resolved", win |-> paid]
<1> DEFINE open == [w |-> w, stake |-> stake, state |-> "open", win |-> win]
           resolved == [w |-> w, stake |-> stake, state |-> "resolved", win |-> win]
<1>1. [open EXCEPT !.state = "resolved", !.win = paid] = [[open EXCEPT !.state = "resolved"] EXCEPT !.win = paid]
  OBVIOUS
<1>2. [open EXCEPT !.state = "resolved"] = resolved
  OBVIOUS
<1>3. [resolved EXCEPT !.win = paid] = [w |-> w, stake |-> stake, state |-> "resolved", win |-> paid]
  OBVIOUS
<1> QED
  BY <1>1, <1>2, <1>3, Zenon

LEMMA BetsWritten ==
    ASSUME TypeOK, NEW k \in RoundIds, NEW row \in Round, Writes(k, row)
    PROVE  BetRows' = [BetRows EXCEPT ![k] = BetOf(row)]
<1>1. \A id \in RoundIds : rounds'[id] = IF id = k THEN row ELSE rounds[id]
  BY WritesRow DEF Writes
<1>2. BetRows' = [id \in RoundIds |-> BetOf(rounds'[id])]
  BY DEF BetRows, BetOf
<1> QED
  BY <1>1, <1>2 DEF BetRows

\* A new row is a bet placed, or played out at once.
LEMMA NewBets ==
    ASSUME RoundInv, NEW t \in Calls, CommitOpen(t) \/ CommitPlay(t)
    PROVE  Bets!Next
<1>0. TypeOK /\ balance \in [Wallets -> Int]
  BY DEF RoundInv, Typed, TypeOK, WalletTypeOK
<1>1. PICK id \in RoundIds, row \in Round : rounds[id] = None /\ Writes(id, row) /\ Bought(row)
  BY NewRounds
<1>2. PICK w \in Wallets, stake \in 1..MaxSafe : w = row.w /\ stake = row.stake /\ stake <= balance[w]
  BY <1>1 DEF Bought, Round
<1>3. /\ BetRows = [i \in RoundIds |-> BetOf(rounds[i])] /\ BetRows[id] = None
      /\ BetRows' = [BetRows EXCEPT ![id] = [w |-> w, stake |-> stake, state |-> BetState[row.status],
                                             win |-> row.win]]
  BY <1>0, <1>1, <1>2, BetsWritten, BetFields DEF BetRows, BetOf
<1>4. CASE row.status = "open"
  <2>1. row.win = None /\ balance' = [balance EXCEPT ![w] = balance[w] - stake]
    BY <1>1, <1>2, <1>4 DEF Bought
  <2>2. BetRows' = [BetRows EXCEPT ![id] = [w |-> w, stake |-> stake, state |-> "open", win |-> None]]
    BY <1>3, <1>4, <2>1, BetFields
  <2>3. Bets!Place(id, w, stake)
    BY <1>2, <1>3, <2>1, <2>2 DEF Bets!Place, BetRows, BetOf
  <2> QED
    BY <2>3 DEF Bets!Next
<1>5. CASE row.status = "settled"
  <2>1. PICK win \in 0..MaxSafe : win = row.win
    BY <1>1, <1>5 DEF Bought
  <2>2. /\ balance[w] - stake + win <= MaxSafe
        /\ balance' = [balance EXCEPT ![w] = balance[w] - stake + win]
    BY <1>1, <1>2, <1>5, <2>1 DEF Bought
  <2>3. BetRows' = [BetRows EXCEPT ![id] = [w |-> w, stake |-> stake, state |-> "resolved", win |-> win]]
    BY <1>3, <1>5, <2>1, BetFields
  <2>4. Bets!Play(id, w, stake, win)
    BY <1>2, <1>3, <2>2, <2>3 DEF Bets!Play, BetRows, BetOf
  <2> QED
    BY <2>4 DEF Bets!Next
<1> QED
  BY <1>1, <1>4, <1>5 DEF Bought

\* A close resolves the bet, or voids it.
LEMMA ClosedBets ==
    ASSUME RoundInv, NEW t \in Calls, CommitClose(t)
    PROVE  Bets!Next
<1>0. TypeOK /\ balance \in [Wallets -> Int]
  BY DEF RoundInv, Typed, TypeOK, WalletTypeOK
<1>1. PICK id \in RoundIds, old \in Round, row \in Round :
          old = rounds[id] /\ Writes(id, row) /\ Closes(old, row)
  BY ClosedRounds
<1>2. PICK w \in Wallets, stake \in Nat : w = old.w /\ stake = old.stake
  BY DEF Round
<1>3. /\ BetRows = [i \in RoundIds |-> BetOf(rounds[i])] /\ BetRows[id] = BetOf(old)
      /\ BetRows' = [BetRows EXCEPT ![id] = [w |-> w, stake |-> stake, state |-> BetState[row.status],
                                             win |-> row.win]]
  BY <1>0, <1>1, <1>2, BetsWritten, BetFields DEF BetRows, Closes
<1>4. BetOf(old) = [w |-> w, stake |-> stake, state |-> "open", win |-> old.win] /\ BetOf(old) # None
  BY <1>1, <1>2, BetFields DEF Closes
<1>5. CASE row.status = "settled"
  <2>1. PICK win \in 0..MaxSafe : win = row.win
    BY <1>1, <1>5 DEF Closes
  <2>2. balance[w] + win <= MaxSafe /\ balance' = [balance EXCEPT ![w] = balance[w] + win]
    BY <1>1, <1>2, <1>5, <2>1 DEF Closes
  <2>3. BetRows' = [BetRows EXCEPT ![id] = [BetRows[id] EXCEPT !.state = "resolved", !.win = win]]
    <3>1. BetState[row.status] = "resolved"
      BY <1>5, BetFields
    <3>2. [BetRows[id] EXCEPT !.state = "resolved", !.win = win] =
              [w |-> w, stake |-> stake, state |-> "resolved", win |-> win]
      <4>1. BetRows[id] = [w |-> w, stake |-> stake, state |-> "open", win |-> old.win]
        BY <1>3, <1>4
      <4>2. PICK before : before = old.win
        OBVIOUS
      <4>3. [[w |-> w, stake |-> stake, state |-> "open", win |-> before] EXCEPT !.state = "resolved", !.win = win]
            = [w |-> w, stake |-> stake, state |-> "resolved", win |-> win]
        BY ResolvedBet
      <4> QED
        BY <4>1, <4>2, <4>3, Zenon
    <3> QED
      BY <1>3, <2>1, <3>1, <3>2
  <2>4. BetRows[id] # None /\ BetRows[id].state = "open" /\ BetRows[id].w = w
    BY <1>3, <1>4
  <2>5. Bets!Resolve(id, win)
    BY <1>3, <2>2, <2>3, <2>4 DEF Bets!Resolve, Bets!Open, BetRows, BetOf
  <2> QED
    BY <2>5 DEF Bets!Next
<1>6. CASE row.status \in {"cancelled", "failed"}
  <2>1. row.win = old.win /\ balance[w] + stake <= MaxSafe
        /\ balance' = [balance EXCEPT ![w] = balance[w] + stake]
    BY <1>1, <1>2, <1>6 DEF Closes
  <2>2. BetRows' = [BetRows EXCEPT ![id] = [BetRows[id] EXCEPT !.state = "void"]]
    <3>1. BetState[row.status] = "void"
      BY <1>6, BetFields
    <3>2. [BetRows[id] EXCEPT !.state = "void"] =
              [w |-> w, stake |-> stake, state |-> "void", win |-> old.win]
      BY <1>3, <1>4
    <3> QED
      BY <1>3, <2>1, <3>1, <3>2
  <2>3. BetRows[id] # None /\ BetRows[id].state = "open" /\ BetRows[id].w = w /\ BetRows[id].stake = stake
    BY <1>3, <1>4
  <2>4. Bets!Void(id)
    BY <1>3, <2>1, <2>2, <2>3 DEF Bets!Void, Bets!Open, BetRows, BetOf
  <2> QED
    BY <2>4 DEF Bets!Next
<1> QED
  BY <1>1, <1>5, <1>6 DEF Closes

LEMMA StepsAreBets ==
    ASSUME RoundInv, [Next]_vars
    PROVE  [Bets!Next]_Bets!vars
<1>1. CASE \E t \in Calls : CommitOpen(t) \/ CommitPlay(t) \/ CommitClose(t)
  BY <1>1, NewBets, ClosedBets
<1>2. CASE ~\E t \in Calls : CommitOpen(t) \/ CommitPlay(t) \/ CommitClose(t)
  <2>1. /\ UNCHANGED rounds
        /\ \/ UNCHANGED balance
           \/ \E w \in Wallets, after \in 0..MaxSafe : balance' = [balance EXCEPT ![w] = after]
    BY <1>2, OtherSteps
  <2>2. ASSUME NEW w \in Wallets, NEW after \in 0..MaxSafe, balance' = [balance EXCEPT ![w] = after]
        PROVE  Bets!Next
    <3>1. Bets!Move(w, after)
      BY <2>1, <2>2 DEF Bets!Move
    <3> QED
      BY <3>1 DEF Bets!Next
  <2>3. CASE UNCHANGED balance
    BY <2>1, <2>3 DEF Bets!vars
  <2> QED
    BY <2>1, <2>2, <2>3
<1> QED
  BY <1>1, <1>2

\* Rounds implements Wagering: whatever calls interleave or abort, the funds and the bets
\* move as if a play were one step, and an open bet is resolved or voided once.
THEOREM RoundsAreBets == Spec => PlaysAreBets
<1>1. Init => Bets!Init
  BY DEF Init, WalletInit, Bets!Init
<1>2. RoundInv /\ [Next]_vars => [Bets!Next]_Bets!vars
  BY StepsAreBets
<1> QED
  BY <1>1, <1>2, RoundsHold, PTL DEF Spec, PlaysAreBets, Bets!Spec
===============================================================================
