-------------------------------- MODULE Rounds --------------------------------
(***************************************************************************)
(* Game rounds (backend/internal/round) and the part of the games row they  *)
(* bind to (backend/internal/game).  Play is one transaction: it locks the  *)
(* game row with its wager limits, then the wallet, records the round and   *)
(* debits the stake, asks the engine, credits the win and settles the round.*)
(* Open, Settle, Cancel and Fail do the same in several transactions; they  *)
(* are exported and tested, and no route calls them.                        *)
(*                                                                          *)
(* A key is a round_key: Play's carries the player's id, so it belongs to   *)
(* one player.                                                              *)
(***************************************************************************)
EXTENDS Wallet

CONSTANTS
    RoundIds,
    Keys,           \* round keys
    Games,
    Offered,        \* <<game, wallet>>: the game has a limits row in the wallet's currency
    Limits,         \* [min, max, step] an operator may set
    Options,        \* returns the engine ships, in basis points
    Params,         \* JSON parameters, one of them the empty object
    EmptyObject,
    Stakes,
    Outcomes,       \* what an engine may answer: [win, multiplier]
    BigWin,         \* BigWinMultiplierHundredths
    Operations      \* the functions of the package that are called

ASSUME RoundsAssumption ==
    /\ RoundIds \subseteq Ids
    /\ None \notin Keys \cup Games \cup Wallets \cup Options
    /\ Offered \subseteq Games \X Wallets
    /\ Limits \subseteq [min : Nat \ {0}, max : Nat \ {0}, step : Nat \ {0}]
    /\ EmptyObject \in Params
    /\ Stakes \subseteq Nat \ {0}
    /\ Outcomes \subseteq [win : Nat, multiplier : Nat]
    /\ BigWin \in Nat
    /\ Operations \subseteq {"play", "open", "settle", "cancel", "fail"}

VARIABLES
    rounds,         \* game_rounds rows, or None
    config,         \* status, return and limits of a game
    gameLock,       \* the call holding a games row and its limits FOR UPDATE
    order,          \* what a call of this package was asked for
    notices,        \* notifications
    answers         \* history: what each accepted Play or Open answered

roundVars == <<rounds, config, gameLock, order, notices, answers>>
vars == <<walletVars, pc, arg, trail, roundVars>>

Body == [key : Keys, w : Wallets, game : Games, stake : Stakes, params : Params]
Order == [op : Operations, body : Body \cup {None}, replaced : BOOLEAN, outcome : Outcomes \cup {None}]
Round == [key : Keys, w : Wallets, game : Games, stake : Stakes, params : Params, rtp : Options,
          status : {"open", "settled", "cancelled", "failed"},
          win : Nat \cup {None}, multiplier : Nat \cup {None}]
ASSUME RoundAssumption == None \notin Round
Config == [status : {"active", "inactive"}, rtp : Options \cup {None}, limit : Limits]

OpenSteps == {"asked", "unsupported", "priced", "entered", "recorded", "decided"}
Steps == {"idle", "adjusted", "closing", "closed"} \cup OpenSteps

\* game.Create leaves a game without a return.
Init ==
    /\ WalletInit
    /\ rounds = [id \in RoundIds |-> None]
    /\ config \in [Games -> [status : {"inactive"}, rtp : {None}, limit : Limits]]
    /\ gameLock = [g \in Games |-> None]
    /\ order = [t \in Calls |-> None]
    /\ notices = {}
    /\ answers = {}

Recorded == {id \in RoundIds : rounds[id] # None}
FreeIds == {id \in RoundIds : rounds[id] = None /\ \A t \in Calls : arg[t].id # id}

UnlockGames(t) == gameLock' = [g \in Games |-> IF gameLock[g] = t THEN None ELSE gameLock[g]]

\* The transaction of call t is over.
EndTx(t) ==
    /\ UnlockWallets(t) /\ UnlockGames(t)
    /\ Finish(t)
    /\ order' = [order EXCEPT ![t] = None]

-----------------------------------------------------------------------------
(* Keys *)

ByKey(key) == {id \in Recorded : rounds[id].key = key}

sameOpenRequest(id, body) ==
    /\ rounds[id].game = body.game
    /\ rounds[id].w = body.w
    /\ rounds[id].stake = body.stake

\* Mutant: the stored parameters are not compared.
ReplayAnyParams(id, body) == rounds[id].status # "open"

\* replay: an open round, or other parameters, are refused.
Replayable(id, body) == rounds[id].status # "open" /\ rounds[id].params = body.params

\* The answer to a key that is already recorded, if it is not refused.
AnswerRecorded(op, body) ==
    answers' = answers \cup
        {[op |-> op, body |-> body, id |-> id, win |-> rounds[id].win] :
            id \in {i \in ByKey(body.key) : sameOpenRequest(i, body) /\ (op = "play" => Replayable(i, body))}}

-----------------------------------------------------------------------------
(* Play and Open *)

\* The handler's playable answers 404 unless the game is active, to a retry too.
\* Then findByKey, and lockGame's statement starts: it has seen the limits row.
StartOpen(t, op, body) ==
    /\ pc[t] = "idle"
    /\ op = "play" => config[body.game].status = "active"
    /\ IF ByKey(body.key) # {}
       THEN /\ AnswerRecorded(op, body)
            /\ UNCHANGED <<pc, order>>
       ELSE /\ pc' = [pc EXCEPT ![t] = "asked"]
            /\ order' = [order EXCEPT ![t] =
                   [op |-> op, body |-> body, replaced |-> FALSE, outcome |-> None]]
            /\ UNCHANGED answers
    /\ UNCHANGED <<walletVars, arg, trail, rounds, config, gameLock, notices>>

\* Mutant: SELECT without FOR UPDATE.
ReadGame(t) ==
    LET g == order[t].body.game
    IN  /\ pc[t] = "asked"
        /\ config[g].status = "active"
        /\ pc' = [pc EXCEPT ![t] = "priced"]
        /\ UNCHANGED <<walletVars, arg, trail, roundVars>>

\* lockGame: waits for the game row.  The limits row is locked by the version
\* the statement saw: if an Update deleted it meanwhile, the join is empty, as
\* it is for a currency the game does not play in (ErrUnsupportedCurrency).
LockGame(t) ==
    LET g == order[t].body.game
    IN  /\ pc[t] = "asked"
        /\ gameLock[g] = None
        /\ IF order[t].replaced \/ <<g, order[t].body.w>> \notin Offered
           THEN /\ pc' = [pc EXCEPT ![t] = "unsupported"]
                /\ UNCHANGED <<walletLock, gameLock, arg, order>>
           ELSE IF config[g].status = "active"
           THEN /\ gameLock' = [gameLock EXCEPT ![g] = t]
                /\ pc' = [pc EXCEPT ![t] = "priced"]
                /\ UNCHANGED <<walletLock, arg, order>>
           ELSE EndTx(t)
        /\ UNCHANGED <<balance, walletStatus, ledger, trail, rounds, config, notices, answers>>

\* writePlayError: "The game does not play in that currency".
AnswerUnsupported(t) ==
    /\ pc[t] = "unsupported"
    /\ EndTx(t)
    /\ UNCHANGED <<balance, walletStatus, ledger, trail, rounds, config, notices, answers>>

LockWallet(t) ==
    /\ pc[t] = "priced"
    /\ LockWalletRow(t, order[t].body.w)
    /\ pc' = [pc EXCEPT ![t] = "entered"]
    /\ arg' = [arg EXCEPT ![t] = [NoArg EXCEPT !.w = order[t].body.w, !.amount = -order[t].body.stake]]
    /\ UNCHANGED <<balance, walletStatus, ledger, trail, roundVars>>

validWager(limit, stake) ==
    /\ IsSafeMinor(stake)
    /\ limit.min <= stake /\ stake <= limit.max
    /\ (stake - limit.min) % limit.step = 0

\* What openTx checks before it inserts, holding the game and the wallet.
Playable(t) ==
    LET body == order[t].body
    IN  /\ validWager(config[body.game].limit, body.stake)
        /\ config[body.game].rtp \in Options

\* Mutant: no unique index on round_key.
NoUniqueIndex(t) == TRUE

\* The insert waits while another transaction has the same key inserted and
\* uncommitted: one for another game and another currency, since a call for the
\* same game or wallet would hold a lock this call has passed.
KeyFree(t) ==
    ~\E other \in Calls \ {t} :
        /\ pc[other] \in {"recorded", "decided"}
        /\ order[other].body.key = order[t].body.key

\* The recheck under the locks, or ON CONFLICT DO NOTHING, found the key.
Replay(t) ==
    /\ pc[t] = "entered"
    /\ ByKey(order[t].body.key) # {}
    /\ AnswerRecorded(order[t].op, order[t].body)
    /\ EndTx(t)
    /\ UNCHANGED <<balance, walletStatus, ledger, trail, rounds, config, notices>>

\* A check fails, or the insert went through and MoveTx refuses the stake.
Refused(t) ==
    /\ pc[t] = "entered"
    /\ ByKey(order[t].body.key) = {}
    /\ \/ ~Playable(t)
       \/ KeyFree(t) /\ ~(Movable(arg[t].w, arg[t].amount) /\ FreeIds # {})

\* Mutant: the transaction is left open.
RefuseWithoutRollback(t) ==
    /\ Refused(t)
    /\ Finish(t)
    /\ order' = [order EXCEPT ![t] = None]
    /\ UNCHANGED <<walletVars, trail, rounds, config, gameLock, notices, answers>>

Refuse(t) ==
    /\ Refused(t)
    /\ EndTx(t)
    /\ UNCHANGED <<balance, walletStatus, ledger, trail, rounds, config, notices, answers>>

InsertOpen(t, id) ==
    /\ pc[t] = "entered"
    /\ ByKey(order[t].body.key) = {}
    /\ KeyFree(t)
    /\ Playable(t)
    /\ Movable(arg[t].w, arg[t].amount)
    /\ id \in FreeIds
    /\ pc' = [pc EXCEPT ![t] = "recorded"]
    /\ arg' = [arg EXCEPT ![t].id = id, ![t].seen = balance[arg[t].w]]
    /\ UNCHANGED <<walletVars, trail, roundVars>>

\* Mutant: "pending" is not a status of a round.
NewPendingRound(t, params, status, result) ==
    LET body == order[t].body
    IN  [key |-> body.key, w |-> body.w, game |-> body.game, stake |-> body.stake, params |-> params,
         rtp |-> config[body.game].rtp, status |-> IF status = "open" THEN "pending" ELSE status,
         win |-> result.win, multiplier |-> result.multiplier]

NoResult == [win |-> None, multiplier |-> None]

\* The row openTx inserted, bound to the return in force.
NewRound(t, params, status, result) ==
    LET body == order[t].body
    IN  [key |-> body.key, w |-> body.w, game |-> body.game, stake |-> body.stake, params |-> params,
         rtp |-> config[body.game].rtp, status |-> status,
         win |-> result.win, multiplier |-> result.multiplier]

CommitOpen(t) ==
    LET id == arg[t].id
    IN  /\ pc[t] = "recorded"
        /\ order[t].op = "open"
        /\ rounds' = [rounds EXCEPT ![id] = NewRound(t, EmptyObject, "open", NoResult)]
        /\ MoveTx(arg[t].w, "wager", id, arg[t].amount, arg[t].seen)
        /\ answers' = answers \cup {[op |-> "open", body |-> order[t].body, id |-> id, win |-> None]}
        /\ EndTx(t)
        /\ UNCHANGED <<walletStatus, trail, config, notices>>

\* Mutant: the win is checked alone.
CreditableAlone(t, outcome) == IsSafeMinor(outcome.win)

\* The engine's answer and settleTx: validateSettle, then MoveTx's check of the
\* win against the balance the stake has left.
Creditable(t, outcome) ==
    /\ IsSafeMinor(outcome.win)
    /\ IsSafeMinor(arg[t].seen + arg[t].amount + outcome.win)

Decide(t, outcome) ==
    /\ pc[t] = "recorded"
    /\ order[t].op = "play"
    /\ IF Creditable(t, outcome)
       THEN /\ pc' = [pc EXCEPT ![t] = "decided"]
            /\ order' = [order EXCEPT ![t].outcome = outcome]
            /\ UNCHANGED <<walletLock, gameLock, arg>>
       ELSE EndTx(t)
    /\ UNCHANGED <<balance, walletStatus, ledger, trail, rounds, config, notices, answers>>

\* Mutant: a win at the threshold is not a big one.
AboveThreshold(outcome) == outcome.win > 0 /\ BigWin > 0 /\ outcome.multiplier > BigWin

IsBigWin(outcome) == outcome.win > 0 /\ BigWin > 0 /\ outcome.multiplier >= BigWin

NotifyWin(id, outcome) ==
    notices' = IF IsBigWin(outcome) THEN notices \cup {[id |-> id, amount |-> outcome.win]} ELSE notices

\* Mutant: the win is computed from the balance before the wager.
PostPlayStale(w, id, stake, win, seen) ==
    LET wager == [kind |-> "wager", ref |-> id, amount |-> -stake, before |-> seen, after |-> seen - stake]
        credit == [kind |-> "win", ref |-> id, amount |-> win, before |-> seen, after |-> seen + win]
    IN  /\ balance' = [balance EXCEPT ![w] = IF win > 0 THEN seen + win ELSE seen - stake]
        /\ ledger' = [ledger EXCEPT ![w] = @ \o IF win > 0 THEN <<wager, credit>> ELSE <<wager>>]

\* The wager and the win of one transaction: two ledger rows, or one when
\* nothing was won.
PostPlay(w, id, stake, win, seen) ==
    LET after == seen - stake
        wager == [kind |-> "wager", ref |-> id, amount |-> -stake, before |-> seen, after |-> after]
        credit == [kind |-> "win", ref |-> id, amount |-> win, before |-> after, after |-> after + win]
    IN  /\ balance' = [balance EXCEPT ![w] = after + win]
        /\ ledger' = [ledger EXCEPT ![w] = @ \o IF win > 0 THEN <<wager, credit>> ELSE <<wager>>]

CommitPlay(t) ==
    LET id == arg[t].id
        body == order[t].body
        outcome == order[t].outcome
    IN  /\ pc[t] = "decided"
        /\ rounds' = [rounds EXCEPT ![id] = NewRound(t, body.params, "settled", outcome)]
        /\ PostPlay(body.w, id, body.stake, outcome.win, arg[t].seen)
        /\ NotifyWin(id, outcome)
        /\ answers' = answers \cup {[op |-> "play", body |-> body, id |-> id, win |-> outcome.win]}
        /\ EndTx(t)
        /\ UNCHANGED <<walletStatus, trail, config>>

-----------------------------------------------------------------------------
(* Settle, Cancel and Fail *)

\* lockForLifecycle's first read: no lock, only the wallet is taken from it.
StartClose(t, op, id, outcome) ==
    /\ pc[t] = "idle"
    /\ rounds[id] # None
    /\ pc' = [pc EXCEPT ![t] = "closing"]
    /\ arg' = [arg EXCEPT ![t] = [NoArg EXCEPT !.w = rounds[id].w, !.id = id]]
    /\ order' = [order EXCEPT ![t] = [op |-> op, body |-> None, replaced |-> FALSE, outcome |-> outcome]]
    /\ UNCHANGED <<walletVars, trail, rounds, config, gameLock, notices, answers>>

Due(t) == IF order[t].op = "settle" THEN order[t].outcome.win ELSE rounds[arg[t].id].stake
KindOf(t) == IF order[t].op = "settle" THEN "win" ELSE "refund"

CanClose(t) ==
    \/ Due(t) = 0
    \/ Posted(arg[t].w, KindOf(t), arg[t].id)
    \/ Movable(arg[t].w, Due(t))

\* Mutant: the round is not read again once its wallet is locked.
ClosePreviewed(t) ==
    LET w == arg[t].w
    IN  /\ pc[t] = "closing"
        /\ LockWalletRow(t, w)
        /\ pc' = [pc EXCEPT ![t] = "closed"]
        /\ arg' = [arg EXCEPT ![t].amount = Due(t), ![t].seen = balance[w]]
        /\ UNCHANGED <<balance, walletStatus, ledger, trail, roundVars>>

\* The wallet, then the round: whoever changes a round holds its wallet, so
\* lockByID never waits.  A round that is not open ends the call with its row,
\* ErrRoundSettled or ErrRoundClosed.
LockRound(t) ==
    LET w == arg[t].w
    IN  /\ pc[t] = "closing"
        /\ walletLock[w] \in {None, t}
        /\ IF rounds[arg[t].id].status = "open" /\ CanClose(t)
           THEN /\ LockWalletRow(t, w)
                /\ pc' = [pc EXCEPT ![t] = "closed"]
                /\ arg' = [arg EXCEPT ![t].amount = Due(t), ![t].seen = balance[w]]
                /\ UNCHANGED <<gameLock, order>>
           ELSE EndTx(t)
        /\ UNCHANGED <<balance, walletStatus, ledger, trail, rounds, config, notices, answers>>

Closed == [settle |-> "settled", cancel |-> "cancelled", fail |-> "failed"]

\* Mutant: the refund is left out when a round is cancelled.
CommitCloseKeeping(t) ==
    LET id == arg[t].id
        op == order[t].op
    IN  /\ pc[t] = "closed"
        /\ IF op = "settle" /\ arg[t].amount > 0
           THEN MoveTx(arg[t].w, KindOf(t), id, arg[t].amount, arg[t].seen)
           ELSE UNCHANGED <<balance, ledger>>
        /\ rounds' = [rounds EXCEPT ![id].status = Closed[op],
                                    ![id].win = IF op = "settle" THEN arg[t].amount ELSE @,
                                    ![id].multiplier = IF op = "settle" THEN order[t].outcome.multiplier ELSE @]
        /\ IF op = "settle" THEN NotifyWin(id, order[t].outcome) ELSE UNCHANGED notices
        /\ EndTx(t)
        /\ UNCHANGED <<walletStatus, trail, config, answers>>

\* settleTx moves money only for a positive win; terminate always refunds.
CommitClose(t) ==
    LET id == arg[t].id
        op == order[t].op
    IN  /\ pc[t] = "closed"
        /\ IF arg[t].amount > 0
           THEN MoveTx(arg[t].w, KindOf(t), id, arg[t].amount, arg[t].seen)
           ELSE UNCHANGED <<balance, ledger>>
        /\ rounds' = [rounds EXCEPT ![id].status = Closed[op],
                                    ![id].win = IF op = "settle" THEN arg[t].amount ELSE @,
                                    ![id].multiplier = IF op = "settle" THEN order[t].outcome.multiplier ELSE @]
        /\ IF op = "settle" THEN NotifyWin(id, order[t].outcome) ELSE UNCHANGED notices
        /\ EndTx(t)
        /\ UNCHANGED <<walletStatus, trail, config, answers>>

-----------------------------------------------------------------------------
(* The rest of the system *)

\* A call ends without committing: the engine refuses the parameters or the
\* payout overflows, the client goes away, the server or the database restarts.
Abort(t) ==
    /\ pc[t] # "idle"
    /\ EndTx(t)
    /\ UNCHANGED <<balance, walletStatus, ledger, trail, rounds, config, notices, answers>>

\* game.Update, which holds the game row and nothing else: it deletes and
\* inserts the limits rows even when the operator did not touch them.
UpdateGame(g, status, limit) ==
    /\ gameLock[g] = None
    /\ config' = [config EXCEPT ![g].status = status, ![g].limit = limit]
    /\ order' = [t \in Calls |->
           IF pc[t] = "asked" /\ order[t].body.game = g THEN [order[t] EXCEPT !.replaced = TRUE] ELSE order[t]]
    /\ UNCHANGED <<walletVars, pc, arg, trail, rounds, gameLock, notices, answers>>

SetRTP(g, rtp) ==
    /\ gameLock[g] = None
    /\ config[g].rtp # rtp
    /\ config' = [config EXCEPT ![g].rtp = rtp]
    /\ UNCHANGED <<walletVars, pc, arg, trail, rounds, gameLock, order, notices, answers>>

\* What a call in flight does next.
Continue(t) ==
    \/ CommitAdjust(t) /\ UNCHANGED roundVars
    \/ AnswerUnsupported(t)
    \/ Replay(t)
    \/ CommitOpen(t)
    \/ \E outcome \in Outcomes : Decide(t, outcome)
    \/ CommitPlay(t)
    \/ CommitClose(t)

\* The statements that may wait for a lock another call holds.
Blocking(t) ==
    \/ LockGame(t)
    \/ LockWallet(t)
    \/ Refuse(t)
    \/ \E id \in RoundIds : InsertOpen(t, id)
    \/ LockRound(t)

Begin(t) ==
    \/ \E w \in Wallets, amount \in AdjustAmounts : StartAdjust(t, w, amount) /\ UNCHANGED roundVars
    \/ \E op \in Operations \cap {"play", "open"}, body \in Body :
          (op = "open" => body.params = EmptyObject) /\ StartOpen(t, op, body)
    \/ \E op \in Operations \cap {"settle"}, id \in RoundIds, outcome \in Outcomes : StartClose(t, op, id, outcome)
    \/ \E op \in Operations \cap {"cancel", "fail"}, id \in RoundIds : StartClose(t, op, id, None)

Next ==
    \/ \E t \in Calls : Begin(t) \/ Continue(t) \/ Blocking(t) \/ Abort(t)
    \/ \E w \in Wallets, status \in WalletStatus : SetWalletStatus(w, status) /\ UNCHANGED roundVars
    \/ \E g \in Games, status \in {"active", "inactive"}, limit \in Limits : UpdateGame(g, status, limit)
    \/ \E g \in Games, rtp \in Options : SetRTP(g, rtp)

Spec == Init /\ [][Next]_vars

\* As in Withdrawals: a call in flight is run until it answers, and Postgres
\* does not pass over a waiter forever.
FairSpec ==
    /\ Spec
    /\ \A t \in Calls : WF_vars(Continue(t)) /\ SF_vars(Blocking(t))

-----------------------------------------------------------------------------
(* Properties *)

\* Types of the state of Play, Open, Settle, Cancel, Fail and MoveTx.
TypeOK ==
    /\ WalletTypeOK
    /\ pc \in [Calls -> Steps]
    /\ rounds \in [RoundIds -> Round \cup {None}]
    /\ config \in [Games -> Config]
    /\ gameLock \in [Games -> Calls \cup {None}]
    /\ order \in [Calls -> Order \cup {None}]

\* A round's status and the ledger agree, whatever plays, settlements,
\* cancellations and aborts interleave: its stake was debited once, and then its
\* win was credited once if it settled with one, or its stake came back once.
MoneyFollowsRound ==
    \A id \in RoundIds, w \in Wallets :
        LET row == rounds[id]
            posted == {<<ledger[w][i].kind, ledger[w][i].amount>> :
                          i \in {j \in DOMAIN ledger[w] : ledger[w][j].ref = id}}
        IN  IF row = None THEN posted = {}
            ELSE IF row.w # w THEN posted = {}
            ELSE posted = {<<"wager", -row.stake>>} \cup
                    CASE row.status = "open" -> {}
                      [] row.status = "settled" -> IF row.win > 0 THEN {<<"win", row.win>>} ELSE {}
                      [] row.status \in {"cancelled", "failed"} -> {<<"refund", row.stake>>}

\* A round key names one round, and every answer to it is that round: what was
\* asked is what was recorded, the win told is the win on the row, and Play never
\* answers with a round that has no outcome.
OneRoundPerKey ==
    /\ \A id, other \in Recorded : rounds[id].key = rounds[other].key => id = other
    /\ \A a \in answers :
          /\ a.id \in ByKey(a.body.key)
          /\ LET row == rounds[a.id]
             IN  /\ row.game = a.body.game /\ row.w = a.body.w /\ row.stake = a.body.stake
                 /\ a.op = "play" =>
                       row.status # "open" /\ row.params = a.body.params /\ row.win = a.win

\* A round is recorded only for an active game, with a stake the limits in force
\* at that moment allow and the return in force at that moment: the operator
\* cannot change any of them between the check and the commit.
BindsToConfigInForce ==
    [][\A id \in Recorded' \ Recorded :
          LET row == rounds'[id]
              now == config[row.game]
          IN  now.status = "active" /\ now.rtp = row.rtp /\ validWager(now.limit, row.stake)]_vars

\* A round never disappears, what was bet never changes, and once it is settled,
\* cancelled or failed it stays as it is.
ClosedIsFinal ==
    [][\A id \in Recorded :
          /\ id \in Recorded'
          /\ rounds'[id] = [rounds[id] EXCEPT !.status = rounds'[id].status, !.win = rounds'[id].win,
                                             !.multiplier = rounds'[id].multiplier]
          /\ rounds[id].status # "open" => rounds'[id] = rounds[id]]_vars

\* The player is told of a win exactly when a settled round paid at or above the
\* threshold, with the amount that was credited.
BigWinsAreTold ==
    /\ \A n \in notices : n.id \in Recorded /\ rounds[n.id].status = "settled" /\ rounds[n.id].win = n.amount
    /\ \A id \in Recorded :
          rounds[id].status = "settled" =>
              (/\ rounds[id].win > 0
               /\ BigWin > 0
               /\ rounds[id].multiplier >= BigWin
               <=> \E n \in notices : n.id = id)

\* The rows seen as bets; a bet is never mistaken for no bet.
ASSUME BetAssumption ==
    None \notin [w : Wallets, stake : Stakes, state : {"open", "resolved", "void"}, win : Nat \cup {None}]

\* Refinement.
BetState == [open |-> "open", settled |-> "resolved", cancelled |-> "void", failed |-> "void"]
Bets == INSTANCE Wagering WITH
    BetIds <- RoundIds,
    MaxFunds <- MaxSafe,
    funds <- balance,
    bet <- [id \in RoundIds |->
               IF rounds[id] = None THEN None
               ELSE [w |-> rounds[id].w, stake |-> rounds[id].stake,
                     state |-> BetState[rounds[id].status], win |-> rounds[id].win]]

\* Every commit is one step of Wagering: Play's stake and win are one.
PlaysAreBets == Bets!Spec

\* A call that has started comes to an end: game rows, wallet rows and
\* uncommitted keys are waited for in an order that has no cycle.
CallsEnd == \A t \in Calls : pc[t] # "idle" ~> pc[t] = "idle"

\* "The game does not play in that currency" is answered only for a game that
\* has no limits in that currency.
UnsupportedIsTrue ==
    \A t \in Calls : pc[t] = "unsupported" => <<order[t].body.game, order[t].body.w>> \notin Offered
===============================================================================
