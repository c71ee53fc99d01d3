-------------------------------- MODULE Wallet --------------------------------
(***************************************************************************)
(* The wallet rows and their ledger (backend/internal/wallet/repository.go) *)
(* and the pool of API calls that move money on them.                       *)
(*                                                                          *)
(* A call is one HTTP request being served: it runs one Postgres            *)
(* transaction at READ COMMITTED.  pc[t] is where call t stands in its      *)
(* handler, arg[t] what it has read and decided so far.  Row locks taken    *)
(* with SELECT ... FOR UPDATE are held until the transaction ends, so the   *)
(* committed state (balance, ledger, ...) changes only in commit actions;   *)
(* what a transaction has written but not committed is in arg[t].           *)
(*                                                                          *)
(* A wallet row exists from the start: every handler that moves money       *)
(* provisions first, and a provisioned row is (0, active).                  *)
(***************************************************************************)
EXTENDS Integers, Sequences

CONSTANTS
    Wallets,        \* wallet rows: one per user and enabled currency
    Users,
    Owner,          \* Owner[w]: wallets.user_id
    Ids,            \* ids of requests and rounds, what a movement refers to
    Calls,          \* calls that can be in flight at once
    None,           \* SQL NULL, "no holder", "no row"
    MaxSafe,        \* 2^53 - 1 in the code (money.IsSafeMinor)
    AdjustAmounts,  \* signed amounts an operator may adjust by
    MaxEntries      \* bound: no adjustment starts on a ledger this long

ASSUME WalletAssumption ==
    /\ Owner \in [Wallets -> Users]
    /\ None \notin Calls \cup Ids
    /\ MaxSafe \in Nat
    /\ AdjustAmounts \subseteq Int \ {0}
    /\ MaxEntries \in Nat

\* The audit log names the type of an entity beside its id ("wallet",
\* "withdrawal_request", ...): a wallet's entry is never taken for a request's.
ASSUME EntityAssumption == Ids \cap (Wallets \X Nat) = {}

VARIABLES
    balance,        \* wallets.balance_minor
    walletStatus,   \* wallets.status
    ledger,         \* wallet_transactions of a wallet, in insertion order
    walletLock,     \* the call holding a wallet row FOR UPDATE
    pc,
    arg,
    trail           \* audit_logs

walletVars == <<balance, walletStatus, ledger, walletLock>>

-----------------------------------------------------------------------------
(* Rows *)

\* "closed" is refused wherever "frozen" is: one value stands for both.
WalletStatus == {"active", "frozen"}
Kinds == {"adjustment", "withdrawal", "refund", "deposit", "wager", "win"}

\* The idempotency key of a movement is its kind and the request or round it
\* is for ("withdrawal:<id>:hold", "deposit:<id>", ...); ref = None is no key.
NoArg == [w |-> None, id |-> None, key |-> None, method |-> None,
          amount |-> 0, seen |-> 0]

WalletInit ==
    /\ balance = [w \in Wallets |-> 0]
    /\ walletStatus = [w \in Wallets |-> "active"]
    /\ ledger = [w \in Wallets |-> <<>>]
    /\ walletLock = [w \in Wallets |-> None]
    /\ pc = [t \in Calls |-> "idle"]
    /\ arg = [t \in Calls |-> NoArg]
    /\ trail = {}

-----------------------------------------------------------------------------
(* MoveTx, in its two halves: what it does before the commit (lock the row, *)
(* look for the idempotency key, check) and what the commit makes visible.  *)

IsSafeMinor(n) == -MaxSafe <= n /\ n <= MaxSafe

Posted(w, kind, ref) ==
    /\ ref # None
    /\ \E i \in DOMAIN ledger[w] : ledger[w][i].kind = kind /\ ledger[w][i].ref = ref

\* Mutant: the two numbers are checked, their sum is not.
MovablePastSafe(w, amount) ==
    /\ walletStatus[w] = "active"
    /\ IsSafeMinor(balance[w]) /\ IsSafeMinor(amount)
    /\ amount < 0 => balance[w] >= -amount

Movable(w, amount) ==
    /\ walletStatus[w] = "active"
    /\ IsSafeMinor(balance[w]) /\ IsSafeMinor(amount)
    /\ amount < 0 => balance[w] >= -amount
    /\ IsSafeMinor(balance[w] + amount)

\* Mutant: SELECT without FOR UPDATE.
ReadWalletRow(t, w) == UNCHANGED walletLock

\* SELECT ... FOR UPDATE: waits until no other call holds the row.
LockWalletRow(t, w) ==
    /\ walletLock[w] \in {None, t}
    /\ walletLock' = [walletLock EXCEPT ![w] = t]

\* The movement of call t commits: the balance written is computed from the
\* balance t read, and a movement whose key is already posted is a replay.
MoveTx(w, kind, ref, amount, seen) ==
    IF Posted(w, kind, ref)
    THEN UNCHANGED <<balance, ledger>>
    ELSE /\ balance' = [balance EXCEPT ![w] = seen + amount]
         /\ ledger' = [ledger EXCEPT ![w] = Append(@,
                [kind |-> kind, ref |-> ref, amount |-> amount,
                 before |-> seen, after |-> seen + amount])]

Audit(action, entity) == trail' = trail \cup {[action |-> action, entity |-> entity]}

\* The transaction of call t ends and drops its wallet locks.
UnlockWallets(t) ==
    walletLock' = [w \in Wallets |-> IF walletLock[w] = t THEN None ELSE walletLock[w]]

Finish(t) ==
    /\ pc' = [pc EXCEPT ![t] = "idle"]
    /\ arg' = [arg EXCEPT ![t] = NoArg]

-----------------------------------------------------------------------------
(* An operator's adjustment (Adjust): no idempotency key. *)

StartAdjust(t, w, amount) ==
    /\ pc[t] = "idle"
    /\ Len(ledger[w]) < MaxEntries
    /\ LockWalletRow(t, w)
    /\ Movable(w, amount)
    /\ pc' = [pc EXCEPT ![t] = "adjusted"]
    /\ arg' = [arg EXCEPT ![t] = [NoArg EXCEPT !.w = w, !.amount = amount, !.seen = balance[w]]]
    /\ UNCHANGED <<balance, walletStatus, ledger, trail>>

CommitAdjust(t) ==
    LET w == arg[t].w
        amount == arg[t].amount
    IN  /\ pc[t] = "adjusted"
        /\ MoveTx(w, "adjustment", None, amount, arg[t].seen)
        /\ Audit(IF amount > 0 THEN "wallet.credit" ELSE "wallet.debit", <<w, Len(ledger[w]) + 1>>)
        /\ UnlockWallets(t)
        /\ Finish(t)
        /\ UNCHANGED walletStatus

\* No code path writes wallets.status: an operator sets it in the database
\* with an UPDATE, which waits for the row lock.
SetWalletStatus(w, status) ==
    /\ walletLock[w] = None
    /\ walletStatus' = [walletStatus EXCEPT ![w] = status]
    /\ UNCHANGED <<balance, ledger, walletLock, pc, arg, trail>>

-----------------------------------------------------------------------------
(* What every component that moves money must keep. *)

Entry == [kind : Kinds, ref : Ids \cup {None}, amount : Int, before : Int, after : Int]

WalletTypeOK ==
    /\ balance \in [Wallets -> Int]
    /\ walletStatus \in [Wallets -> WalletStatus]
    /\ ledger \in [Wallets -> Seq(Entry)]
    /\ walletLock \in [Wallets -> Calls \cup {None}]

\* The balance and every balance_before is the balance_after of the entry that
\* precedes it, so no movement overwrote another one's result (MoveTx's row
\* lock), and no idempotency key is posted twice.
Chained(w) ==
    LET book == ledger[w]
        AfterOf(i) == IF i = 0 THEN 0 ELSE book[i].after
    IN  /\ balance[w] = AfterOf(Len(book))
        /\ \A i \in DOMAIN book :
              /\ book[i].before = AfterOf(i - 1)
              /\ book[i].after = book[i].before + book[i].amount
        /\ \A i, j \in DOMAIN book :
              /\ book[i].ref # None
              /\ book[i].ref = book[j].ref /\ book[i].kind = book[j].kind
              => i = j

StatementChains == \A w \in Wallets : Chained(w)

\* A balance can be shown exactly and is never overdrawn.
BalancesInRange == \A w \in Wallets : balance[w] \in 0..MaxSafe

\* What MoveTx owes every wallet, whatever its callers interleave: no movement is
\* lost, posted twice or computed from a balance that is no longer there, and none
\* overdraws the wallet or lifts it past what can be shown.
LedgerSound == StatementChains /\ BalancesInRange
===============================================================================
