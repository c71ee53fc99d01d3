# TLA+ models of the gaming platform

The platform is a Go API over Postgres (`src/backend`, `src/database`), a React
client (`src/frontend`) and browser games (`src/games`). Players hold a wallet
per currency, deposit against an uploaded proof, ask for withdrawals, and bet
on games whose outcome the server decides. Money is the hard part: every
balance is changed by several handlers at once, each in one transaction at READ
COMMITTED, and clients retry what they got no answer to. These modules model
that part of the code, check it with TLC, and prove part of it with TLAPS.

## Inventory

| Component | State it keeps | Operations | What is hard | What makes it correct |
|---|---|---|---|---|
| wallets (`wallet`) | `wallets` rows, `wallet_transactions` | provision, `MoveTx`, `Adjust` | movements of several handlers on one row; 2^53 limit | entries chain to the balance; balance in range; one entry per key |
| withdrawals (`withdrawal`) | `withdrawal_requests` | `Create`, `Review`, `Cancel` | retries on another wallet, cancel against review, aborts after the hold | money follows status; one pending per wallet; a key names one request |
| deposits (`deposit`) | `deposit_requests`, `payment_methods`, proof files | `Create`, `Review`, method edits | a file and a row written apart, lost commit answers, two reviewers | credited once with the amount shown; one answer per key; a file exactly when a row |
| rounds (`round`) | `game_rounds` | `Play`, `Open`, `Settle`, `Cancel`, `Fail` | stake, outcome and win in one transaction; keys across games; configuration changing under a play | money follows status; a stake has an outcome; bound to the configuration in force |
| games (`game`) | `games`, `game_wager_limits` | `Create`, `Update`, `SetRTP` | limits read before a wait, rows rewritten by every save | no lost update; limits are always there |
| audit, notifications | `audit_logs`, `notifications` | `Record`, `Create`, mark read | written inside someone else's transaction | they tell what committed and nothing else |
| users, sessions, resets (`user`, `auth`) | `users`, `auth_sessions`, `password_reset_tokens` | register, login, logout, status change, reset, password change | login reads without a lock and creates a session later; two administrators can wait for each other's row | no session live at a revocation survives it; a password changes only by a proof that still holds; the audit log chains |
| chat (`chat`) | messages; subscribers and buffers in memory | post, subscribe, broadcast, close | full buffers drop events; `Close` waits for sockets | presence settles; shutdown ends |
| announcements | `announcements` | create, update, enable | clock read before the lock | an ended one is not enabled |
| rate limiter | counters in memory | `Allow` | window boundary, eviction when full | a bound per window |
| mail | a cached token | `Send` with retries | answer lost after the send | bounded attempts |
| plinko engine | none | `Play`, `Payout`, `WeightedIndex`, return calculation | truncation, overflow, weights | payout and return equal their definitions |
| game page (`features/gameplay/session.ts`, `GameHost`) | the lock on the bet, what the frame was sent, rounds in the air; manifest and wallet queries | play, settle, configure, retry, leave | an answer used after an await, a double click before a render, drops to a frame that is not listening, fetches that answer late | one round at a time; the bet comes back; revealed balances stay; the board is the table in force |
| game frames (`src/games/plinko*`) | the document's board and balls | boot, configure, drop, land | reloads in mid-air, three boards with their own geometry | a ball strikes real pegs and lands over the settled slot, reported once |
| web client (`src/frontend`) | query cache, session on display, expiry, sign-in modal, forms and their keys | every page's queries and mutations, sign in and out, retry a form | answers of reads and writes in any order, a 401 at any time, answers about an old identity | a page shows what its form did, nobody sees another's rows, a retried form makes one request |
| dashboard, HTTP helpers, commands, the 3D scenes | none that decides anything | read, render | | not modelled |

Components interact through the database: `deposit`, `withdrawal`, `round` and
`wallet.Adjust` call `MoveTx` inside their own transactions, and `audit.Record`
and `notification.Create` with them; `game` and `deposit` (payment methods)
change rows that `round` and `withdrawal` read. Nothing is passed in memory
between handlers except chat events and limiter counters. The browser joins them
from outside: pages read and write through the API, declare cached queries stale
after each write, and hear of the rest by polling, by the chat socket or by age;
the game page drives an iframe by messages, which may be lost. `PROJECT.json` lists
the hazards, each at its line, with the property that covers it or the module
that is to.

## How the code is modelled

A *call* is one HTTP request being served. `pc[t]` says where call `t` stands in
its handler; `arg[t]` (in `Rounds` also `order[t]`) is what it has read and
decided. There is one action per statement after which another transaction can
act: a row lock, an insert that may wait for a unique key, a commit. What a
transaction has written but not committed stays in `arg[t]`; the commit action
makes all of it visible at once: the ledger entry, the row, the audit entry, the
notice, the answer. Row locks are functions from a row to the call that holds it.
A statement that waits is an action that is not enabled.

`Abort(t)` ends a call at any step without committing: a client that goes away
(its context is cancelled), a failed statement, a restart of server or database,
a deadlock victim. In `Deposits` the steps of `Create` end in `FailCreate`,
`CrashCreate` or `LoseCommit` instead, which differ in what happens to the file.

Answers are kept in a history variable `answers`, because what a retry is told
is part of what the code promises. Only reads that decide something are
statements; listings are left out.

| Module | Models | Main correspondence |
|---|---|---|
| `Wallet` | `wallet/repository.go` | `LockWalletRow`: `SELECT ... FOR UPDATE`; `Movable`: the checks of `MoveTx`; `MoveTx`: its writes, with the replay of a posted key; `StartAdjust`, `CommitAdjust`: `Adjust`; `SetWalletStatus`: external, no code writes the column |
| `Withdrawals` | `withdrawal/` | `LockWallet`, `Replay`/`KeyUnknown`, `Refuse`/`Hold`, `InsertRequest`, `CommitCreate`, `AnswerRace`: the statements of `Create` in order; `LockRequest`, `ReleaseHold`, `Commit...`: `Review` and `Cancel` |
| `Escrow` | abstract | what withdrawals promise, with no calls or locks |
| `Deposits` | `deposit/` | `StartCreate`, `StoreProof`: the handler; `CheckRequest` to `CommitCreate`, `AnswerConflict`: `Create`; `LockRequest`, `LockMethod`, `Credit`, `Commit...`: `Review` |
| `Rounds` | `round/`, `game.Update`, `SetRTP` | `StartOpen`, `LockGame`, `LockWallet`, `Replay`/`Refuse`/`InsertOpen`: `openTx`; `Decide`, `CommitPlay`: `Play`; `StartClose`, `LockRound`, `CommitClose`: `Settle`, `Cancel`, `Fail` |
| `Wagering` | abstract | what rounds promise, a play being one step |
| `Accounts` | `user/`, `auth/` | `StartRegister`, `CommitRegister`: `register`; `StartLogin`, `InsertSession`: `login`; `LockForRequest` to `CommitRequest`: `requestPasswordReset`; `StartReset`/`StartChange`, `LockForPassword`/`RefusePassword`, `RevokeSessions`, `CommitPassword`: `confirmPasswordReset` and `changePassword`; `StartAdmin` to `CommitAdmin`: `ChangeStatus` and `SetAlertEmails` |
| `GameFrame` | `src/games/<title>/web/js` | `FrameBoots`, `FrameBreaks`: `boot`; `FrameReceives`: the bridge's message handler; `DropBall`, `LandBall`: `dropBall`, `stepBall` to `land`; `PlinkoFlight`, `BilliardsFlight`, `TropicalFlight`: `flightTo` of each title, with `planTurns` |
| `GameSession` | `features/gameplay/session.ts`, `GameHost.tsx`, `bridge.ts` | one action per callback, effect and timer of `useGameSession` (`Play` up to its `await`, `AnswerArrives`, `AnswerFails`, `HostReceives`, `Render`, `ReadyTimeout`, `Fallback`, `Retry`, `Leave`), of the player, and of the API as the page sees it |
| `Endpoints` | `features/<part>/api.ts` | for each read the tables it lists, for each write the tables its commit changes, whose rows, and whether it is keyed |
| `Hooks` | `features/<part>/hooks.ts` | each query's key, each mutation's invalidations and whether they are `onSuccess` or `onSettled` |
| `Views` | `pages/`, `components/`, `routes/AppRoutes.tsx` | what each page mounts, which forms it offers and what they need, its gate and where answers lead |
| `Client` | `app/queryClient.ts`, `features/auth`, `routes/Require*.tsx`, `SessionExpiredDialog.tsx`, the forms | `Mount`, `Refetch`, `Invalidate`, `dropGuestQueries`: the cache; `QueryRefused`: `handleUnauthorized`; `MeLands`: `noteSession`; `SignIn`, `SignedOut`: `useLogin` and its like, `useLogout`; `SignInAgain`, `KeepBrowsing`: the dialog; `Submit`, `AnswerOk`, `AnswerError`, `AnswerLost`: a form's `onSubmit` |
| `WalletProofs`, `WithdrawalsProofs`, `EscrowProofs`, `DepositsProofs`, `RoundsProofs`, `AccountsProofs`, `GameSessionProofs`, `ClientProofs` | proofs | see below |
| `MC...` | instances | owners, limits, outcomes and symmetry sets for TLC |

Points of the translation a reader of the code will look for:

- A wallet lock serializes calls on one wallet but not on two wallets of one
  player, so an Idempotency-Key used in two currencies at once is decided by the
  unique index. `InsertRequest` (and `KeyFree` in `Rounds`) waits while another
  call has the key inserted and not committed, which is what Postgres does.
- `LockGame` waits for the game row. At READ COMMITTED a statement that waited
  looks again at the newest version of the rows it found, but a row that was
  deleted meanwhile is skipped and one inserted meanwhile is not seen.
  `game.Update` deletes and inserts all limits rows, so `order[t].replaced`
  remembers that it ran while a play's statement was waiting.
- Settle, Cancel, Fail and Open have no route; they are exported and tested, so
  `Rounds` takes them as operations, and `plays` and `round_keys` leave only
  Play, which is what players can reach.
- `closed` wallets are treated as `frozen` ones: every check refuses both.
- Rows are never deleted in the modelled code. Identifiers are drawn from a
  finite set; a call that finds none left is refused, which the code has no
  counterpart of.
- The inserts of `Deposits` also wait for locks through foreign keys (a wallet
  or a method another call holds). Leaving a wait out only adds behaviours, and
  `Deposits` has no liveness property; what those waits can do to each other is
  the deadlock listed under hazards.

- In `Accounts` a user stands for its email. A revoked or expired session and a
  used token are dropped, for no statement tells them from ones that never were;
  an id is used again when no call mentions it. A handler that changes an existing
  users row takes it FOR UPDATE first. Login does not: it reads, verifies, and
  inserts the session later, and the foreign key of that insert takes the row
  FOR KEY SHARE, which waits for a FOR UPDATE. So does the actor of an audit
  entry (`InsertAudit`), whose share then keeps others from locking the row
  (`Shared`). Two administrators who act on each other wait in a cycle;
  `Victim` is Postgres ending one of them.
- A login verified before a revocation may insert its session after the
  revocation has committed. The code allows it, so `RevocationLeavesNone` speaks
  of the sessions live at the commit. Likewise two administrators may end up both
  suspended, each authenticated before the other's commit.
- The token row that `confirmPasswordReset` locks is only locked by a call that
  has its owner's row, so `Accounts` has no lock for it.

- A wallet is a version number in `GameSession`, and the rows of a query are the
  number of writes they show in `Client`: what the properties ask is whether what
  is on screen is older than what the page was told.
- `GameSession` splits a round where its code awaits. What `play` captured before
  the await (`ready`, `table`) is kept in `plays[p]` and used after it, and
  `seen` is what the last render committed, which is what `latest` holds. A second
  click between a click and its render is therefore a step like any other.
- `postMessage` is a queue that is emptied when the document changes. A document
  that has not booted takes messages and ignores them, as a window without a
  listener does. A title may be opened whose game is cached, in which case the
  iframe stays and navigates, and the hook keeps its state.
- In a flight `x` counts half peg spacings from the middle; slots, pegs and cups
  stand on the same grid, so that the three titles' geometry is compared exactly.
  Arc heights and durations inside a segment are drawing.
- Every behaviour of `Client` follows one mutation and one query, chosen at the
  start from all pairs in which the query reads a table the mutation writes. Queries and mutations of one tab meet only through
  the session and the page, which are modelled, so pairs suffice. The pages a
  behaviour opens are those that mount the query or offer the mutation, and
  where one signs in.
- The query cache follows @tanstack/react-query: invalidating abandons a fetch
  under way for a new one only if the query already has rows and is on screen; a
  first load, or a fetch nobody looks at, is left to land and passes for fresh
  (`behind`). `removeQueries` leaves a mounted observer with the rows it had, cut
  off from the cache until it renders with something to render anew (`cutOff`).
  The code does nothing about either, and `OwnWritesShow` excepts both. It also
  excepts what no hook declares stale (`LeftToAge`): the audit log after payment
  methods are created or edited or staff alerts switched; the manifest of a game whose
  limits or return an operator edits; and an operator's own pages after a mutation of the
  console, or the console's after one made as a player. The last takes browser back or
  forward between the two within one document: the console's hooks do not name the
  operator's own wallet, nor the player's the console's lists. `staleTime` ends all of
  these.
- An answer about the old session that arrives after the new one has begun
  (`past.raced`) may put the old identity on display or end the new one on
  screen. The session query is the one `dropGuestQueries` keeps; `OnlyOwnData`
  and `ExpiryIsReal` except it.
- An ApiError makes a form take a new key, also if the request was committed
  before the error or is still to be (`form.misled`): then a retry is a second
  request, which `OneRequestPerForm` excepts. After a dropped connection a form keeps
  its key for as long as it is mounted.
- A form is mounted anew, with a key of its own, when its page is left and opened
  again, and also when a refetch of `/me` fails for good: `SessionGate` then has
  "Cannot reach the server" in the place of every page until "Try again" is answered
  (`me.failed`, `MeFails`, `TryAgain`, `Displayed`). The request of a form that was taken
  down may still be carried out, and what the new form sends is another request.
  `OneRequestPerForm` speaks of one form, which is all the code promises.
- Opening a title keeps the hook, and with it the risk: `useRememberedChoice` reads
  what is remembered once, when it mounts, whatever the slug later becomes. A page that
  is left and mounted again reads it anew (`Return`), and has the wallet and the manifest
  fetched again if they are older than their `staleTime`, which they may be at any time.

## Runs

| Run | Question | Bounds |
|---|---|---|
| `withdrawals` | does the money follow the request through any interleaving, and is each commit a step of `Escrow`? | 2 calls, 2 wallets of one player, 2 requests, 2 keys, 1 method, amounts 1-2, balance at most 3, one adjustment amount |
| `withdrawal_keys` | one key on two wallets; does every call end? | 2 calls, 2 wallets, 1 key, no symmetry |
| `deposits` | credited once; one answer per key; files and rows | 2 calls, 1 wallet, 2 attempts, 2 keys, amounts 1-3 with limits 1-2, balance at most 3 |
| `rounds` | money follows the round; each commit is a step of `Wagering` | 2 calls, 1 wallet, 1 game, 2 rounds, 2 keys, stake 1, a loss and a win of 2 at the threshold |
| `plays` | with Play alone: one round per key, bound to the configuration in force | 2 calls, 2 keys, 2 stakes, 2 parameters, 2 limits of which each refuses one stake, 2 returns |
| `round_keys` | one key on two games and two wallets; does every call end? | 2 calls, 2 games, 2 wallets, 1 key |
| `accounts` | does a password change only by a proof still valid, and leave no old session and no token? | 1 email (registering included), 3 calls, 2 passwords, 4 sessions, 2 tokens |
| `operators` | two administrators act on each other and on themselves: does the audit log chain, does every call end? | 2 administrators, 2 calls, 2 sessions, one audit entry when a request starts |
| `game_session` | does a page that loses drops, answers and frames keep one round at a time, give the bet back, and show what was settled? | 2 rounds, 2 titles, 2 risks, 2 tables, 5 rows, a settled slot each, 1 of: reload, retry, leave, title, risk, sound, wallet or table changed; fetches may fail |
| `client` | does every page show what its form did and nothing of another identity, and is a retried form one request? | 14 mutations with every query they concern, 1 operator, 1 player, 2 requests, 2 events |
| `where_left_off` | expected violation: does signing in again lead to where the session expired? | one mutation, 2 events |
| `unsupported` | expected violation: is "does not play in that currency" true when it is answered? | as `round_keys` |

An event of `game_session` is anything the page does not bring about itself; one
is enough for each of them to fall into every step of two rounds, which is where
the hazards are, and the rest (boots, breaks, lost landings, timeouts, refused and
lost answers, failed fetches) is not bounded. Five rows give every peg geometry of
the titles' ten; one round settles in the last slot, which only the rightmost path
reaches, the other in one that ten paths lead to. An event of `client` is a page
opened, a session begun or ended, a poll, a push, or a request but the first.
With two, a session can end and another begin around a request, and a request can
be retried after one more step. Both runs switch off the deadlock check, since a
player who has used up the bound may simply stop. `DistinctTasks` leaves out five
mutations whose hook and form have another's shape (creating a game or an
announcement, setting an announcement's status, reviewing and cancelling a
withdrawal).

Two calls are enough for nearly every race in the hazards list: each is between one
call that has read or locked something and another that commits. `accounts` has
three, so that two requests for a token can precede a reset, or a login and a
request overlap one; `RoomForSession` and `RoomForToken` start a call only when
an id is left for it, so no call blocks on the bound. Two ids and two
keys let one call repeat the other's key and let both use different ones. A
balance of at most 3 makes the overflow and the overdraft happen with amounts of
1 and 2. `MaxEntries` bounds the number of adjustments (no adjustment starts on
a longer ledger) and `MaxLog` that of the administrators' requests; requests and
rounds are bounded by their ids. `accounts` and `operators` do not check for
deadlock: when every account is closed or suspended nobody can do anything. What
a deadlock check would say of calls in flight, `CallsEnd` says. Symmetry is used
over calls, ids, keys and, in `withdrawals`, the two wallets of one player, only
in runs with no liveness property.

Each property has a mutant in `PROJECT.json`, a plausible bug of the code under
which TLC finds the property violated (a lock not taken, a check dropped, a
refund forgotten); the operators are beside the ones they replace.

### What the runs found

`unsupported` gives a trace in which a player's bet is refused with "The game
does not play in that currency" although the game has had limits in that
currency throughout: the bet waited for the game row while an operator saved the
game, and saving replaces the limits rows even when they are unchanged. No money
moves, and a retry succeeds. See `findings` in `PROJECT.json`.

`where_left_off` gives a trace in which a player's session ends on the wallet
page, the dialog says "Sign in again to pick up where you left off", the player
does, and is left in the lobby: the gate had already sent the tab there and
remembered the wallet, and the dialog overwrites that with where the tab is by
then.

### Fairness

`FairSpec` is used only for `CallsEnd`. The goroutine of a call runs until it
answers, so the steps that wait for nobody (`Continue`) are weakly fair. A
statement that waits for a lock (`Blocking`) is strongly fair: the lock may be
taken and released many times, but Postgres queues those who wait for a row. In `Accounts`, `Victim` is weakly fair:
Postgres looks for a deadlock whenever a wait has lasted `deadlock_timeout`.
Nothing is assumed of clients, who need not call, of operators, nor of
`Abort`.

`GameSession` has weak fairness for two things, which is all `BetUnlocks` needs:
the browser answers or fails every request (`AnswerArrives`, `AnswerFails`), and a
timer that is running fires (`Fallback`). The frame may never answer. `Client` has
no liveness property and no fairness.

## Proofs

Eight modules hold theorems, each about the `Spec` of one component, for every
value of its constants: any wallets, users, calls, ids, keys, amounts, rounds,
titles and numbers of events. They follow one pattern. `TypeOK` is not inductive as
it stands, since a commit uses what its call has read (`arg[t]`, `order[t]`), so the
invariant adds which fields a call has at each of its steps. A safety property is not
inductive either, since nothing in it says why what a call read before a wait still
is so at its commit. So the invariant adds, for every call at every step, that it
holds the locks it has taken, and that what it read under them is still what the
tables say. Each action has a lemma that says it preserves the invariant: its own
call by what the action reads, the other calls because the tables changed only where
no other call holds a lock.

`WalletProofs` has the lemmas about `MoveTx` and `Movable` the others rest on: a
movement extends a chain, keeps the range, posts its key once, and leaves other
wallets alone.

| Module | Theorem | States |
|---|---|---|
| `WithdrawalsProofs` | `TypeCorrect`, `LedgerStaysSound` (`StatementsChain`, `BalancesStayInRange`) | `TypeOK`, `LedgerSound` |
| `EscrowProofs` | `MoneyStaysWithStatus`, `PendingStaysSingle`, `CreateStaysIdempotent`, `PaperStaysTrue`, `PromiseIsKept` | `MoneyFollowsStatus`, `OnePendingPerWallet`, `IdempotentCreate`, `PaperTrail`; `Withdrawals` implements `Escrow` |
| `DepositsProofs` | `TypeCorrect`, `LedgerStaysSound`, `CreditsAreSingle`, `AnswersStaySingle`, `ProofsStayMatched` | `TypeOK`, `LedgerSound`, `CreditedOnce`, `OneAnswerPerKey`, `ProofMatchesRow` |
| `RoundsProofs` | `TypeCorrect`, `LedgerStaysSound`, `MoneyStaysWithRound`, `KeysStaySingle`, `BigWinsStayTold`, `RoundsBindToConfig`, `ClosedStaysFinal`, `RoundsAreBets` | every property of the `rounds` run; `Rounds` implements `Wagering` |
| `AccountsProofs` | `TypeCorrect`, `PasswordsAreProven`, `RevocationsLeaveNone`, `ResetsSpendTokens`, `AuditStaysChained` | `TypeOK`, `PasswordsChangeByProof`, `RevocationLeavesNone`, `ResetsLeaveNoToken`, `AuditChains` |
| `GameSessionProofs` | `TypeCorrect`, `RoundsComeOneAtATime`, `BalanceStaysRevealed`, `BoardStaysMatched`, `FlightsStayTrue` | `TypeOK`, `OneAtATime`, `RevealedStays`, `BoardMatchesManifest`, `FlightsLand` |
| `ClientProofs` | `TypeCorrect`, `OwnWritesStayShown`, `OnlyOwnDataShown`, `ExpiryStaysReal`, `FormsMakeOneRequest` | `TypeOK`, `OwnWritesShow`, `OnlyOwnData`, `ExpiryIsReal`, `OneRequestPerForm` |

The inductive invariants, and why they are needed:

- **Withdrawals, the ledger** (`MoneyInv`). A call past its wallet lock still holds it;
  if it has read the balance to compute with (`adjusted`, `held`, `inserted`,
  `rejected`, `cancelled`), that is still the balance, and what its movement will write
  is in `0..MaxSafe` unless the movement is a replay. Without this a commit could follow
  another that read the same balance.
- **Withdrawals, the requests** (`RequestInv`). `RowsSound` is the four properties.
  `AllReady` is what each call may rely on: a review or a cancel holds its row, which is
  still pending and as it was read; a create past the hold has an id nobody uses and a
  wallet with nothing pending; past the insert, its key is in no row, because the unique
  index made it wait for every other call with that key.
- **`Escrow`.** Under the mapping, the commit of a create is `Claim`, those of reviews and
  cancels are `Pay` and `Return`, an adjustment is `Move`, and every other step leaves
  funds and claims alone. `RequestInv` gives the guards: a claim may be returned because
  the row its call holds is still pending.
- **Deposits** (`RequestInv`). A review holds its request, which is still pending once it
  has credited; a create past its upload has its file on disk and no row yet, and the
  file is nobody else's; past `ON CONFLICT` its key is in no row and no other call is
  about to record it. `Create` first reads the key without a lock, so the invariant can
  say nothing of that read: the insert alone decides.
- **Rounds** (`RoundInv`). `Paying`: a call about to move money holds its wallet and has
  read the balance in force. `Playing`: a play past `LockGame` holds the game, still
  active; past the insert, the stake fits the limits in force, and its round id and key
  are in no row.
  `Closing`: the round it will close is still open and owes what will be paid. `Apart`:
  no two inserts share an id or a key. Plays on different games and wallets exclude
  each other by nothing but the index, which is what `Apart` records.
- **`Wagering`.** The commit of a play is one `Play` of the abstract specification, and
  opening, settling and refunding are `Place`, `Resolve` and `Void`.
- **Accounts** (`Placed`, `Holds`, `Current`, `OneLiveToken`, `TokensHaveOwners`). A call
  past its row lock holds its target's row, so what it checked still is so; past the
  revocation the tokens it is to drop are its user's, and no session of its user is live
  that it is not to drop (an insert waits for the row). A request for a reset locks the
  row though it changes no column of it, and `OneLiveToken` is why.
- **Accounts, the audit** (`AuditInv`). `Audited`: a call that has recorded its change
  and not committed it holds the row, and the `before` of its entry is the value the
  row still has. `AuditChains` is stated with `Tells` (the last entry about a column,
  of the first `n`), so that no fold over the log is needed.
- **Game page** (`Inv`, with `Alone`). A round between click and landing holds its
  mount's lock, and there is one such round. A second click is refused because of the
  lock, so what has to be shown is that nothing gives the lock back while the round is
  out: a render, a document that reports itself ready, a timeout, a fallback of a round
  already over, an answer to a page that has since been left.
- **Game page, the balance** (`CaughtUp`). No round's wallet is later than the server's;
  unless the wallet is stale, what is shown includes every revealed round, and so does
  what a fetch has read: a reveal abandons the fetch that was under way.
- **Game page, the board** (`Matched`, with `InStep`). A document lives only in the
  page's iframe. Once it has been heard of, the messages under way leave it with the
  board the hook remembers sending and the sound of the last render, and that board is
  the last render's unless a ball was falling or there was no table. `sentRef` is
  forgotten when a document reports itself ready, which is what restores this.
- **Flights.** No invariant: `RightsBounded`, `PegsAreStruck` and `FlightLands` show for
  any number of rows and any order of turns that the x of the r-th segment is that of a
  peg of row r, and that as many right turns as the slot end over the slot.

- **Client, the tables** (`RouteTable`, `FormTable`, `QueryTable`, `StalesCover`). Lemmas
  about `Views` and `Hooks`, by cases over every page, form, query and mutation: gates
  and sign-ins lead to pages that exist, an answer that leads away leads to a page that
  does not offer the same mutation, and the keys a mutation declares stale match the key
  of every query that reads what it writes, but the ones named in `LeftToAge`. A hook
  whose invalidation is forgotten fails the last one.
- **Client, types** (`Typed`). A form that waits is on screen, and its call carries its
  key; no more calls can still be carried out than the bound leaves.
- **Client, what passes for fresh** (`Shows`). What is in the cache unmarked, *and what a
  fetch has read and not delivered*, is no older than what the tab was told. The second
  half is why an invalidation must abandon the fetch under way or mark what it brings.
- **Client, whose rows** (`OneUser`). Unless a `/me` was overtaken, one user's name is
  on the rows, on the answer under way, on the cookie, on the session shown and on the
  `/me` that has been read, each of which may also be nobody's.
- **Client, expiry** (`Expiring`). A fetch that was refused was refused to nobody's
  cookie, since a new session abandons what was fetched for the old one; a tab
  that shows someone over nobody's cookie has had its session ended.
- **Client, keys** (`OneKey`). A call that is awaited and younger than the form is the one
  the form waits for; unless the form was misled, no key it has given up is recorded or
  on a call that may still be carried out.

The assumptions are those the modules declare (`WalletAssumption`, `EntityAssumption`,
`WithdrawalsAssumption`, `ClaimAssumption`, `DepositsAssumption`, `RequestAssumption`,
`RoundsAssumption`, `RoundAssumption`, `BetAssumption`, `AccountsAssumption`,
`RowAssumption`, `FrameAssumption`, `SessionAssumption`, `ClientAssumption`); TLC evaluates them in every
run. Most only say that a marker such as `None`, `NoBoard` or an entity id is not a value
it stands beside; the others give the bounds their types and the limits the code has.

Only model-checked: `CallsEnd` and `BetUnlocks` (liveness under fairness, and `ENABLED`,
are out of the prover's reach), and whatever a recursive definition computes for every
input. Every other property of a passing run is a theorem.

## Plan

Written, in order of importance: `Wallet`, `Withdrawals` with `Escrow`,
`Deposits`, `Rounds` with `Wagering`, `Accounts`, and the proofs about each; then the
browser: `GameFrame`, `GameSession`, `Endpoints`, `Hooks`, `Views`, `Client`.

Next modules:

1. `RowLocks`: deposits' and withdrawals' transactions over one table of row
   locks with the key-share locks of foreign keys; whether the waits can form a
   cycle, and that a victim leaves nothing behind.
2. `GameConfig`: `game.Update`, `SetRTP` and `Create` with the read before the
   wait, validation and audit; lost updates of limits.
3. `ChatHub`: subscribers, buffers, presence, shutdown.
4. `RateLimiter` (a window's boundary, eviction when the table is full),
   `Announcements` (a clock read before a lock), mail and its retries.
5. `Plinko`: payout, weighted choice and theoretical return as functions, checked
   against reference definitions over bounded inputs.

Next theorems: those of the modules above, and the safety half of what the two liveness
properties rest on: that a call that has not ended has a step it may take, unless it waits
for a lock another call holds.

Not to be modelled: read-only listings and reports, request decoding,
formatting, password hashing, the three.js scenes, migrations as such, seeds; in
the client, filters and field validation, themes and layout, the forms that change
a password or ask for a reset (no query shows what they write), and the chat
socket's reconnection.
