---------------------------- MODULE GameSession ----------------------------
(***************************************************************************)
(* The game page of the browser client: the hook that runs every round     *)
(* from the click to the landing (features/gameplay/session.ts), the       *)
(* iframe it drives (GameHost.tsx, bridge.ts), the manifest and wallet     *)
(* queries it refetches, and the server it asks.  The frame itself is      *)
(* GameFrame.  A wallet is its version: every movement of money makes a    *)
(* later one.                                                              *)
(***************************************************************************)
EXTENDS GameFrame

CONSTANTS
    Plays,          \* the rounds the player may ask for
    Risks,          \* the risks on the menu
    Tables,         \* the tables (RTP versions) the operator may put in force, from 1 up
    NoTable,        \* no table: the manifest has not been served, or failed
    MaxEvents,      \* bound: reloads, retries, settings changed, pages left, tables and money moved
    FetchesFail     \* whether a refetch may fail

ASSUME SessionAssumption ==
    /\ Plays \subseteq Nat /\ Plays = DOMAIN Results /\ 1 \in Tables /\ NoTable \notin Tables
    /\ NoBoard \notin Tables \X Risks
    /\ MaxEvents \in Nat
    /\ FetchesFail \in BOOLEAN

VARIABLES
    page,       \* whether the page is up, which mount it is, its iframe and ready timer
    hook,       \* the hook's state and refs
    seen,       \* what the last render showed: the handlers' `latest`
    plays,      \* each round asked for: where it is, and what its click captured
    manifest,   \* the manifest query
    wallet,     \* the wallet query
    server,     \* the table in force and the wallet's version
    spent       \* how much of the bound is used

hostVars == <<page, hook, seen, plays, manifest, wallet, server, spent>>
vars == <<hostVars, frameVars>>

Fetches == {"none", "asked", "read"}

(***************************************************************************)
(* Derived state                                                           *)
(***************************************************************************)

\* An error after data removes the table too.
Served == IF manifest.failed THEN NoTable ELSE manifest.table

\* pendingRef: rounds settled by the server and still falling on this mount.
Pending == {p \in Plays : plays[p].at = "falling"}
Calls == {p \in Plays : plays[p].at \in {"asked", "answered"}}
Mine(p) == page.up /\ plays[p].mount = page.mount

Shows == [status |-> hook.status, locked |-> hook.locked, table |-> Served,
          risk |-> hook.risk, sound |-> hook.sound, inFlight |-> Cardinality(Pending)]

\* bridge.send succeeds while the iframe is in the document, booted or not.
Connected == page.up /\ page.iframe

(***************************************************************************)
(* Initial state                                                           *)
(***************************************************************************)

NotAsked == [at |-> "idle", mount |-> 0, title |-> "plinko", ready |-> FALSE, table |-> NoTable,
             settledUnder |-> NoTable, wallet |-> 0]

\* Mutant: "idle" is not a status.
FreshHookIdle(risk, sound) ==
    [status |-> "idle", locked |-> FALSE, sent |-> NoBoard, risk |-> risk, sound |-> sound]

FreshHook(risk, sound) ==
    [status |-> "loading", locked |-> FALSE, sent |-> NoBoard, risk |-> risk, sound |-> sound]

Init ==
    /\ page = [up |-> TRUE, mount |-> 1, iframe |-> FALSE, timer |-> FALSE, title |-> "plinko"]
    /\ \E risk \in Risks : hook = FreshHook(risk, TRUE)
    /\ manifest = [table |-> NoTable, failed |-> FALSE, fetching |-> TRUE]
    /\ plays = [p \in Plays |-> NotAsked]
    /\ wallet = [shown |-> 0, stale |-> FALSE, fetch |-> "none", read |-> 0]
    /\ server = [table |-> 1, wallet |-> 0]
    /\ spent = 0
    /\ seen = Shows
    /\ frame = NoFrame /\ toFrame = <<>> /\ toHost = <<>>

Spend == spent < MaxEvents /\ spent' = spent + 1

(***************************************************************************)
(* The hook's own functions, as values                                     *)
(***************************************************************************)

\* Mutant: a fetch under way is left to land.
InvalidateKeepingFetch(w) ==
    [w EXCEPT !.stale = TRUE, !.fetch = IF @ = "none" THEN "asked" ELSE @]

\* invalidateQueries: the data is stale, a fetch under way is cancelled and a new one
\* starts.
Invalidate(w) == [w EXCEPT !.stale = TRUE, !.fetch = "asked"]

\* settle, over a set of rounds: the wallet that committed with the round is put on
\* screen, then refetched.
Reveal(w, rounds) ==
    IF rounds = {} THEN w
    ELSE LET last == CHOOSE p \in rounds : \A q \in rounds : plays[p].wallet >= plays[q].wallet
         IN Invalidate([w EXCEPT !.shown = plays[last].wallet])

\* Mutant: only a frame that is ready gives the bet back.
UnlockIfReady(h, rounds, left) ==
    IF rounds # {} /\ left = {} /\ h.status = "ready" THEN [h EXCEPT !.locked = FALSE] ELSE h

\* The bet is offered again once nothing is falling.
UnlockAfter(h, rounds, left) == IF rounds # {} /\ left = {} THEN [h EXCEPT !.locked = FALSE] ELSE h

\* What a round leaves behind once nothing waits for it.
EndOf(p, at) == [NotAsked EXCEPT !.at = at, !.wallet = plays[p].wallet]
Ended(rounds, at) == [p \in Plays |-> IF p \in rounds THEN EndOf(p, at) ELSE plays[p]]

settle(rounds, h) ==
    /\ plays' = Ended(rounds, "shown")
    /\ wallet' = Reveal(wallet, rounds)
    /\ hook' = UnlockAfter(h, rounds, Pending \ rounds)

\* configure: nothing is sent without a manifest, while a ball is falling, or when the
\* frame already has this board.
Wanted(s) == <<s.table, s.risk>>
Configures(h, s, falling) == s.table # NoTable /\ falling = {} /\ h.sent # Wanted(s) /\ Connected
Configured(h, s, falling) == IF Configures(h, s, falling) THEN [h EXCEPT !.sent = Wanted(s)] ELSE h
ConfigureMessages(h, s, falling) ==
    IF Configures(h, s, falling)
    THEN <<[type |-> "configure", board |-> Wanted(s), sound |-> s.sound]>> ELSE <<>>

(***************************************************************************)
(* The page and its iframe                                                 *)
(***************************************************************************)

\* The game has loaded, so the iframe mounts: its document starts, the bridge listens, and
\* the 30 s ready timer runs.
AttachFrame ==
    /\ page.up /\ ~page.iframe
    /\ page' = [page EXCEPT !.iframe = TRUE, !.timer = TRUE]
    /\ frame' = Booting(page.title) /\ toFrame' = <<>> /\ toHost' = <<>>
    /\ UNCHANGED <<hook, seen, plays, manifest, wallet, server, spent>>

\* The document reloads itself: the balls in it are gone and what was posted to it is lost.
FrameReloads ==
    /\ Connected /\ Spend
    /\ frame' = Booting(page.title) /\ toFrame' = <<>>
    /\ UNCHANGED <<page, hook, seen, plays, manifest, wallet, server, toHost>>

\* A render commits: `latest` is synced, and the effects whose inputs changed run in order.
Render ==
    /\ page.up /\ seen # Shows
    /\ seen' = Shows
    /\ LET s == Shows
           board(t) == <<t.status, t.risk, t.table, t.inFlight>>
           configures == s.status = "ready" /\ board(s) # board(seen)
           sounds == /\ s.status = "ready" /\ Connected
                     /\ <<s.status, s.sound>> # <<seen.status, seen.sound>>
       IN /\ hook' = IF configures THEN Configured(hook, s, Pending) ELSE hook
          /\ toFrame' = toFrame
                \o (IF configures THEN ConfigureMessages(hook, s, Pending) ELSE <<>>)
                \o (IF sounds THEN <<[type |-> "set_sound", enabled |-> s.sound]>> ELSE <<>>)
    /\ UNCHANGED <<page, plays, manifest, wallet, server, spent, frame, toHost>>

\* Mutant: what the last document was sent is remembered.
ReadyKeepingSent(h) == [UnlockAfter(h, Pending, {}) EXCEPT !.status = "ready"]

\* A ready is a fresh document: whatever was falling is gone, and it has no board.
Readied(h) == [UnlockAfter(h, Pending, {}) EXCEPT !.sent = NoBoard, !.status = "ready"]

\* No ready message within 30 s of the iframe mounting.
ReadyTimeout ==
    /\ Connected /\ page.timer
    /\ page' = [page EXCEPT !.timer = FALSE]
    /\ hook' = IF hook.status = "loading" THEN [hook EXCEPT !.status = "error"] ELSE hook
    /\ UNCHANGED <<seen, plays, manifest, wallet, server, spent, frameVars>>

\* A message from the frame, accepted only from this iframe's own window (bridge.ts).
HostReceives ==
    /\ Connected /\ toHost # <<>>
    /\ toHost' = Tail(toHost)
    /\ LET m == Head(toHost) IN
       \/ /\ m.type = "ready"
          /\ hook' = Configured(Readied(hook), seen, {})
          /\ toFrame' = toFrame \o ConfigureMessages(Readied(hook), seen, {})
          /\ plays' = Ended(Pending, "shown")
          /\ wallet' = Reveal(wallet, Pending)
       \/ /\ m.type = "landed"
          /\ settle({m.round} \cap Pending, hook)
          /\ UNCHANGED toFrame
       \/ /\ m.type = "error"
          /\ hook' = IF m.code = "unsupported_version" THEN [hook EXCEPT !.status = "error"] ELSE hook
          /\ UNCHANGED <<toFrame, plays, wallet>>
    /\ UNCHANGED <<page, seen, manifest, server, spent, frame>>

\* "Try again": everything falling is settled and a new iframe takes the old one's place.
Retry ==
    /\ Connected /\ Spend
    /\ seen.status = "error" \/ manifest.failed
    /\ settle(Pending, [hook EXCEPT !.status = "loading"])
    /\ page' = [page EXCEPT !.timer = TRUE]
    /\ manifest' = IF manifest.failed THEN [manifest EXCEPT !.fetching = TRUE] ELSE manifest
    /\ frame' = Booting(page.title) /\ toFrame' = <<>> /\ toHost' = <<>>
    /\ UNCHANGED <<seen, server>>

\* Leaving the page unmounts the hook: its timers are cleared and its rounds forgotten.
Leave ==
    /\ page.up /\ Spend
    /\ page' = [page EXCEPT !.up = FALSE, !.iframe = FALSE, !.timer = FALSE]
    /\ plays' = Ended(Pending, "left")
    /\ frame' = NoFrame /\ toFrame' = <<>> /\ toHost' = <<>>
    /\ UNCHANGED <<hook, seen, manifest, wallet, server>>

\* Coming back mounts a new hook, at the risk the browser remembers for this title: not the
\* last one chosen, if that was for another.  What is stale, failed, or by now more than 30 s
\* old is refetched because a view of it mounts.
Return ==
    /\ ~page.up
    /\ page' = [page EXCEPT !.up = TRUE, !.mount = @ + 1]
    /\ \E risk \in Risks :
         /\ hook' = FreshHook(risk, hook.sound)
         /\ seen' = [Shows EXCEPT !.status = "loading", !.locked = FALSE, !.inFlight = 0, !.risk = risk]
    /\ \E old \in BOOLEAN :
         manifest' = IF manifest.failed \/ manifest.table = NoTable \/ old
                     THEN [manifest EXCEPT !.fetching = TRUE] ELSE manifest
    /\ \E old \in BOOLEAN :
         wallet' = IF (wallet.stale \/ old) /\ wallet.fetch = "none"
                   THEN [wallet EXCEPT !.fetch = "asked"] ELSE wallet
    /\ UNCHANGED <<plays, server, spent, frameVars>>

\* Another title on the same route: the hook stays mounted and keeps its state, the risk it
\* read when it mounted included (lib/remembered.ts), and the new title's manifest is another
\* query.  While its game loads a skeleton takes the iframe
\* away; when the game is cached the same iframe navigates.
OpenTitle(title) ==
    /\ page.up /\ title # page.title /\ Spend
    /\ \E cached \in BOOLEAN :
         LET kept == cached /\ page.iframe IN
         /\ page' = [page EXCEPT !.title = title, !.iframe = kept, !.timer = kept]
         /\ frame' = IF kept THEN Booting(title) ELSE NoFrame
         /\ toHost' = IF kept THEN toHost ELSE <<>>
    /\ toFrame' = <<>>
    /\ manifest' = [table |-> NoTable, failed |-> FALSE, fetching |-> TRUE]
    /\ seen' = [Shows EXCEPT !.table = NoTable]
    /\ UNCHANGED <<hook, plays, wallet, server>>

(***************************************************************************)
(* The player                                                              *)
(***************************************************************************)

ChooseRisk(risk) ==
    /\ page.up /\ ~seen.locked /\ risk # hook.risk
    /\ Spend
    /\ hook' = [hook EXCEPT !.risk = risk]
    /\ UNCHANGED <<page, seen, plays, manifest, wallet, server, frameVars>>

ToggleSound ==
    /\ page.up /\ Spend
    /\ hook' = [hook EXCEPT !.sound = ~@]
    /\ UNCHANGED <<page, seen, plays, manifest, wallet, server, frameVars>>

\* The bet button as last rendered: a table on screen and no play under way.
Offered == page.up /\ seen.table # NoTable /\ ~seen.locked

\* Mutant: the lock as it was rendered.
AdmitsAsRendered(h) == ~seen.locked

\* play, up to its await: the lock is a ref, read at once, so a second click that beats the
\* render finds it taken.  What the handlers' `latest` holds now is what the answer will use.
Admits(h) == ~h.locked
Play(p) ==
    /\ Offered /\ Admits(hook) /\ plays[p].at = "idle"
    /\ \A q \in Plays : q < p => plays[q].at # "idle"
    /\ hook' = [hook EXCEPT !.locked = TRUE]
    /\ plays' = [plays EXCEPT ![p] = [@ EXCEPT !.at = "asked", !.mount = page.mount, !.title = page.title,
                                               !.ready = seen.status = "ready", !.table = seen.table]]
    /\ UNCHANGED <<page, seen, manifest, wallet, server, spent, frameVars>>

(***************************************************************************)
(* Answers to a play                                                       *)
(***************************************************************************)

\* The drop is posted when the frame was ready at the click and this mount still has an
\* iframe; posted is not received.
Dropped(p) == plays[p].ready /\ Mine(p) /\ page.iframe

\* A round settled at another return means the table on screen is stale.
NoticeTable(p) ==
    manifest' = IF plays[p].settledUnder # plays[p].table /\ plays[p].title = page.title
                THEN [manifest EXCEPT !.fetching = TRUE] ELSE manifest

\* play, after its await: the round falls, or is revealed at once.
AnswerArrives(p) ==
    /\ plays[p].at = "answered"
    /\ NoticeTable(p)
    /\ \/ /\ Dropped(p)
          /\ toFrame' = Append(toFrame, [type |-> "drop", round |-> p, slot |-> Results[p]])
          /\ plays' = [plays EXCEPT ![p] = [EndOf(p, "falling") EXCEPT !.mount = page.mount]]
          /\ UNCHANGED <<hook, wallet>>
       \/ /\ ~Dropped(p)
          /\ plays' = Ended({p}, "shown")
          /\ wallet' = Reveal(wallet, {p})
          /\ hook' = IF Mine(p) THEN UnlockAfter(hook, {p}, Pending) ELSE hook
          /\ UNCHANGED toFrame
    /\ UNCHANGED <<page, seen, server, spent, frame, toHost>>

\* play's catch: refused, or the answer was lost, with or without the round having settled.
\* Only a shortfall refetches the wallet.
AnswerFails(p) ==
    /\ p \in Calls
    /\ plays' = [plays EXCEPT ![p] = [NotAsked EXCEPT !.at = "failed"]]
    /\ hook' = IF Mine(p) THEN [hook EXCEPT !.locked = FALSE] ELSE hook
    /\ \/ UNCHANGED wallet
       \/ plays[p].at = "asked" /\ wallet' = Invalidate(wallet)
    /\ UNCHANGED <<page, seen, manifest, server, spent, frameVars>>

\* SETTLE_FALLBACK_MS after the answer, landed or not.
Fallback(p) ==
    /\ p \in Pending
    /\ settle({p}, hook)
    /\ UNCHANGED <<page, seen, manifest, server, spent, frameVars>>

(***************************************************************************)
(* The queries, and the server                                             *)
(***************************************************************************)

\* The server settles the round: its stake and its win move the wallet in one commit.
ServerSettles(p) ==
    /\ plays[p].at = "asked"
    /\ server' = [server EXCEPT !.wallet = @ + 1]
    /\ plays' = [plays EXCEPT ![p] = [@ EXCEPT !.at = "answered", !.settledUnder = server.table,
                                               !.wallet = server.wallet + 1]]
    /\ UNCHANGED <<page, hook, seen, manifest, wallet, spent, frameVars>>

\* Money moves elsewhere: another tab, a review, an adjustment.
WalletMoves ==
    /\ Spend
    /\ server' = [server EXCEPT !.wallet = @ + 1]
    /\ UNCHANGED <<page, hook, seen, plays, manifest, wallet, frameVars>>

\* The operator puts another table in force.
TableChanges ==
    /\ Spend
    /\ \E t \in Tables \ {server.table} : server' = [server EXCEPT !.table = t]
    /\ UNCHANGED <<page, hook, seen, plays, manifest, wallet, frameVars>>

ManifestLands ==
    /\ manifest.fetching
    /\ \/ manifest' = [table |-> server.table, failed |-> FALSE, fetching |-> FALSE]
       \/ FetchesFail /\ manifest' = [manifest EXCEPT !.failed = TRUE, !.fetching = FALSE]
    /\ UNCHANGED <<page, hook, seen, plays, wallet, server, spent, frameVars>>

\* A wallet fetch reads the server, and its answer lands later.
WalletRead ==
    /\ wallet.fetch = "asked"
    /\ wallet' = [wallet EXCEPT !.fetch = "read", !.read = server.wallet]
    /\ UNCHANGED <<page, hook, seen, plays, manifest, server, spent, frameVars>>

WalletLands ==
    /\ wallet.fetch = "read"
    /\ \/ wallet' = [shown |-> wallet.read, stale |-> FALSE, fetch |-> "none", read |-> 0]
       \/ FetchesFail /\ wallet' = [wallet EXCEPT !.fetch = "none", !.read = 0]
    /\ UNCHANGED <<page, hook, seen, plays, manifest, server, spent, frameVars>>

(***************************************************************************)
(* Specification                                                           *)
(***************************************************************************)

PageNext ==
    \/ AttachFrame \/ FrameReloads \/ Render \/ ReadyTimeout \/ HostReceives \/ Retry
    \/ Leave \/ Return \/ \E t \in Titles : OpenTitle(t)
    \/ \E r \in Risks : ChooseRisk(r)
    \/ ToggleSound
    \/ \E p \in Plays : Play(p) \/ AnswerArrives(p) \/ AnswerFails(p) \/ Fallback(p)
WorldNext ==
    \/ \E p \in Plays : ServerSettles(p)
    \/ WalletMoves \/ TableChanges \/ ManifestLands \/ WalletRead \/ WalletLands
FrameMoves == FrameNext /\ UNCHANGED hostVars

Next == PageNext \/ WorldNext \/ FrameMoves

\* The browser answers or abandons every request and fires its timers.  Nothing is asked of
\* the frame, the player or the operator.
Fairness ==
    /\ WF_vars(\E p \in Plays : AnswerArrives(p) \/ AnswerFails(p))
    /\ WF_vars(\E p \in Plays : Fallback(p))

Spec == Init /\ [][Next]_vars /\ Fairness

(***************************************************************************)
(* Properties                                                              *)
(***************************************************************************)

Boards == (Tables \X Risks) \cup {NoBoard}

\* The types of the page's state and the frame's.
TypeOK ==
    /\ page \in [up : BOOLEAN, mount : Nat, iframe : BOOLEAN, timer : BOOLEAN, title : Titles]
    /\ hook \in [status : {"loading", "ready", "error"}, locked : BOOLEAN, sent : Boards,
                 risk : Risks, sound : BOOLEAN]
    /\ plays \in [Plays -> [at : {"idle", "asked", "answered", "falling", "shown", "left", "failed"},
                            mount : Nat, title : Titles, ready : BOOLEAN, table : Tables \cup {NoTable},
                            settledUnder : Tables \cup {NoTable}, wallet : Nat]]
    /\ manifest \in [table : Tables \cup {NoTable}, failed : BOOLEAN, fetching : BOOLEAN]
    /\ wallet \in [shown : Nat, stale : BOOLEAN, fetch : Fetches, read : Nat]
    /\ frame.board \in Boards /\ frame.phase \in {"none", "booting", "up", "broken"}
    /\ \A b \in DOMAIN frame.balls : frame.balls[b].round \in Plays

\* One page never has two rounds between click and landing, however clicks, renders, frame
\* reloads, retries and late answers fall ("Plinko never offers a second round while this is
\* true", session.ts).
OneAtATime ==
    Cardinality({p \in Plays : Mine(p) /\ plays[p].at \in {"asked", "answered", "falling"}}) <= 1

\* Once no fetch is under way or owed, the balance on screen includes every round this
\* client has revealed: no slower answer has put an older wallet back.
RevealedStays ==
    wallet.fetch = "none" /\ ~wallet.stale =>
        \A p \in Plays : plays[p].at = "shown" => wallet.shown >= plays[p].wallet

\* When page and frame are at rest, the labels on the frame's cups are the payouts of the
\* table and risk the page shows, and its sound is the page's, whatever was lost to a
\* reload, retry or change of title on the way.
AtRest ==
    /\ page.up /\ page.iframe /\ frame.phase = "up" /\ toFrame = <<>> /\ toHost = <<>>
    /\ seen = Shows /\ hook.status = "ready" /\ Pending = {} /\ Served # NoTable
BoardMatchesManifest ==
    AtRest => frame.board = Wanted(Shows) /\ frame.sound = hook.sound

\* Every bet that takes the controls gives them back, even when the frame never reports the
\* landing, unless the player has gone.
BetUnlocks == (page.up /\ hook.locked) ~> (~page.up \/ ~hook.locked)

=============================================================================
