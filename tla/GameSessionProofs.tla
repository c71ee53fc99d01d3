-------------------------- MODULE GameSessionProofs --------------------------
(***************************************************************************)
(* Proofs about GameSession, for any rounds, tables, risks, titles and      *)
(* number of events.                                                        *)
(***************************************************************************)
EXTENDS GameSession, SequenceTheorems, FiniteSetTheorems, TLAPS

(***************************************************************************)
(* The inductive invariant                                                 *)
(***************************************************************************)

Statuses == {"loading", "ready", "error"}
MaybeTable == Tables \cup {NoTable}
Page == [up : BOOLEAN, mount : Nat, iframe : BOOLEAN, timer : BOOLEAN, title : Titles]
Hook == [status : Statuses, locked : BOOLEAN, sent : Boards, risk : Risks, sound : BOOLEAN]
Round == [at : {"idle", "asked", "answered", "falling", "shown", "left", "failed"}, mount : Nat,
          title : Titles, ready : BOOLEAN, table : MaybeTable, settledUnder : MaybeTable, wallet : Nat]
WalletQuery == [shown : Nat, stale : BOOLEAN, fetch : Fetches, read : Nat]
ManifestQuery == [table : MaybeTable, failed : BOOLEAN, fetching : BOOLEAN]
Document == [phase : {"none", "booting", "up", "broken"}, title : Titles, board : Boards,
             sound : BOOLEAN, balls : Seq([round : Plays, slot : Slots])]
Posted == [type : {"configure"}, board : Boards, sound : BOOLEAN]
             \cup [type : {"set_sound"}, enabled : BOOLEAN]
             \cup [type : {"drop"}, round : Plays, slot : Slots]

SeenTyped ==
    /\ seen.status \in Statuses /\ seen.table \in MaybeTable
    /\ seen.risk \in Risks /\ seen.sound \in BOOLEAN
FrameTyped == frame \in Document /\ toFrame \in Seq(Posted)
HostTyped ==
    /\ page \in Page /\ hook \in Hook /\ SeenTyped /\ plays \in [Plays -> Round]
    /\ manifest \in ManifestQuery /\ wallet \in WalletQuery
    /\ server \in [table : Tables, wallet : Nat]

\* A round of this mount between click and landing, as long as the mount lasts.
Flying(p) == Mine(p) /\ plays[p].at \in {"asked", "answered", "falling"}

\* No round is of a mount to come, only the mounted page has balls in the air, and its one
\* round holds the lock.
Alone ==
    /\ \A p \in Plays : plays[p].mount <= page.mount
    /\ \A p \in Plays : plays[p].at = "falling" => Flying(p)
    /\ \A p \in Plays : Flying(p) => hook.locked
    /\ \A p, q \in Plays : Flying(p) /\ Flying(q) => p = q

Inv == HostTyped /\ FrameTyped /\ Alone

USE FrameAssumption, SessionAssumption

(***************************************************************************)
(* What the page's own functions return                                    *)
(***************************************************************************)

LEMMA ElementsTyped ==
  \A S : \A s \in Seq(S) : \A i \in DOMAIN s : s[i] \in S
BY LenProperties, ElementOfSeq

LEMMA InvIsTyped == Inv => TypeOK
<1> SUFFICES ASSUME Inv PROVE TypeOK
  OBVIOUS
<1>1. \A b \in DOMAIN frame.balls : frame.balls[b].round \in Plays
  <2>1. frame.balls \in Seq([round : Plays, slot : Slots])
    BY DEF Inv, FrameTyped, Document
  <2>2. \A b \in DOMAIN frame.balls : frame.balls[b] \in [round : Plays, slot : Slots]
    BY <2>1, ElementsTyped, Zenon
  <2> QED
    BY <2>2
<1> QED
  BY <1>1 DEF Inv, HostTyped, FrameTyped, Page, Hook, Round, MaybeTable, Statuses, WalletQuery,
     ManifestQuery, Document, TypeOK

LEMMA PendingIsFlying == Inv => Pending \subseteq Plays /\ \A p, q \in Pending : p = q
BY DEF Inv, Alone, Pending

\* At most one round is revealed at a time, so there is a last one.
LEMMA RevealTyped ==
  ASSUME HostTyped, NEW rounds \in SUBSET Plays, \A p, q \in rounds : p = q
  PROVE  Reveal(wallet, rounds) \in WalletQuery
<1> DEFINE Last == CHOOSE p \in rounds : \A q \in rounds : plays[p].wallet >= plays[q].wallet
<1>1. CASE rounds = {}
  BY <1>1 DEF Reveal, HostTyped
<1>2. ASSUME rounds # {} PROVE Last \in rounds
  <2>1. PICK p \in rounds : TRUE
    BY <1>2
  <2>2. plays[p].wallet \in Nat
    BY DEF HostTyped, Round
  <2>3. \A q \in rounds : plays[p].wallet >= plays[q].wallet
    BY <2>1, <2>2
  <2> QED
    BY <2>1, <2>3
<1>3. CASE rounds # {}
  <2>1. plays[Last].wallet \in Nat
    BY <1>2, <1>3 DEF HostTyped, Round
  <2> DEFINE Seen == [wallet EXCEPT !.shown = plays[Last].wallet]
  <2>2. Seen \in WalletQuery
    BY <2>1 DEF HostTyped, WalletQuery
  <2>3. Invalidate(Seen) \in WalletQuery
    BY <2>2 DEF Invalidate, WalletQuery, Fetches
  <2>4. Reveal(wallet, rounds) = Invalidate(Seen)
    BY <1>3 DEF Reveal
  <2> QED
    BY <2>3, <2>4
<1> QED
  BY <1>1, <1>3

LEMMA InvalidateTyped == \A w \in WalletQuery : Invalidate(w) \in WalletQuery
BY DEF Invalidate, WalletQuery, Fetches

LEMMA EndOfTyped ==
  ASSUME HostTyped, NEW p \in Plays,
         NEW at \in {"idle", "asked", "answered", "falling", "shown", "left", "failed"}
  PROVE  EndOf(p, at) \in Round /\ EndOf(p, at).at = at /\ EndOf(p, at).mount = 0
BY DEF HostTyped, EndOf, NotAsked, Round, MaybeTable

LEMMA ConfiguredTyped ==
  ASSUME NEW h \in Hook, NEW s, s.table \in MaybeTable, s.risk \in Risks, s.sound \in BOOLEAN,
         NEW falling
  PROVE  /\ Configured(h, s, falling) \in Hook
         /\ Configured(h, s, falling).locked = h.locked
         /\ ConfigureMessages(h, s, falling) \in Seq(Posted)
<1>1. CASE Configures(h, s, falling)
  <2>1. Wanted(s) \in Boards
    BY <1>1 DEF Configures, Wanted, Boards, MaybeTable
  <2>2. [type |-> "configure", board |-> Wanted(s), sound |-> s.sound] \in Posted
    BY <2>1 DEF Posted
  <2> QED
    BY <1>1, <2>1, <2>2 DEF Configured, ConfigureMessages, Hook
<1>2. CASE ~Configures(h, s, falling)
  BY <1>2, EmptySeq DEF Configured, ConfigureMessages
<1> QED
  BY <1>1, <1>2

(***************************************************************************)
(* Steps that leave rounds, mounts and the lock alone                      *)
(***************************************************************************)

\* What Alone speaks of.
Untouched ==
    /\ plays' = plays /\ page'.up = page.up /\ page'.mount = page.mount
    /\ hook'.locked = hook.locked

LEMMA UntouchedAlone == Alone /\ Untouched => Alone'
BY DEF Alone, Untouched, Flying, Mine

\* Rounds that fall end, and the bet is offered again when they were the last.
LEMMA SettleKeeps ==
  ASSUME HostTyped, Alone, NEW rounds \in SUBSET Pending,
         plays' = Ended(rounds, "shown"), wallet' = Reveal(wallet, rounds),
         hook'.locked = UnlockAfter(hook, rounds, Pending \ rounds).locked,
         page'.up = page.up, page'.mount = page.mount
  PROVE  plays' \in [Plays -> Round] /\ wallet' \in WalletQuery /\ Alone'
<1>1. rounds \in SUBSET Plays /\ \A p, q \in rounds : p = q
  BY DEF Pending, Alone
<1>2. plays' \in [Plays -> Round]
  BY <1>1, EndOfTyped DEF Ended, HostTyped
<1>3. wallet' \in WalletQuery
  BY <1>1, RevealTyped
<1>5. /\ \A p \in rounds : plays'[p].at = "shown" /\ plays'[p].mount = 0
      /\ \A p \in Plays \ rounds : plays'[p] = plays[p]
  BY <1>1, EndOfTyped DEF Ended
<1>6. \A p \in Plays : Flying(p)' <=> Flying(p) /\ p \notin rounds
  BY <1>1, <1>5 DEF Flying, Mine
<1>7. ASSUME NEW p \in Plays, Flying(p)' PROVE hook'.locked
  <2>1. rounds = {}
    BY <1>1, <1>6, <1>7 DEF Pending, Alone
  <2> QED
    BY <2>1, <1>6, <1>7 DEF UnlockAfter, Alone
<1>8. \A p \in Plays : plays'[p].mount <= page'.mount
  <2>1. page.mount \in Nat
    BY DEF HostTyped, Page
  <2> QED
    BY <2>1, <1>5 DEF Alone
<1>9. \A p \in Plays : plays'[p].at = "falling" => Flying(p)'
  BY <1>5, <1>6 DEF Alone
<1>10. \A p, q \in Plays : Flying(p)' /\ Flying(q)' => p = q
  BY <1>6 DEF Alone
<1> QED
  BY <1>2, <1>3, <1>7, <1>8, <1>9, <1>10 DEF Alone

(***************************************************************************)
(* Initially                                                               *)
(***************************************************************************)

LEMMA NotAskedTyped == NotAsked \in Round
BY DEF NotAsked, Round, MaybeTable

LEMMA FreshHookTyped ==
  ASSUME NEW risk \in Risks, NEW sound \in BOOLEAN
  PROVE  FreshHook(risk, sound) \in Hook
BY DEF FreshHook, Hook, Statuses, Boards

LEMMA BootingTyped ==
  ASSUME NEW title \in Titles
  PROVE  Booting(title) \in Document
BY EmptySeq DEF Booting, Document, Boards

LEMMA NoFrameTyped == NoFrame \in Document
BY EmptySeq DEF NoFrame, Booting, Document, Boards

LEMMA InvInit == Init => Inv
<1> SUFFICES ASSUME Init PROVE Inv
  OBVIOUS
<1>1. /\ page \in Page /\ plays \in [Plays -> Round] /\ manifest \in ManifestQuery
      /\ wallet \in WalletQuery /\ server \in [table : Tables, wallet : Nat]
  BY NotAskedTyped DEF Init, Page, ManifestQuery, WalletQuery, Fetches, MaybeTable
<1>2. hook \in Hook
  BY FreshHookTyped DEF Init
<1>3. SeenTyped
  BY <1>1, <1>2 DEF Init, SeenTyped, Shows, Served, Hook, MaybeTable
<1>4. FrameTyped
  BY NoFrameTyped, EmptySeq DEF Init, FrameTyped
<1>5. Alone
  <2>1. \A p \in Plays : plays[p].at = "idle" /\ plays[p].mount = 0
    BY DEF Init, NotAsked
  <2>2. \A p \in Plays : ~Flying(p)
    BY <2>1 DEF Flying
  <2>3. page.mount = 1
    BY DEF Init
  <2> QED
    BY <2>1, <2>2, <2>3 DEF Alone
<1> QED
  BY <1>1, <1>2, <1>3, <1>4, <1>5 DEF Inv, HostTyped

(***************************************************************************)
(* The frame's steps                                                       *)
(***************************************************************************)

LEMMA PostedTyped ==
  /\ \A m \in Posted : m.type = "configure" => m.board \in Boards /\ m.sound \in BOOLEAN
  /\ \A m \in Posted : m.type = "set_sound" => m.enabled \in BOOLEAN
  /\ \A m \in Posted : m.type = "drop" => m.round \in Plays /\ m.slot \in Slots
BY DEF Posted

LEMMA WithoutTyped ==
  ASSUME NEW S, NEW s \in Seq(S), NEW i \in DOMAIN s
  PROVE  SubSeq(s, 1, i - 1) \o SubSeq(s, i + 1, Len(s)) \in Seq(S)
<1>1. i \in 1 .. Len(s) /\ Len(s) \in Nat
  BY LenProperties
<1>2. \A j \in 1 .. Len(s) : s[j] \in S
  BY ElementOfSeq
<1>3. SubSeq(s, 1, i - 1) \in Seq(S)
  BY <1>1, <1>2, SubSeqProperties
<1>4. SubSeq(s, i + 1, Len(s)) \in Seq(S)
  BY <1>1, <1>2, SubSeqProperties
<1> QED
  BY <1>3, <1>4, ConcatProperties

LEMMA FrameKeeps == FrameTyped /\ FrameNext => FrameTyped'
<1> SUFFICES ASSUME FrameTyped, FrameNext PROVE FrameTyped'
  OBVIOUS
<1> DEFINE Ball == [round : Plays, slot : Slots]
<1>1. CASE FrameBoots \/ FrameBreaks
  BY <1>1 DEF FrameBoots, FrameBreaks, FrameTyped, Document
<1>2. ASSUME FrameReceives PROVE FrameTyped'
  <2> DEFINE m == Head(toFrame)
  <2>1. m \in Posted /\ toFrame' \in Seq(Posted)
    BY <1>2, HeadTailProperties DEF FrameReceives, FrameTyped
  <2>2. CASE UNCHANGED frame
    BY <2>1, <2>2 DEF FrameTyped
  <2>3. CASE m.type = "configure" /\ frame' = [frame EXCEPT !.board = m.board, !.sound = m.sound]
    BY <2>1, <2>3, PostedTyped DEF FrameTyped, Document
  <2>4. CASE m.type = "set_sound" /\ frame' = [frame EXCEPT !.sound = m.enabled]
    BY <2>1, <2>4, PostedTyped DEF FrameTyped, Document
  <2>5. CASE m.type = "drop" /\ frame' = DropBall(frame, m)
    <3>1. frame.balls \in Seq(Ball)
      BY DEF FrameTyped, Document
    <3>2. [round |-> m.round, slot |-> m.slot] \in Ball
      BY <2>1, <2>5, PostedTyped
    <3>3. Append(frame.balls, [round |-> m.round, slot |-> m.slot]) \in Seq(Ball)
      BY <3>1, <3>2, AppendProperties
    <3> QED
      BY <2>1, <2>5, <3>3 DEF DropBall, FrameTyped, Document
  <2> QED
    BY <1>2, <2>2, <2>3, <2>4, <2>5 DEF FrameReceives
<1>3. ASSUME NEW b \in DOMAIN frame.balls, LandBall(b) PROVE FrameTyped'
  <2>1. frame.balls \in Seq(Ball)
    BY DEF FrameTyped, Document
  <2>2. SubSeq(frame.balls, 1, b - 1) \o SubSeq(frame.balls, b + 1, Len(frame.balls)) \in Seq(Ball)
    BY <2>1, WithoutTyped
  <2> QED
    BY <1>3, <2>2 DEF LandBall, FrameTyped, Document
<1> QED
  BY <1>1, <1>2, <1>3 DEF FrameNext

(***************************************************************************)
(* The page's steps                                                        *)
(***************************************************************************)

LEMMA UnlockTyped ==
  ASSUME NEW h \in Hook, NEW rounds, NEW left
  PROVE  UnlockAfter(h, rounds, left) \in Hook
BY DEF UnlockAfter, Hook

LEMMA AttachKeeps == Inv /\ (AttachFrame \/ FrameReloads) => Inv'
<1> SUFFICES ASSUME Inv, AttachFrame \/ FrameReloads PROVE Inv'
  OBVIOUS
<1>1. page' \in Page /\ page'.up = page.up /\ page'.mount = page.mount
      /\ UNCHANGED <<hook, seen, plays, manifest, wallet, server>>
  BY DEF AttachFrame, FrameReloads, Inv, HostTyped, Page
<1>2. FrameTyped'
  <2>1. frame' = Booting(page.title) /\ toFrame' = <<>>
    BY DEF AttachFrame, FrameReloads
  <2>2. page.title \in Titles
    BY DEF Inv, HostTyped, Page
  <2> QED
    BY <2>1, <2>2, BootingTyped, EmptySeq DEF FrameTyped
<1> QED
  BY <1>1, <1>2, UntouchedAlone DEF Inv, HostTyped, SeenTyped, Untouched

LEMMA ShowsTyped ==
  ASSUME HostTyped
  PROVE  /\ Shows.status \in Statuses /\ Shows.table \in MaybeTable /\ Shows.risk \in Risks
         /\ Shows.sound \in BOOLEAN
BY DEF HostTyped, Hook, ManifestQuery, Shows, Served, MaybeTable

LEMMA RenderKeeps == Inv /\ Render => Inv'
<1> SUFFICES ASSUME Inv, Render PROVE Inv'
  OBVIOUS
<1> DEFINE s == Shows
           sounds == <<[type |-> "set_sound", enabled |-> s.sound]>>
<1>1. /\ s.status \in Statuses /\ s.table \in MaybeTable /\ s.risk \in Risks
      /\ s.sound \in BOOLEAN
  BY ShowsTyped DEF Inv
<1>2. /\ Configured(hook, s, Pending) \in Hook
      /\ Configured(hook, s, Pending).locked = hook.locked
      /\ ConfigureMessages(hook, s, Pending) \in Seq(Posted)
  BY <1>1, ConfiguredTyped DEF Inv, HostTyped
<1>3. sounds \in Seq(Posted)
  BY <1>1 DEF Posted
<1>4. toFrame' \in Seq(Posted)
  <2>1. toFrame \in Seq(Posted) /\ <<>> \in Seq(Posted)
    BY EmptySeq DEF Inv, FrameTyped
  <2>2. \E a \in Seq(Posted), b \in Seq(Posted) : toFrame' = toFrame \o a \o b
    BY <1>2, <1>3, <2>1 DEF Render
  <2> QED
    BY <2>1, <2>2, ConcatProperties
<1>5. hook' \in Hook /\ hook'.locked = hook.locked
  BY <1>2 DEF Render, Inv, HostTyped
<1>6. SeenTyped'
  BY <1>1 DEF Render, SeenTyped
<1> QED
  BY <1>4, <1>5, <1>6, UntouchedAlone DEF Render, Inv, HostTyped, FrameTyped, Untouched

LEMMA TimeoutKeeps == Inv /\ ReadyTimeout => Inv'
<1> SUFFICES ASSUME Inv, ReadyTimeout PROVE Inv'
  OBVIOUS
<1>1. page' \in Page /\ page'.up = page.up /\ page'.mount = page.mount
  BY DEF ReadyTimeout, Inv, HostTyped, Page
<1>2. hook' \in Hook /\ hook'.locked = hook.locked
  BY DEF ReadyTimeout, Inv, HostTyped, Hook, Statuses
<1> QED
  BY <1>1, <1>2, UntouchedAlone
     DEF ReadyTimeout, Inv, HostTyped, SeenTyped, FrameTyped, frameVars, Untouched

LEMMA HostReceivesKeeps == Inv /\ HostReceives => Inv'
<1> SUFFICES ASSUME Inv, HostReceives PROVE Inv'
  OBVIOUS
<1> DEFINE m == Head(toHost)
<1>1. UNCHANGED <<page, seen, manifest, server, frame>>
  BY DEF HostReceives
<1>2. CASE /\ hook' = Configured(Readied(hook), seen, {})
           /\ toFrame' = toFrame \o ConfigureMessages(Readied(hook), seen, {})
           /\ plays' = Ended(Pending, "shown")
           /\ wallet' = Reveal(wallet, Pending)
  <2>1. Readied(hook) \in Hook /\ Readied(hook).locked = UnlockAfter(hook, Pending, {}).locked
    <3>1. UnlockAfter(hook, Pending, {}) \in Hook
      BY UnlockTyped DEF Inv, HostTyped
    <3> QED
      BY <3>1 DEF Readied, Hook, Statuses, Boards
  <2>2. seen.table \in MaybeTable /\ seen.risk \in Risks /\ seen.sound \in BOOLEAN
    BY DEF Inv, HostTyped, SeenTyped
  <2>3. /\ hook' \in Hook /\ hook'.locked = UnlockAfter(hook, Pending, {}).locked
        /\ ConfigureMessages(Readied(hook), seen, {}) \in Seq(Posted)
    BY <1>2, <2>1, <2>2, ConfiguredTyped
  <2>4. toFrame' \in Seq(Posted)
    BY <1>2, <2>3, ConcatProperties DEF Inv, FrameTyped
  <2>5. plays' \in [Plays -> Round] /\ wallet' \in WalletQuery /\ Alone'
    <3>1. Pending \ Pending = {}
      OBVIOUS
    <3> QED
      BY <1>1, <1>2, <2>3, <3>1, SettleKeeps DEF Inv
  <2> QED
    BY <1>1, <2>3, <2>4, <2>5 DEF Inv, HostTyped, SeenTyped, FrameTyped
<1>3. CASE settle({m.round} \cap Pending, hook) /\ UNCHANGED toFrame
  <2>1. hook' \in Hook
    BY <1>3, UnlockTyped DEF settle, Inv, HostTyped
  <2>2. plays' \in [Plays -> Round] /\ wallet' \in WalletQuery /\ Alone'
    BY <1>1, <1>3, SettleKeeps DEF settle, Inv
  <2> QED
    BY <1>1, <1>3, <2>1, <2>2 DEF Inv, HostTyped, SeenTyped, FrameTyped
<1>4. CASE /\ hook' = IF m.code = "unsupported_version" THEN [hook EXCEPT !.status = "error"] ELSE hook
           /\ UNCHANGED <<toFrame, plays, wallet>>
  <2>1. hook' \in Hook /\ hook'.locked = hook.locked
    BY <1>4 DEF Inv, HostTyped, Hook, Statuses
  <2> QED
    BY <1>1, <1>4, <2>1, UntouchedAlone DEF Inv, HostTyped, SeenTyped, FrameTyped, Untouched
<1> QED
  BY <1>2, <1>3, <1>4 DEF HostReceives

LEMMA RetryKeeps == Inv /\ Retry => Inv'
<1> SUFFICES ASSUME Inv, Retry PROVE Inv'
  OBVIOUS
<1> DEFINE h == [hook EXCEPT !.status = "loading"]
<1>1. /\ page' \in Page /\ page'.up = page.up /\ page'.mount = page.mount
      /\ manifest' \in ManifestQuery /\ UNCHANGED <<seen, server>>
  BY DEF Retry, Inv, HostTyped, Page, ManifestQuery
<1>2. h \in Hook /\ h.locked = hook.locked
  BY DEF Inv, HostTyped, Hook, Statuses
<1>3. hook' \in Hook /\ hook'.locked = UnlockAfter(hook, Pending, Pending \ Pending).locked
  BY <1>2, UnlockTyped DEF Retry, settle, UnlockAfter, Inv, HostTyped, Hook
<1>4. plays' \in [Plays -> Round] /\ wallet' \in WalletQuery /\ Alone'
  BY <1>1, <1>3, SettleKeeps DEF Retry, settle, Inv
<1>5. FrameTyped'
  BY BootingTyped, EmptySeq DEF Retry, Inv, HostTyped, Page, FrameTyped
<1> QED
  BY <1>1, <1>3, <1>4, <1>5 DEF Inv, HostTyped, SeenTyped

LEMMA LeaveKeeps == Inv /\ Leave => Inv'
<1> SUFFICES ASSUME Inv, Leave PROVE Inv'
  OBVIOUS
<1>1. page' \in Page /\ page'.mount = page.mount /\ ~page'.up
  BY DEF Leave, Inv, HostTyped, Page
<1>2. plays' \in [Plays -> Round]
  BY EndOfTyped DEF Leave, Ended, Inv, HostTyped
<1>3. \A p \in Plays : plays'[p] = plays[p] \/ (plays'[p].mount = 0 /\ plays'[p].at = "left")
  BY EndOfTyped DEF Leave, Ended, Inv
<1>4. \A p \in Plays : plays'[p].at # "falling" /\ ~Flying(p)'
  BY <1>1, EndOfTyped DEF Leave, Ended, Pending, Inv, Flying, Mine
<1>5. \A p \in Plays : plays'[p].mount <= page'.mount
  <2>1. page.mount \in Nat
    BY DEF Inv, HostTyped, Page
  <2> QED
    BY <1>1, <1>3, <2>1 DEF Inv, Alone
<1>6. Alone'
  BY <1>4, <1>5 DEF Alone
<1>7. FrameTyped'
  BY NoFrameTyped, EmptySeq DEF Leave, FrameTyped
<1> QED
  BY <1>1, <1>2, <1>6, <1>7 DEF Leave, Inv, HostTyped, SeenTyped

LEMMA ReturnKeeps == Inv /\ Return => Inv'
<1> SUFFICES ASSUME Inv, Return PROVE Inv'
  OBVIOUS
<1>1. page' \in Page /\ page'.mount = page.mount + 1 /\ page.mount \in Nat
  <2>1. page \in Page /\ page.mount \in Nat
    BY DEF Inv, HostTyped, Page
  <2>2. page' = [page EXCEPT !.up = TRUE, !.mount = page.mount + 1]
    BY DEF Return
  <2>3. \A n \in Nat : /\ [page EXCEPT !.up = TRUE, !.mount = n] \in Page
                      /\ [page EXCEPT !.up = TRUE, !.mount = n].mount = n
    BY <2>1 DEF Page
  <2>4. page.mount + 1 \in Nat
    BY <2>1
  <2> QED
    BY <2>1, <2>2, <2>3, <2>4, Zenon
<1>2. PICK risk \in Risks :
        /\ hook' = FreshHook(risk, hook.sound)
        /\ seen' = [Shows EXCEPT !.status = "loading", !.locked = FALSE, !.inFlight = 0, !.risk = risk]
  BY DEF Return
<1>3. hook' \in Hook /\ SeenTyped'
  <2>1. hook' \in Hook
    BY <1>2, FreshHookTyped DEF Inv, HostTyped, Hook
  <2>2. SeenTyped'
    BY <1>2, ShowsTyped DEF Shows, SeenTyped, Statuses, Inv
  <2> QED
    BY <2>1, <2>2
<1>4. manifest' \in ManifestQuery /\ wallet' \in WalletQuery
  BY DEF Return, Inv, HostTyped, ManifestQuery, WalletQuery, Fetches
<1>5. \A p \in Plays : plays[p].mount \in Nat /\ plays[p].mount <= page.mount
  BY DEF Inv, HostTyped, Alone, Round
<1>6. \A p \in Plays : plays[p].at # "falling"
  BY DEF Return, Inv, Alone, Flying, Mine
<1>7. plays' = plays /\ \A p \in Plays : ~Flying(p)'
  BY <1>1, <1>5 DEF Return, Flying, Mine
<1>8. Alone'
  BY <1>1, <1>5, <1>6, <1>7 DEF Alone
<1> QED
  BY <1>1, <1>3, <1>4, <1>7, <1>8 DEF Return, Inv, HostTyped, FrameTyped, frameVars

LEMMA OpenTitleKeeps == ASSUME NEW title \in Titles PROVE Inv /\ OpenTitle(title) => Inv'
<1> SUFFICES ASSUME Inv, OpenTitle(title) PROVE Inv'
  OBVIOUS
<1>1. page' \in Page /\ page'.up = page.up /\ page'.mount = page.mount
  BY DEF OpenTitle, Inv, HostTyped, Page
<1>2. SeenTyped'
  <2>1. seen' = [Shows EXCEPT !.table = NoTable]
    BY DEF OpenTitle
  <2> QED
    BY <2>1, ShowsTyped DEF Shows, SeenTyped, MaybeTable, Inv
<1>3. manifest' \in ManifestQuery
  BY DEF OpenTitle, ManifestQuery, MaybeTable
<1>4. FrameTyped'
  BY BootingTyped, NoFrameTyped, EmptySeq DEF OpenTitle, FrameTyped
<1> QED
  BY <1>1, <1>2, <1>3, <1>4, UntouchedAlone DEF OpenTitle, Inv, HostTyped, Untouched

LEMMA SettingsKeep ==
  ASSUME NEW risk \in Risks
  PROVE  Inv /\ (ChooseRisk(risk) \/ ToggleSound) => Inv'
<1> SUFFICES ASSUME Inv, ChooseRisk(risk) \/ ToggleSound PROVE Inv'
  OBVIOUS
<1>1. hook' \in Hook /\ hook'.locked = hook.locked
  BY DEF ChooseRisk, ToggleSound, Inv, HostTyped, Hook
<1>2. UNCHANGED <<page, seen, plays, manifest, wallet, server, frame, toFrame>>
  BY DEF ChooseRisk, ToggleSound, frameVars
<1> QED
  BY <1>1, <1>2, UntouchedAlone DEF Inv, HostTyped, SeenTyped, FrameTyped, Untouched

(***************************************************************************)
(* A round's steps                                                         *)
(***************************************************************************)

\* The lock was free, so nothing was flying, and now this round holds it.
LEMMA PlayKeeps == ASSUME NEW p \in Plays PROVE Inv /\ Play(p) => Inv'
<1> SUFFICES ASSUME Inv, Play(p) PROVE Inv'
  OBVIOUS
<1> DEFINE asked == [plays[p] EXCEPT !.at = "asked", !.mount = page.mount, !.title = page.title,
                                     !.ready = seen.status = "ready", !.table = seen.table]
<1>1. /\ plays' = [plays EXCEPT ![p] = asked] /\ hook' = [hook EXCEPT !.locked = TRUE]
      /\ UNCHANGED <<page, seen, manifest, wallet, server, frame, toFrame>>
  BY DEF Play, frameVars
<1>2. page.mount \in Nat /\ page.title \in Titles /\ seen.table \in MaybeTable
  BY DEF Inv, HostTyped, SeenTyped, Page
<1>3. asked \in Round /\ asked.at = "asked" /\ asked.mount = page.mount
  <2>1. plays[p] \in Round
    BY DEF Inv, HostTyped
  <2> DEFINE Asked(ready) ==
               [plays[p] EXCEPT !.at = "asked", !.mount = page.mount, !.title = page.title,
                                !.ready = ready, !.table = seen.table]
  <2>2. \E ready \in BOOLEAN : asked = Asked(ready)
    <3>1. CASE seen.status = "ready"
      <4>1. asked = Asked(TRUE)
        BY <3>1
      <4> QED
        BY <4>1, Zenon
    <3>2. CASE seen.status # "ready"
      <4>1. asked = Asked(FALSE)
        BY <3>2
      <4> QED
        BY <4>1, Zenon
    <3> QED
      BY <3>1, <3>2
  <2> HIDE DEF asked
  <2>3. PICK ready \in BOOLEAN : asked = Asked(ready)
    BY <2>2
  <2> QED
    BY <1>2, <2>1, <2>3 DEF Round
<1>4. plays' \in [Plays -> Round]
  BY <1>1, <1>3 DEF Inv, HostTyped
<1>5. hook' \in Hook /\ hook'.locked
  BY <1>1 DEF Inv, HostTyped, Hook
<1>6. plays'[p] = asked /\ \A q \in Plays \ {p} : plays'[q] = plays[q]
  BY <1>1 DEF Inv, HostTyped
<1>7. \A q \in Plays : Flying(q)' => q = p
  BY <1>1, <1>6 DEF Play, Admits, Inv, Alone, Flying, Mine
<1>8. Alone'
  <2>1. \A q \in Plays : plays'[q].mount <= page'.mount
    BY <1>1, <1>2, <1>3, <1>6 DEF Inv, Alone
  <2>2. \A q \in Plays : plays'[q].at = "falling" => Flying(q)'
    BY <1>1, <1>3, <1>6 DEF Inv, Alone, Flying, Mine
  <2> QED
    BY <1>5, <1>7, <2>1, <2>2 DEF Alone
<1> QED
  BY <1>1, <1>4, <1>5, <1>8 DEF Inv, HostTyped, SeenTyped, FrameTyped

\* A call that ends frees the lock of the mount that made it, whose only round it was.
LEMMA EndingKeepsAlone ==
  ASSUME Inv, NEW p \in Calls, NEW round, round.mount = 0, round.at \in {"shown", "failed"},
         plays' = [plays EXCEPT ![p] = round], UNCHANGED page,
         hook'.locked = hook.locked \/ Mine(p)
  PROVE  Alone'
<1>1. p \in Plays /\ plays[p].at \in {"asked", "answered"}
  BY DEF Calls
<1>2. plays'[p] = round /\ \A q \in Plays \ {p} : plays'[q] = plays[q]
  BY <1>1 DEF Inv, HostTyped
<1>3. page.mount \in Nat
  BY DEF Inv, HostTyped, Page
<1>4. \A q \in Plays : Flying(q)' => Flying(q) /\ q # p
  BY <1>1, <1>2 DEF Flying, Mine
<1>5. Mine(p) => \A q \in Plays : ~Flying(q)'
  BY <1>1, <1>4 DEF Inv, Alone, Flying
<1>6. \A q \in Plays : Flying(q)' => hook'.locked
  BY <1>4, <1>5 DEF Inv, Alone
<1>7. \A q \in Plays : plays'[q].mount <= page'.mount
  BY <1>1, <1>2, <1>3 DEF Inv, Alone
<1>8. \A q \in Plays : plays'[q].at = "falling" => Flying(q)'
  BY <1>2 DEF Inv, Alone, Flying, Mine
<1> QED
  BY <1>4, <1>6, <1>7, <1>8 DEF Inv, Alone

LEMMA AnswerFailsKeeps == ASSUME NEW p \in Plays PROVE Inv /\ AnswerFails(p) => Inv'
<1> SUFFICES ASSUME Inv, AnswerFails(p) PROVE Inv'
  OBVIOUS
<1> DEFINE failed == [NotAsked EXCEPT !.at = "failed"]
<1>1. /\ p \in Calls /\ plays' = [plays EXCEPT ![p] = failed]
      /\ UNCHANGED <<page, seen, manifest, server, frame, toFrame>>
  BY DEF AnswerFails, frameVars
<1>2. failed \in Round /\ failed.at = "failed" /\ failed.mount = 0
  BY DEF NotAsked, Round, MaybeTable
<1>3. hook' \in Hook /\ (hook'.locked = hook.locked \/ Mine(p))
  BY DEF AnswerFails, Inv, HostTyped, Hook
<1>4. wallet' \in WalletQuery
  BY InvalidateTyped DEF AnswerFails, Inv, HostTyped
<1>5. plays' \in [Plays -> Round]
  BY <1>1, <1>2 DEF Inv, HostTyped
<1>6. Alone'
  BY <1>1, <1>2, <1>3, EndingKeepsAlone
<1> QED
  BY <1>1, <1>3, <1>4, <1>5, <1>6 DEF Inv, HostTyped, SeenTyped, FrameTyped

\* A round that falls stays the one round of its mount; one that cannot is revealed at once.
LEMMA AnswerArrivesKeeps == ASSUME NEW p \in Plays PROVE Inv /\ AnswerArrives(p) => Inv'
<1> SUFFICES ASSUME Inv, AnswerArrives(p) PROVE Inv'
  OBVIOUS
<1>1. plays[p].at = "answered" /\ p \in Calls /\ UNCHANGED <<page, seen, server, frame>>
  BY DEF AnswerArrives, Calls
<1>2. manifest' \in ManifestQuery
  BY DEF AnswerArrives, NoticeTable, Inv, HostTyped, ManifestQuery
<1>3. page.mount \in Nat
  BY DEF Inv, HostTyped, Page
<1> DEFINE falling == [EndOf(p, "falling") EXCEPT !.mount = page.mount]
           drop == [type |-> "drop", round |-> p, slot |-> Results[p]]
<1>4. CASE /\ Dropped(p) /\ toFrame' = Append(toFrame, drop)
           /\ plays' = [plays EXCEPT ![p] = falling] /\ UNCHANGED <<hook, wallet>>
  <2>1. falling \in Round /\ falling.at = "falling" /\ falling.mount = page.mount
    BY <1>3, EndOfTyped DEF Inv, Round
  <2>2. plays' \in [Plays -> Round]
    BY <1>4, <2>1 DEF Inv, HostTyped
  <2>3. plays'[p] = falling /\ \A q \in Plays \ {p} : plays'[q] = plays[q]
    BY <1>4 DEF Inv, HostTyped
  <2>4. Flying(p) /\ \A q \in Plays : Flying(q)' <=> Flying(q)
    BY <1>1, <1>4, <2>1, <2>3 DEF Dropped, Flying, Mine
  <2>5. \A q \in Plays : plays'[q].mount <= page'.mount
    <3>1. plays'[p].mount = page.mount
      BY <2>1, <2>3
    <3>2. \A q \in Plays \ {p} : plays'[q].mount <= page.mount
      BY <2>3 DEF Inv, Alone
    <3> QED
      BY <1>1, <1>3, <3>1, <3>2
  <2>6. \A q \in Plays : plays'[q].at = "falling" => Flying(q)'
    BY <2>3, <2>4 DEF Inv, Alone
  <2>7. Alone'
    BY <1>4, <2>4, <2>5, <2>6 DEF Inv, Alone
  <2>8. toFrame' \in Seq(Posted)
    <3>1. drop \in Posted
      BY DEF Posted, Slots
    <3> QED
      BY <1>4, <3>1, AppendProperties DEF Inv, FrameTyped
  <2> QED
    BY <1>1, <1>2, <1>4, <2>2, <2>7, <2>8 DEF Inv, HostTyped, SeenTyped, FrameTyped
<1>5. CASE /\ plays' = Ended({p}, "shown") /\ wallet' = Reveal(wallet, {p})
           /\ hook' = IF Mine(p) THEN UnlockAfter(hook, {p}, Pending) ELSE hook
           /\ UNCHANGED toFrame
  <2> DEFINE shown == EndOf(p, "shown")
  <2>1. shown \in Round /\ shown.at = "shown" /\ shown.mount = 0
    BY EndOfTyped DEF Inv
  <2>2. plays' = [plays EXCEPT ![p] = shown]
    BY <1>5 DEF Ended, Inv, HostTyped
  <2>3. plays' \in [Plays -> Round]
    BY <2>1, <2>2 DEF Inv, HostTyped
  <2>4. wallet' \in WalletQuery
    BY <1>5, RevealTyped DEF Inv
  <2>5. hook' \in Hook /\ (hook'.locked = hook.locked \/ Mine(p))
    BY <1>5, UnlockTyped DEF Inv, HostTyped
  <2>6. Alone'
    BY <1>1, <2>1, <2>2, <2>5, EndingKeepsAlone
  <2> QED
    BY <1>1, <1>2, <1>5, <2>3, <2>4, <2>5, <2>6 DEF Inv, HostTyped, SeenTyped, FrameTyped
<1> QED
  BY <1>4, <1>5 DEF AnswerArrives

LEMMA FallbackKeeps == ASSUME NEW p \in Plays PROVE Inv /\ Fallback(p) => Inv'
<1> SUFFICES ASSUME Inv, Fallback(p) PROVE Inv'
  OBVIOUS
<1>1. {p} \in SUBSET Pending /\ UNCHANGED <<page, seen, manifest, server, frame, toFrame>>
  BY DEF Fallback, frameVars
<1>2. hook' \in Hook
  BY UnlockTyped DEF Fallback, settle, Inv, HostTyped
<1>3. plays' \in [Plays -> Round] /\ wallet' \in WalletQuery /\ Alone'
  BY <1>1, SettleKeeps DEF Fallback, settle, Inv
<1> QED
  BY <1>1, <1>2, <1>3 DEF Inv, HostTyped, SeenTyped, FrameTyped

LEMMA ServerSettlesKeeps == ASSUME NEW p \in Plays PROVE Inv /\ ServerSettles(p) => Inv'
<1> SUFFICES ASSUME Inv, ServerSettles(p) PROVE Inv'
  OBVIOUS
<1> DEFINE answered == [plays[p] EXCEPT !.at = "answered", !.settledUnder = server.table,
                                        !.wallet = server.wallet + 1]
<1>1. /\ plays[p].at = "asked" /\ plays' = [plays EXCEPT ![p] = answered]
      /\ UNCHANGED <<page, hook, seen, manifest, wallet, frame, toFrame>>
  BY DEF ServerSettles, frameVars
<1>2. server.wallet \in Nat /\ server.table \in MaybeTable
  BY DEF Inv, HostTyped, MaybeTable
<1>3. answered \in Round /\ answered.at = "answered" /\ answered.mount = plays[p].mount
  <2>1. plays[p] \in Round /\ server.wallet + 1 \in Nat
    BY <1>2 DEF Inv, HostTyped
  <2>2. \A table \in MaybeTable, n \in Nat :
           LET r == [plays[p] EXCEPT !.at = "answered", !.settledUnder = table, !.wallet = n]
           IN r \in Round /\ r.at = "answered" /\ r.mount = plays[p].mount
    BY <2>1 DEF Round
  <2> QED
    BY <1>2, <2>1, <2>2
<1>4. plays' \in [Plays -> Round]
  BY <1>1, <1>3 DEF Inv, HostTyped
<1>5. server' \in [table : Tables, wallet : Nat]
  BY DEF ServerSettles, Inv, HostTyped
<1>6. plays'[p] = answered /\ \A q \in Plays \ {p} : plays'[q] = plays[q]
  BY <1>1 DEF Inv, HostTyped
<1>7. \A q \in Plays : (Flying(q)' <=> Flying(q)) /\ plays'[q].mount = plays[q].mount
  BY <1>1, <1>3, <1>6 DEF Flying, Mine
<1>8. \A q \in Plays : plays'[q].at = "falling" => Flying(q)'
  BY <1>3, <1>6, <1>7 DEF Inv, Alone
<1>9. Alone'
  BY <1>1, <1>7, <1>8 DEF Inv, Alone
<1> QED
  BY <1>1, <1>4, <1>5, <1>9 DEF Inv, HostTyped, SeenTyped, FrameTyped

(***************************************************************************)
(* The queries and the world                                               *)
(***************************************************************************)

LEMMA WorldKeeps ==
  Inv /\ (WalletMoves \/ TableChanges \/ ManifestLands \/ WalletRead \/ WalletLands) => Inv'
<1> SUFFICES ASSUME Inv, WalletMoves \/ TableChanges \/ ManifestLands \/ WalletRead \/ WalletLands
             PROVE  Inv'
  OBVIOUS
<1>1. UNCHANGED <<page, hook, seen, plays, frame, toFrame>>
  BY DEF WalletMoves, TableChanges, ManifestLands, WalletRead, WalletLands, frameVars
<1>2. server' \in [table : Tables, wallet : Nat]
  <2>1. server \in [table : Tables, wallet : Nat]
    BY DEF Inv, HostTyped
  <2>2. CASE WalletMoves
    BY <2>1, <2>2 DEF WalletMoves
  <2>3. CASE TableChanges
    BY <2>1, <2>3 DEF TableChanges
  <2>4. CASE ManifestLands \/ WalletRead \/ WalletLands
    BY <2>1, <2>4 DEF ManifestLands, WalletRead, WalletLands
  <2> QED
    BY <2>2, <2>3, <2>4
<1>3. manifest' \in ManifestQuery
  <2>1. manifest \in ManifestQuery /\ server.table \in MaybeTable
    BY DEF Inv, HostTyped, MaybeTable
  <2>2. CASE ManifestLands
    <3>1. [manifest EXCEPT !.failed = TRUE, !.fetching = FALSE] \in ManifestQuery
      BY <2>1 DEF ManifestQuery
    <3>2. [table |-> server.table, failed |-> FALSE, fetching |-> FALSE] \in ManifestQuery
      BY <2>1 DEF ManifestQuery
    <3> QED
      BY <2>2, <3>1, <3>2, Zenon DEF ManifestLands
  <2>3. CASE WalletMoves \/ TableChanges \/ WalletRead \/ WalletLands
    BY <2>1, <2>3 DEF WalletMoves, TableChanges, WalletRead, WalletLands
  <2> QED
    BY <2>2, <2>3
<1>4. wallet' \in WalletQuery
  <2>1. wallet \in WalletQuery /\ server.wallet \in Nat
    BY DEF Inv, HostTyped
  <2>2. CASE WalletMoves \/ TableChanges \/ ManifestLands
    BY <2>1, <2>2 DEF WalletMoves, TableChanges, ManifestLands
  <2>3. CASE WalletRead
    <3>1. wallet' = [wallet EXCEPT !.fetch = "read", !.read = server.wallet]
      BY <2>3 DEF WalletRead
    <3> QED
      BY <2>1, <3>1 DEF WalletQuery, Fetches
  <2>4. CASE WalletLands
    <3>1. [wallet EXCEPT !.fetch = "none", !.read = 0] \in WalletQuery
      BY <2>1 DEF WalletQuery, Fetches
    <3>2. [shown |-> wallet.read, stale |-> FALSE, fetch |-> "none", read |-> 0] \in WalletQuery
      BY <2>1 DEF WalletQuery, Fetches
    <3> QED
      BY <2>4, <3>1, <3>2, Zenon DEF WalletLands
  <2> QED
    BY <2>2, <2>3, <2>4
<1> QED
  BY <1>1, <1>2, <1>3, <1>4, UntouchedAlone DEF Inv, HostTyped, SeenTyped, FrameTyped, Untouched

LEMMA FrameMovesKeeps == Inv /\ FrameMoves => Inv'
<1> SUFFICES ASSUME Inv, FrameMoves PROVE Inv'
  OBVIOUS
<1>1. FrameTyped'
  BY FrameKeeps DEF Inv, FrameMoves
<1>2. UNCHANGED <<page, hook, seen, plays, manifest, wallet, server>>
  BY DEF FrameMoves, hostVars
<1> QED
  BY <1>1, <1>2, UntouchedAlone DEF Inv, HostTyped, SeenTyped, Untouched

LEMMA StutterKeeps == Inv /\ UNCHANGED vars => Inv'
<1> SUFFICES ASSUME Inv, UNCHANGED vars PROVE Inv'
  OBVIOUS
<1>1. UNCHANGED <<page, hook, seen, plays, manifest, wallet, server, frame, toFrame>>
  BY DEF vars, hostVars, frameVars
<1> QED
  BY <1>1, UntouchedAlone DEF Inv, HostTyped, SeenTyped, FrameTyped, Untouched

(***************************************************************************)
(* The theorems                                                            *)
(***************************************************************************)

LEMMA InvNext == Inv /\ [Next]_vars => Inv'
<1> SUFFICES ASSUME Inv, [Next]_vars PROVE Inv'
  OBVIOUS
<1>1. CASE PageNext
  <2>1. CASE AttachFrame \/ FrameReloads \/ Render \/ ReadyTimeout \/ HostReceives \/ Retry
             \/ Leave \/ Return
    BY <2>1, AttachKeeps, RenderKeeps, TimeoutKeeps, HostReceivesKeeps, RetryKeeps, LeaveKeeps,
       ReturnKeeps
  <2>2. CASE \E t \in Titles : OpenTitle(t)
    BY <2>2, OpenTitleKeeps
  <2>3. CASE \E r \in Risks : ChooseRisk(r)
    BY <2>3, SettingsKeep
  <2>4. CASE ToggleSound
    <3>1. hook.risk \in Risks
      BY DEF Inv, HostTyped, Hook
    <3> QED
      BY <2>4, <3>1, SettingsKeep
  <2>5. ASSUME NEW p \in Plays, Play(p) \/ AnswerArrives(p) \/ AnswerFails(p) \/ Fallback(p)
        PROVE  Inv'
    BY <2>5, PlayKeeps, AnswerArrivesKeeps, AnswerFailsKeeps, FallbackKeeps
  <2> QED
    BY <1>1, <2>1, <2>2, <2>3, <2>4, <2>5 DEF PageNext
<1>2. CASE WorldNext
  BY <1>2, ServerSettlesKeeps, WorldKeeps DEF WorldNext
<1>3. CASE FrameMoves
  BY <1>3, FrameMovesKeeps
<1>4. CASE UNCHANGED vars
  BY <1>4, StutterKeeps
<1> QED
  BY <1>1, <1>2, <1>3, <1>4 DEF Next

LEMMA AtMostOne ==
  ASSUME NEW S, \A p, q \in S : p = q
  PROVE  Cardinality(S) <= 1
<1>1. CASE S = {}
  BY <1>1, FS_EmptySet
<1>2. ASSUME NEW p \in S PROVE Cardinality(S) <= 1
  <2>1. S = {p}
    BY <1>2
  <2>2. Cardinality({p}) = 1
    BY FS_Singleton
  <2> QED
    BY <2>1, <2>2
<1> QED
  BY <1>1, <1>2

LEMMA InvIsAlone == Inv => OneAtATime
<1> SUFFICES ASSUME Inv PROVE OneAtATime
  OBVIOUS
<1> DEFINE Aloft == {p \in Plays : Mine(p) /\ plays[p].at \in {"asked", "answered", "falling"}}
<1>1. \A p, q \in Aloft : p = q
  BY DEF Inv, Alone, Flying
<1>2. Cardinality(Aloft) <= 1
  <2> HIDE DEF Aloft
  <2> QED
    BY <1>1, AtMostOne
<1> QED
  BY <1>2 DEF OneAtATime

\* The page's state, its iframe's and what is posted to it keep their types: in particular
\* "the last round revealed" is always a round, though settle picks it from a set.
THEOREM TypeCorrect == Spec => []TypeOK
BY InvInit, InvNext, InvIsTyped, PTL DEF Spec

\* One page never has two rounds between click and landing, however many rounds, renders,
\* reloads, retries, changes of title and late answers come (session.ts, inFlightRef).
THEOREM RoundsComeOneAtATime == Spec => []OneAtATime
BY InvInit, InvNext, InvIsAlone, PTL DEF Spec

(***************************************************************************)
(* The balance on screen                                                   *)
(***************************************************************************)

Revealed == {p \in Plays : plays[p].at = "shown"}

\* No round is of a later wallet than the server's, and unless the query is stale or about
\* to be, what it shows, or has read and will show, includes every round revealed.
CaughtUp ==
    /\ \A p \in Plays : plays[p].wallet <= server.wallet
    /\ ~wallet.stale => \A p \in Revealed : wallet.shown >= plays[p].wallet
    /\ wallet.fetch = "read" => \A p \in Revealed : wallet.read >= plays[p].wallet

LEMMA CaughtUpInit == Init => CaughtUp
BY DEF Init, CaughtUp, Revealed, NotAsked

\* The rounds keep their wallets, and no other round is revealed.
SameRounds ==
    /\ \A p \in Plays : plays'[p].wallet <= server'.wallet
    /\ Revealed' = Revealed /\ \A p \in Revealed : plays'[p].wallet = plays[p].wallet

LEMMA SameRoundsCaughtUp ==
  ASSUME CaughtUp, SameRounds,
         \/ wallet' = wallet \/ wallet' = Invalidate(wallet)
         \/ wallet' = [wallet EXCEPT !.fetch = "asked"],
         HostTyped
  PROVE  CaughtUp'
<1>1. \/ wallet' = wallet
      \/ wallet'.fetch = "asked" /\ (wallet'.stale \/ (wallet'.stale = wallet.stale /\ wallet'.shown = wallet.shown))
  BY DEF Invalidate, HostTyped, WalletQuery
<1>2. CASE wallet' = wallet
  BY <1>2 DEF CaughtUp, SameRounds
<1>3. CASE wallet'.fetch = "asked" /\ (wallet'.stale \/ (wallet'.stale = wallet.stale /\ wallet'.shown = wallet.shown))
  BY <1>3 DEF CaughtUp, SameRounds
<1> QED
  BY <1>1, <1>2, <1>3

\* A round revealed has the wallet fetched again, whatever was under way.
LEMMA RevealCaughtUp ==
  ASSUME HostTyped, CaughtUp, NEW rounds \in SUBSET Plays, server'.wallet = server.wallet,
         plays' = Ended(rounds, "shown"), wallet' = Reveal(wallet, rounds)
  PROVE  CaughtUp'
<1>1. \A p \in Plays : plays'[p].wallet = plays[p].wallet
  BY DEF Ended, EndOf, NotAsked
<1>2. CASE rounds = {}
  <2>1. \A p \in Plays : plays'[p] = plays[p]
    BY <1>2 DEF Ended
  <2> QED
    BY <1>2, <2>1, SameRoundsCaughtUp DEF Reveal, SameRounds, Revealed, CaughtUp
<1>3. CASE rounds # {}
  <2>1. \E w \in {[wallet EXCEPT !.shown = v] : v \in {plays[p].wallet : p \in Plays}
                                                      \cup {plays[CHOOSE p \in rounds : \A q \in rounds : plays[p].wallet >= plays[q].wallet].wallet}} :
           wallet' = Invalidate(w)
    BY <1>3 DEF Reveal
  <2>2. wallet'.stale = TRUE /\ wallet'.fetch = "asked"
    BY <2>1 DEF Invalidate, HostTyped, WalletQuery
  <2> QED
    BY <1>1, <2>2 DEF CaughtUp
<1> QED
  BY <1>2, <1>3

LEMMA CaughtUpNext == Inv /\ CaughtUp /\ [Next]_vars => CaughtUp'
<1> SUFFICES ASSUME Inv, CaughtUp, [Next]_vars PROVE CaughtUp'
  OBVIOUS
<1>0. HostTyped /\ server.wallet \in Nat /\ \A p \in Plays : plays[p] \in Round /\ plays[p].wallet \in Nat
  BY DEF Inv, HostTyped, Round
<1>1. ASSUME UNCHANGED <<plays, server>>,
             \/ wallet' = wallet \/ wallet' = [wallet EXCEPT !.fetch = "asked"]
      PROVE  CaughtUp'
  BY <1>0, <1>1, SameRoundsCaughtUp DEF SameRounds, Revealed, CaughtUp
<1>2. CASE \/ AttachFrame \/ FrameReloads \/ Render \/ ReadyTimeout \/ Return \/ ToggleSound
           \/ \E t \in Titles : OpenTitle(t)
           \/ \E r \in Risks : ChooseRisk(r)
  BY <1>1, <1>2 DEF AttachFrame, FrameReloads, Render, ReadyTimeout, Return, ToggleSound, OpenTitle,
                    ChooseRisk
<1>3. CASE HostReceives
  <2>1. UNCHANGED server
    BY <1>3 DEF HostReceives
  <2>2. \/ \E rounds \in SUBSET Plays : plays' = Ended(rounds, "shown") /\ wallet' = Reveal(wallet, rounds)
        \/ UNCHANGED <<plays, wallet>>
    <3>1. Pending \in SUBSET Plays /\ \A round : {round} \cap Pending \in SUBSET Plays
      BY DEF Pending
    <3> QED
      BY <1>3, <3>1 DEF HostReceives, settle
  <2> QED
    BY <1>0, <1>1, <2>1, <2>2, RevealCaughtUp
<1>4. CASE Retry
  BY <1>0, <1>4, RevealCaughtUp DEF Retry, settle, Pending
<1>5. CASE Leave
  <2>1. \A p \in Plays : /\ plays'[p].wallet = plays[p].wallet
                         /\ plays'[p].at = "shown" <=> plays[p].at = "shown"
    BY <1>5 DEF Leave, Ended, EndOf, NotAsked, Pending
  <2>2. SameRounds
    BY <1>5, <2>1 DEF Leave, SameRounds, Revealed, CaughtUp
  <2> QED
    BY <1>0, <1>5, <2>2, SameRoundsCaughtUp DEF Leave
<1>6. ASSUME NEW p \in Plays, Play(p) PROVE CaughtUp'
  <2>1. /\ plays'[p].wallet = plays[p].wallet /\ plays'[p].at = "asked" /\ plays[p].at = "idle"
        /\ \A q \in Plays \ {p} : plays'[q] = plays[q]
        /\ UNCHANGED <<wallet, server>>
    BY <1>0, <1>6 DEF Play, HostTyped, Round
  <2>2. SameRounds
    BY <2>1 DEF SameRounds, Revealed, CaughtUp
  <2> QED
    BY <1>0, <2>1, <2>2, SameRoundsCaughtUp
<1>7. ASSUME NEW p \in Plays, AnswerArrives(p) PROVE CaughtUp'
  <2>1. UNCHANGED server /\ plays[p].at = "answered"
    BY <1>7 DEF AnswerArrives
  <2>2. CASE plays' = Ended({p}, "shown") /\ wallet' = Reveal(wallet, {p})
    BY <1>0, <2>1, <2>2, RevealCaughtUp
  <2>3. CASE plays' = [plays EXCEPT ![p] = [EndOf(p, "falling") EXCEPT !.mount = page.mount]] /\ UNCHANGED wallet
    <3>1. /\ plays'[p].wallet = plays[p].wallet /\ plays'[p].at = "falling"
          /\ \A q \in Plays \ {p} : plays'[q] = plays[q]
      BY <1>0, <2>3 DEF HostTyped, EndOf, NotAsked
    <3>2. SameRounds
      BY <2>1, <3>1 DEF SameRounds, Revealed, CaughtUp
    <3> QED
      BY <1>0, <2>3, <3>2, SameRoundsCaughtUp
  <2> QED
    BY <1>7, <2>2, <2>3 DEF AnswerArrives
<1>8. ASSUME NEW p \in Plays, AnswerFails(p) PROVE CaughtUp'
  <2>1. /\ plays'[p].wallet = 0 /\ plays'[p].at = "failed" /\ p \notin Revealed
        /\ \A q \in Plays \ {p} : plays'[q] = plays[q]
        /\ UNCHANGED server
    BY <1>0, <1>8 DEF AnswerFails, HostTyped, NotAsked, Calls, Revealed
  <2>2. SameRounds
    BY <1>0, <2>1 DEF SameRounds, Revealed, CaughtUp
  <2> QED
    BY <1>0, <1>8, <2>2, SameRoundsCaughtUp DEF AnswerFails
<1>9. ASSUME NEW p \in Plays, Fallback(p) PROVE CaughtUp'
  BY <1>0, <1>9, RevealCaughtUp DEF Fallback, settle
<1>10. ASSUME NEW p \in Plays, ServerSettles(p) PROVE CaughtUp'
  <2>1. server'.wallet = server.wallet + 1
    BY <1>0, <1>10 DEF ServerSettles, HostTyped
  <2>2. /\ plays'[p].wallet = server.wallet + 1 /\ plays'[p].at = "answered" /\ plays[p].at = "asked"
        /\ \A q \in Plays \ {p} : plays'[q] = plays[q]
        /\ UNCHANGED wallet
    <3>1. plays[p] \in Round /\ plays' = [plays EXCEPT ![p] = plays'[p]]
          /\ plays'[p] = [plays[p] EXCEPT !.at = "answered", !.settledUnder = server.table, !.wallet = server.wallet + 1]
      BY <1>0, <1>10 DEF ServerSettles, HostTyped
    <3>2. \A table, n : LET r == [plays[p] EXCEPT !.at = "answered", !.settledUnder = table, !.wallet = n]
                        IN r.at = "answered" /\ r.wallet = n
      BY <3>1 DEF Round
    <3>3. plays'[p].at = "answered" /\ plays'[p].wallet = server.wallet + 1
      <4>1. PICK table, n :
                   /\ n = server.wallet + 1
                   /\ plays'[p] = [plays[p] EXCEPT !.at = "answered", !.settledUnder = table, !.wallet = n]
        BY <3>1, Zenon
      <4> QED
        BY <3>2, <4>1
    <3>4. plays[p].at = "asked" /\ UNCHANGED wallet
      BY <1>10 DEF ServerSettles
    <3>5. \A q \in Plays \ {p} : plays'[q] = plays[q]
      BY <1>0, <3>1 DEF HostTyped
    <3> QED
      BY <3>3, <3>4, <3>5
  <2>3. SameRounds
    BY <1>0, <2>1, <2>2 DEF SameRounds, Revealed, CaughtUp
  <2> QED
    BY <1>0, <2>2, <2>3, SameRoundsCaughtUp
<1>11. CASE WalletMoves
  <2>1. UNCHANGED <<plays, wallet>> /\ server'.wallet = server.wallet + 1
    BY <1>0, <1>11 DEF WalletMoves, HostTyped
  <2>2. SameRounds
    BY <1>0, <2>1 DEF SameRounds, Revealed, CaughtUp
  <2> QED
    BY <1>0, <2>1, <2>2, SameRoundsCaughtUp
<1>12. CASE TableChanges
  <2>1. UNCHANGED <<plays, wallet>> /\ server'.wallet = server.wallet
    BY <1>0, <1>12 DEF TableChanges, HostTyped
  <2>2. SameRounds
    BY <1>0, <2>1 DEF SameRounds, Revealed, CaughtUp
  <2> QED
    BY <1>0, <2>1, <2>2, SameRoundsCaughtUp
<1>13. CASE ManifestLands
  BY <1>1, <1>13 DEF ManifestLands
<1>14. CASE WalletRead
  <2>1. /\ UNCHANGED <<plays, server>> /\ wallet'.read = server.wallet
        /\ wallet'.stale = wallet.stale /\ wallet'.shown = wallet.shown
    BY <1>0, <1>14 DEF WalletRead, HostTyped, WalletQuery
  <2> QED
    BY <1>0, <2>1 DEF CaughtUp, Revealed
<1>15. CASE WalletLands
  <2>1. UNCHANGED <<plays, server>> /\ wallet.fetch = "read"
    BY <1>15 DEF WalletLands
  <2>2. CASE wallet' = [shown |-> wallet.read, stale |-> FALSE, fetch |-> "none", read |-> 0]
    BY <2>1, <2>2 DEF CaughtUp, Revealed
  <2>3. CASE wallet' = [wallet EXCEPT !.fetch = "none", !.read = 0]
    <3>1. wallet'.fetch = "none" /\ wallet'.stale = wallet.stale /\ wallet'.shown = wallet.shown
      BY <1>0, <2>3 DEF HostTyped, WalletQuery
    <3> QED
      BY <2>1, <3>1 DEF CaughtUp, Revealed
  <2> QED
    BY <1>15, <2>2, <2>3 DEF WalletLands
<1>16. CASE FrameMoves \/ UNCHANGED vars
  BY <1>1, <1>16 DEF FrameMoves, vars, hostVars
<1> QED
  BY <1>2, <1>3, <1>4, <1>5, <1>6, <1>7, <1>8, <1>9, <1>10, <1>11, <1>12, <1>13, <1>14, <1>15, <1>16
     DEF Next, PageNext, WorldNext

\* No slower answer puts back a wallet older than a round this client has revealed, for any
\* number of rounds, fetches and other movements of money (session.ts, settle).
THEOREM BalanceStaysRevealed == Spec => []RevealedStays
<1>1. Inv /\ CaughtUp => RevealedStays
  BY DEF CaughtUp, Revealed, RevealedStays
<1> QED
  BY <1>1, InvInit, InvNext, CaughtUpInit, CaughtUpNext, PTL DEF Spec

(***************************************************************************)
(* The board in the frame                                                  *)
(***************************************************************************)

\* The page has heard from the document that is in the iframe.
Heard == frame.phase = "up" /\ \A i \in DOMAIN toHost : toHost[i].type # "ready"

\* What a message sets: the board, or the sound.
Sets(what, m) == m.type = "configure" \/ (what = "sound" /\ m.type = "set_sound")
SetTo(what, m) ==
    IF what = "board" THEN m.board ELSE IF m.type = "configure" THEN m.sound ELSE m.enabled

\* A document that shows `before` and receives these messages then shows `after`.
Leaves(what, messages, before, after) ==
    /\ (\A i \in DOMAIN messages : ~Sets(what, messages[i])) => after = before
    /\ \A i \in DOMAIN messages :
          /\ Sets(what, messages[i])
          /\ \A j \in DOMAIN messages : j > i => ~Sets(what, messages[j])
          => after = SetTo(what, messages[i])

\* There is a document only in the page's iframe.  The one that was heard will show the
\* board the hook remembers to have sent and the sound of the last render, and that is the
\* board of the last render unless a ball was falling or there was no table.
InStep ==
    /\ Connected \/ frame.phase = "none"
    /\ Heard /\ hook.sent # NoBoard => Leaves("board", toFrame, frame.board, hook.sent)
    /\ Heard /\ hook.sent # NoBoard /\ hook.status = "ready" /\ seen.status = "ready" =>
          Leaves("sound", toFrame, frame.sound, seen.sound)
    /\ /\ Heard /\ hook.status = "ready" /\ seen.status = "ready"
       /\ seen.inFlight = 0 /\ seen.table # NoTable
       => hook.sent = Wanted(seen)

Report ==
    [type : {"ready"}] \cup [type : {"error"}, code : {"runtime"}]
    \cup [type : {"landed"}, round : Plays, slot : Slots]
Matched == toHost \in Seq(Report) /\ InStep

LEMMA LeavesNone ==
  \A what, before, after : Leaves(what, <<>>, before, after) <=> after = before
BY DEF Leaves

LEMMA LeavesAppend ==
  ASSUME NEW S, NEW messages \in Seq(S), NEW m \in S, NEW what, NEW before
  PROVE  /\ Sets(what, m) => Leaves(what, Append(messages, m), before, SetTo(what, m))
         /\ \A after : ~Sets(what, m) /\ Leaves(what, messages, before, after)
                       => Leaves(what, Append(messages, m), before, after)
<1> DEFINE more == Append(messages, m)
<1>1. /\ Len(messages) \in Nat /\ DOMAIN messages = 1 .. Len(messages)
      /\ DOMAIN more = 1 .. Len(messages) + 1 /\ more[Len(messages) + 1] = m
      /\ \A i \in DOMAIN messages : more[i] = messages[i]
  BY AppendProperties, LenProperties
<1> HIDE DEF more
<1>2. ASSUME Sets(what, m) PROVE Leaves(what, more, before, SetTo(what, m))
  <2>1. Len(messages) + 1 \in DOMAIN more /\ Sets(what, more[Len(messages) + 1])
    BY <1>1, <1>2
  <2>2. \A i \in DOMAIN more : i = Len(messages) + 1 \/ Len(messages) + 1 > i
    BY <1>1
  <2> QED
    BY <1>1, <2>1, <2>2 DEF Leaves
<1>3. ASSUME NEW after, ~Sets(what, m), Leaves(what, messages, before, after)
      PROVE  Leaves(what, more, before, after)
  <2>1. \A i \in DOMAIN messages : i \in DOMAIN more
    BY <1>1
  <2>2. \A i \in DOMAIN more : Sets(what, more[i]) => i \in DOMAIN messages /\ more[i] = messages[i]
    BY <1>1, <1>3
  <2> QED
    BY <1>1, <1>3, <2>1, <2>2 DEF Leaves
<1> QED
  BY <1>2, <1>3 DEF more

\* What the first message sets becomes what the document shows.
LEMMA LeavesTail ==
  ASSUME NEW S, NEW messages \in Seq(S), messages # <<>>, NEW what, NEW before, NEW after,
         Leaves(what, messages, before, after)
  PROVE  Leaves(what, Tail(messages),
                IF Sets(what, Head(messages)) THEN SetTo(what, Head(messages)) ELSE before, after)
<1> DEFINE rest == Tail(messages)
           m == Head(messages)
<1>1. /\ Len(messages) \in Nat \ {0} /\ DOMAIN messages = 1 .. Len(messages) /\ m = messages[1]
      /\ DOMAIN rest = 1 .. Len(messages) - 1
      /\ \A i \in DOMAIN rest : rest[i] = messages[i + 1]
  BY HeadTailProperties, LenProperties, EmptySeq
<1> HIDE DEF rest, m
<1>2. /\ 1 \in DOMAIN messages
      /\ \A i \in DOMAIN rest : i + 1 \in DOMAIN messages
      /\ \A i \in DOMAIN messages : i # 1 => i - 1 \in DOMAIN rest /\ rest[i - 1] = messages[i]
  <2>1. \A i \in DOMAIN messages : i # 1 => i - 1 \in DOMAIN rest /\ (i - 1) + 1 = i
    BY <1>1
  <2> QED
    BY <1>1, <2>1
<1>3. ASSUME \A i \in DOMAIN rest : ~Sets(what, rest[i])
      PROVE  after = IF Sets(what, m) THEN SetTo(what, m) ELSE before
  <2>1. \A i \in DOMAIN messages : i # 1 => ~Sets(what, messages[i])
    BY <1>2, <1>3
  <2>2. CASE Sets(what, m)
    <3>1. \A j \in DOMAIN messages : j > 1 => ~Sets(what, messages[j])
      BY <1>1, <2>1
    <3> QED
      BY <1>1, <1>2, <2>2, <3>1 DEF Leaves
  <2>3. CASE ~Sets(what, m)
    BY <1>1, <2>1, <2>3 DEF Leaves
  <2> QED
    BY <2>2, <2>3
<1>4. ASSUME NEW i \in DOMAIN rest, Sets(what, rest[i]),
             \A j \in DOMAIN rest : j > i => ~Sets(what, rest[j])
      PROVE  after = SetTo(what, rest[i])
  <2>1. i + 1 \in DOMAIN messages /\ rest[i] = messages[i + 1]
    BY <1>1, <1>2
  <2>2. ASSUME NEW j \in DOMAIN messages, j > i + 1 PROVE ~Sets(what, messages[j])
    <3>1. j # 1 /\ j - 1 > i
      BY <1>1, <2>2
    <3> QED
      BY <1>2, <1>4, <3>1
  <2> QED
    BY <1>4, <2>1, <2>2 DEF Leaves
<1> QED
  BY <1>3, <1>4 DEF Leaves, rest, m

\* What posting one message more, or none, comes to.
LEMMA PostOne ==
  ASSUME NEW S, NEW messages \in Seq(S), NEW m \in S
  PROVE  messages \o <<m>> = Append(messages, m) /\ messages \o <<>> = messages
OBVIOUS

\* A document that is not heard yet, in the page's iframe or not there at all.
LEMMA UnheardInStep ==
  ASSUME frame'.phase # "up" \/ ~Heard', Connected' \/ frame'.phase = "none"
  PROVE  InStep'
BY DEF InStep, Heard

\* What the page remembers of the document stays as it is.
SameView ==
    /\ seen' = seen /\ page'.up = page.up /\ page'.iframe = page.iframe
    /\ hook'.sent = hook.sent /\ (hook'.status = "ready" => hook.status = "ready")

LEMMA ViewKept ==
  ASSUME InStep, SameView, Heard' => Heard, frame.phase = "none" => frame'.phase = "none",
         Heard' => \A after : Leaves("board", toFrame, frame.board, after)
                              => Leaves("board", toFrame', frame'.board, after),
         Heard' => \A after : Leaves("sound", toFrame, frame.sound, after)
                              => Leaves("sound", toFrame', frame'.sound, after)
  PROVE  InStep'
<1>1. Connected' \/ frame'.phase = "none"
  BY DEF InStep, SameView, Connected
<1>2. Heard' /\ hook'.sent # NoBoard => Leaves("board", toFrame', frame'.board, hook'.sent)
  BY DEF InStep, SameView
<1>3. Heard' /\ hook'.sent # NoBoard /\ hook'.status = "ready" /\ seen'.status = "ready"
      => Leaves("sound", toFrame', frame'.sound, seen'.sound)
  BY DEF InStep, SameView
<1>4. /\ Heard' /\ hook'.status = "ready" /\ seen'.status = "ready"
      /\ seen'.inFlight = 0 /\ seen'.table # NoTable
      => hook'.sent = Wanted(seen')
  BY DEF InStep, SameView, Wanted
<1> QED
  BY <1>1, <1>2, <1>3, <1>4 DEF InStep, Wanted

LEMMA QuietInStep == InStep /\ SameView /\ UNCHANGED frameVars => InStep'
BY ViewKept DEF Heard, frameVars

\* The last message is one with this board and sound.
LEMMA ConfigureLeaves ==
  ASSUME NEW messages \in Seq(Posted), NEW c \in Posted, c.type = "configure", NEW before, NEW heard
  PROVE  /\ Leaves("board", Append(messages, c), before, c.board)
         /\ Leaves("sound", Append(messages, c), heard, c.sound)
<1>1. Sets("board", c) /\ Sets("sound", c) /\ SetTo("board", c) = c.board /\ SetTo("sound", c) = c.sound
  BY DEF Sets, SetTo
<1> QED
  BY <1>1, LeavesAppend

LEMMA SoundLeaves ==
  ASSUME NEW messages \in Seq(Posted), NEW c \in Posted, c.type = "set_sound"
  PROVE  /\ \A before, after : Leaves("board", messages, before, after)
                               => Leaves("board", Append(messages, c), before, after)
         /\ \A before : Leaves("sound", Append(messages, c), before, c.enabled)
<1>1. ~Sets("board", c) /\ Sets("sound", c) /\ SetTo("sound", c) = c.enabled
  BY DEF Sets, SetTo
<1> QED
  BY <1>1, LeavesAppend

\* What is posted when the board is to change, and what the hook then remembers.
LEMMA ConfiguresPosts ==
  ASSUME NEW h \in Hook, NEW s, s.table \in MaybeTable, s.risk \in Risks, s.sound \in BOOLEAN,
         NEW falling, Configures(h, s, falling)
  PROVE  LET c == [type |-> "configure", board |-> Wanted(s), sound |-> s.sound]
         IN  /\ c \in Posted /\ ConfigureMessages(h, s, falling) = <<c>>
             /\ Configured(h, s, falling).sent = Wanted(s)
             /\ Configured(h, s, falling).status = h.status
<1>1. Wanted(s) \in Boards
  BY DEF Configures, Wanted, Boards, MaybeTable
<1> QED
  BY <1>1 DEF Posted, ConfigureMessages, Configured, Hook

LEMMA NoneInFlight ==
  ASSUME Inv, Cardinality(Pending) = 0
  PROVE  Pending = {}
<1> SUFFICES ASSUME NEW p \in Pending PROVE FALSE
  OBVIOUS
<1>1. Pending = {p}
  BY PendingIsFlying
<1>2. Cardinality({p}) = 1
  BY FS_Singleton
<1> QED
  BY <1>1, <1>2

LEMMA MatchedInit == Init => Matched
BY EmptySeq DEF Init, Matched, InStep, Heard, NoFrame, Booting

LEMMA RenderMatches == Inv /\ Matched /\ Render => Matched'
<1> SUFFICES ASSUME Inv, Matched, Render PROVE Matched'
  OBVIOUS
<1> DEFINE s == Shows
           c == [type |-> "configure", board |-> Wanted(s), sound |-> s.sound]
           ss == [type |-> "set_sound", enabled |-> s.sound]
           board(t) == <<t.status, t.risk, t.table, t.inFlight>>
           configures == s.status = "ready" /\ board(s) # board(seen)
           sends == configures /\ Configures(hook, s, Pending)
           sounds == s.status = "ready" /\ Connected /\ <<s.status, s.sound>> # <<seen.status, seen.sound>>
           first == IF sends THEN Append(toFrame, c) ELSE toFrame
<1>1. /\ s.status = hook.status /\ s.table \in MaybeTable /\ s.risk \in Risks /\ s.sound \in BOOLEAN
      /\ s.inFlight = Cardinality(Pending)
      /\ hook \in Hook /\ toFrame \in Seq(Posted)
  BY ShowsTyped DEF Inv, HostTyped, FrameTyped, Shows
<1>2. seen' = s /\ UNCHANGED <<page, frame, toHost>>
  BY DEF Render
<1>3. /\ sends => c \in Posted /\ hook'.sent = Wanted(s)
      /\ ~sends => hook'.sent = hook.sent
      /\ hook'.status = hook.status
  BY <1>1, ConfiguresPosts DEF Render, Configured
<1>4. toFrame' = IF sounds THEN Append(first, ss) ELSE first
  <2> DEFINE posted == IF configures THEN ConfigureMessages(hook, s, Pending) ELSE <<>>
  <2>1. posted = IF sends THEN <<c>> ELSE <<>>
    BY DEF ConfigureMessages
  <2>2. toFrame' = toFrame \o posted \o (IF sounds THEN <<ss>> ELSE <<>>)
    BY DEF Render
  <2> HIDE DEF c, ss, posted, sends, sounds
  <2>3. toFrame \o posted = first /\ first \in Seq(Posted)
    <3>1. CASE sends
      BY <1>1, <1>3, <2>1, <3>1, PostOne, AppendProperties
    <3>2. CASE ~sends
      BY <1>1, <2>1, <3>2
    <3> QED
      BY <3>1, <3>2
  <2>4. ss \in Posted
    BY <1>1 DEF ss, Posted
  <2> HIDE DEF first
  <2>5. first \o <<ss>> = Append(first, ss) /\ first \o <<>> = first
    BY <2>3, <2>4, PostOne
  <2>6. CASE sounds
    BY <2>2, <2>3, <2>5, <2>6
  <2>7. CASE ~sounds
    BY <2>2, <2>3, <2>5, <2>7
  <2> QED
    BY <2>6, <2>7
<1>5. first \in Seq(Posted) /\ ss \in Posted /\ ss.type = "set_sound" /\ ss.enabled = s.sound
  BY <1>1, <1>3, AppendProperties DEF Posted
<1>6. c.type = "configure" /\ c.board = Wanted(s) /\ c.sound = s.sound
  OBVIOUS
<1> HIDE DEF c, ss
<1>7. Heard' <=> Heard
  BY <1>2 DEF Heard
<1>8. Heard => Connected
  BY DEF Matched, InStep, Heard
<1>9. Heard /\ hook'.sent # NoBoard => Leaves("board", toFrame', frame.board, hook'.sent)
  <2>1. Heard /\ hook'.sent # NoBoard => Leaves("board", first, frame.board, hook'.sent)
    BY <1>1, <1>3, <1>6, ConfigureLeaves DEF Matched, InStep
  <2> QED
    BY <1>4, <1>5, <2>1, SoundLeaves
<1>10. Heard /\ hook'.sent # NoBoard /\ s.status = "ready" => Leaves("sound", toFrame', frame.sound, s.sound)
  <2> SUFFICES ASSUME Heard, hook'.sent # NoBoard, s.status = "ready"
               PROVE  Leaves("sound", toFrame', frame.sound, s.sound)
    OBVIOUS
  <2>1. CASE sounds
    BY <1>4, <1>5, <2>1, SoundLeaves
  <2>2. CASE ~sounds /\ sends
    BY <1>1, <1>3, <1>4, <1>6, <2>2, ConfigureLeaves
  <2>3. CASE ~sounds /\ ~sends
    BY <1>1, <1>3, <1>4, <1>8, <2>3 DEF Matched, InStep
  <2> QED
    BY <2>1, <2>2, <2>3
<1>11. Heard /\ s.status = "ready" /\ s.inFlight = 0 /\ s.table # NoTable => hook'.sent = Wanted(s)
  <2> SUFFICES ASSUME Heard, s.status = "ready", s.inFlight = 0, s.table # NoTable, ~sends
               PROVE  hook.sent = Wanted(s)
    BY <1>3
  <2>1. CASE configures
    BY <1>1, <1>8, <2>1, NoneInFlight DEF Configures
  <2>2. CASE ~configures
    <3>1. seen.status = s.status /\ seen.risk = s.risk /\ seen.table = s.table /\ seen.inFlight = s.inFlight
      BY <2>2
    <3> QED
      BY <1>1, <3>1 DEF Matched, InStep, Wanted
  <2> QED
    BY <2>1, <2>2
<1>12. Connected' \/ frame'.phase = "none"
  BY <1>2 DEF Matched, InStep, Connected
<1>13. Wanted(s) = Wanted(seen')
  BY <1>2
<1> HIDE DEF s
<1> QED
  BY <1>1, <1>2, <1>3, <1>7, <1>9, <1>10, <1>11, <1>12, <1>13 DEF Matched, InStep

LEMMA HostReceivesMatches == Inv /\ Matched /\ HostReceives => Matched'
<1> SUFFICES ASSUME Inv, Matched, HostReceives PROVE Matched'
  OBVIOUS
<1> DEFINE m == Head(toHost)
           h == Readied(hook)
<1>1. /\ Connected /\ toHost # <<>> /\ toHost \in Seq(Report) /\ toHost' = Tail(toHost)
      /\ UNCHANGED <<page, seen, manifest, server, frame>>
  BY DEF HostReceives, Matched
<1>2. /\ toHost' \in Seq(Report) /\ m \in Report
      /\ Heard' /\ m.type # "ready" => Heard
  <2>1. /\ Len(toHost) \in Nat \ {0} /\ DOMAIN toHost = 1 .. Len(toHost) /\ m = toHost[1] /\ m \in Report
        /\ toHost' \in Seq(Report) /\ DOMAIN toHost' = 1 .. Len(toHost) - 1
        /\ \A i \in DOMAIN toHost' : toHost'[i] = toHost[i + 1]
    BY <1>1, HeadTailProperties, LenProperties, EmptySeq
  <2> HIDE DEF m
  <2>2. ASSUME Heard', m.type # "ready", NEW i \in DOMAIN toHost PROVE toHost[i].type # "ready"
    <3>1. CASE i = 1
      BY <2>1, <2>2, <3>1
    <3>2. CASE i # 1
      <4>1. i - 1 \in DOMAIN toHost' /\ (i - 1) + 1 = i
        BY <2>1, <3>2
      <4> QED
        BY <2>1, <2>2, <4>1 DEF Heard
    <3> QED
      BY <3>1, <3>2
  <2> QED
    BY <1>1, <2>1, <2>2 DEF Heard
<1>3. CASE m.type = "ready" /\ hook' = Configured(h, seen, {})
           /\ toFrame' = toFrame \o ConfigureMessages(h, seen, {})
  <2>1. h \in Hook /\ h.sent = NoBoard /\ h.status = "ready"
    <3>1. UnlockAfter(hook, Pending, {}) \in Hook
      BY UnlockTyped DEF Inv, HostTyped
    <3> QED
      BY <3>1 DEF Readied, Hook, Statuses, Boards
  <2>2. seen.table \in MaybeTable /\ seen.risk \in Risks /\ seen.sound \in BOOLEAN
    BY DEF Inv, HostTyped, SeenTyped
  <2> HIDE DEF h
  <2>3. CASE seen.table # NoTable
    <3> DEFINE c == [type |-> "configure", board |-> Wanted(seen), sound |-> seen.sound]
    <3>1. Wanted(seen) # NoBoard
      BY <2>2, <2>3 DEF Wanted, MaybeTable
    <3>2. Configures(h, seen, {})
      BY <1>1, <2>1, <2>3, <3>1 DEF Configures
    <3>3. c \in Posted /\ hook'.sent = Wanted(seen) /\ toFrame' = toFrame \o <<c>>
      BY <1>3, <2>1, <2>2, <3>2, ConfiguresPosts
    <3>4. c.type = "configure" /\ c.board = Wanted(seen) /\ c.sound = seen.sound
      OBVIOUS
    <3> HIDE DEF c
    <3>5. toFrame \in Seq(Posted) /\ toFrame' = Append(toFrame, c)
      BY <3>3 DEF Inv, FrameTyped
    <3>6. /\ Leaves("board", toFrame', frame.board, hook'.sent)
          /\ Leaves("sound", toFrame', frame.sound, seen.sound)
      BY <3>3, <3>4, <3>5, ConfigureLeaves
    <3>7. Connected' /\ Wanted(seen') = Wanted(seen)
      BY <1>1 DEF Connected
    <3> QED
      BY <1>1, <1>2, <3>3, <3>6, <3>7 DEF Matched, InStep
  <2>4. CASE seen.table = NoTable
    <3>1. hook'.sent = NoBoard
      BY <1>3, <2>1, <2>4 DEF Configured, Configures
    <3>2. Connected' /\ seen'.table = NoTable
      BY <1>1, <2>4 DEF Connected
    <3> QED
      BY <1>2, <3>1, <3>2 DEF Matched, InStep
  <2> QED
    BY <2>3, <2>4
<1>4. CASE m.type # "ready" /\ SameView /\ UNCHANGED toFrame
  BY <1>1, <1>2, <1>4, ViewKept DEF Matched
<1>5. ASSUME NEW rounds, settle(rounds, hook) PROVE SameView
  BY <1>1, <1>5 DEF settle, UnlockAfter, SameView, Inv, HostTyped, Hook
<1>6. ASSUME hook' = IF m.code = "unsupported_version" THEN [hook EXCEPT !.status = "error"] ELSE hook
      PROVE  SameView
  BY <1>1, <1>6 DEF SameView, Inv, HostTyped, Hook
<1> QED
  BY <1>3, <1>4, <1>5, <1>6 DEF HostReceives

LEMMA FrameMatches == Inv /\ Matched /\ FrameMoves => Matched'
<1> SUFFICES ASSUME Inv, Matched, FrameMoves PROVE Matched'
  OBVIOUS
<1>1. SameView /\ toHost \in Seq(Report) /\ frame \in Document /\ toFrame \in Seq(Posted)
  BY DEF FrameMoves, hostVars, SameView, Matched, Inv, FrameTyped
<1>2. ASSUME NEW r \in Report, toHost' = Append(toHost, r)
      PROVE  /\ toHost' \in Seq(Report)
             /\ (\A i \in DOMAIN toHost' : toHost'[i].type # "ready")
                => r.type # "ready" /\ \A i \in DOMAIN toHost : toHost[i].type # "ready"
  <2>1. /\ Len(toHost) \in Nat /\ DOMAIN toHost = 1 .. Len(toHost)
        /\ toHost' \in Seq(Report) /\ DOMAIN toHost' = 1 .. Len(toHost) + 1
        /\ toHost'[Len(toHost) + 1] = r /\ \A i \in DOMAIN toHost : toHost'[i] = toHost[i]
    BY <1>1, <1>2, AppendProperties, LenProperties
  <2>2. Len(toHost) + 1 \in DOMAIN toHost' /\ \A i \in DOMAIN toHost : i \in DOMAIN toHost'
    BY <2>1
  <2> QED
    BY <2>1, <2>2
<1>3. CASE FrameBoots \/ FrameBreaks
  <2>1. PICK r \in Report : toHost' = Append(toHost, r) /\ (r.type = "ready" \/ FrameBreaks)
    <3>1. [type |-> "ready"] \in Report /\ [type |-> "error", code |-> "runtime"] \in Report
      BY DEF Report
    <3> QED
      BY <1>3, <3>1 DEF FrameBoots, FrameBreaks, FramePost
  <2>2. ~Heard'
    BY <1>1, <1>2, <2>1 DEF Heard, FrameBreaks, Document
  <2>3. Connected'
    BY <1>1, <1>3 DEF Matched, InStep, FrameBoots, FrameBreaks, Connected, SameView
  <2> QED
    BY <1>2, <2>1, <2>2, <2>3, UnheardInStep DEF Matched
<1>4. ASSUME NEW b \in DOMAIN frame.balls, LandBall(b) PROVE Matched'
  <2> DEFINE r == Landed(frame.balls[b].round, frame.balls[b].slot)
  <2>1. r \in Report /\ r.type = "landed"
    <3>1. frame.balls \in Seq([round : Plays, slot : Slots])
      BY <1>1 DEF Document
    <3>2. frame.balls[b] \in [round : Plays, slot : Slots]
      BY <3>1, ElementsTyped, Zenon
    <3> QED
      BY <3>2 DEF Landed, Report
  <2>2. toHost' = Append(toHost, r) /\ UNCHANGED toFrame
    BY <1>4 DEF LandBall, FramePost
  <2>3. frame'.phase = frame.phase /\ frame'.board = frame.board /\ frame'.sound = frame.sound
    BY <1>1, <1>4 DEF LandBall, Document
  <2> HIDE DEF r
  <2>4. Heard' => Heard
    BY <1>2, <2>1, <2>2, <2>3 DEF Heard
  <2> QED
    BY <1>1, <1>2, <2>1, <2>2, <2>3, <2>4, ViewKept DEF Matched
<1>5. CASE FrameReceives
  <2> DEFINE m == Head(toFrame)
             told(what, before) == IF Sets(what, m) THEN SetTo(what, m) ELSE before
  <2>1. toFrame # <<>> /\ toFrame' = Tail(toFrame) /\ m \in Posted
    BY <1>1, <1>5, HeadTailProperties DEF FrameReceives
  <2>0. frame'.phase = frame.phase
    BY <1>1, <1>5 DEF FrameReceives, DropBall, Document
  <2>2. toHost' \in Seq(Report) /\ (Heard' => Heard)
    <3>1. CASE UNCHANGED toHost
      BY <1>1, <2>0, <3>1 DEF Heard
    <3>2. CASE m.type = "drop" /\ toHost' = Append(toHost, Landed(m.round, m.slot)) /\ UNCHANGED frame
      <4>1. PICK r \in Report : toHost' = Append(toHost, r)
        BY <2>1, <3>2, PostedTyped DEF Landed, Report
      <4> QED
        BY <1>2, <2>0, <4>1 DEF Heard
    <3> QED
      BY <1>5, <3>1, <3>2 DEF FrameReceives, FramePost
  <2>4. Heard' => frame'.board = told("board", frame.board) /\ frame'.sound = told("sound", frame.sound)
    <3> SUFFICES ASSUME Heard'
                 PROVE  frame'.board = told("board", frame.board) /\ frame'.sound = told("sound", frame.sound)
      OBVIOUS
    <3>1. frame.phase = "up"
      BY <2>0 DEF Heard
    <3>2. CASE m.type = "configure" /\ frame' = [frame EXCEPT !.board = m.board, !.sound = m.sound]
      BY <1>1, <2>1, <3>2, PostedTyped DEF Sets, SetTo, Document
    <3>3. CASE m.type = "set_sound" /\ frame' = [frame EXCEPT !.sound = m.enabled]
      BY <1>1, <2>1, <3>3, PostedTyped DEF Sets, SetTo, Document
    <3>4. CASE m.type = "drop" /\ frame' \in {frame, DropBall(frame, m)}
      BY <1>1, <3>4 DEF Sets, SetTo, Document, DropBall
    <3> QED
      BY <1>5, <3>1, <3>2, <3>3, <3>4 DEF FrameReceives
  <2> HIDE DEF m
  <2>5. \A what, before, after : Leaves(what, toFrame, before, after)
                                 => Leaves(what, toFrame', told(what, before), after)
    BY <1>1, <2>1, LeavesTail DEF m
  <2> QED
    BY <1>1, <2>0, <2>2, <2>4, <2>5, ViewKept DEF Matched
<1> QED
  BY <1>3, <1>4, <1>5 DEF FrameMoves, FrameNext

LEMMA MatchedNext == Inv /\ Matched /\ [Next]_vars => Matched'
<1> SUFFICES ASSUME Inv, Matched, [Next]_vars PROVE Matched'
  OBVIOUS
<1>0. /\ InStep /\ toHost \in Seq(Report) /\ page \in Page /\ hook \in Hook
      /\ Booting(page.title).phase = "booting" /\ NoFrame.phase = "none"
  BY DEF Matched, Inv, HostTyped, Booting, NoFrame
<1>1. ASSUME UNCHANGED frameVars, SameView PROVE Matched'
  BY <1>0, <1>1, QuietInStep DEF Matched, frameVars
<1>2. CASE AttachFrame \/ FrameReloads \/ Retry
  <2>1. frame'.phase = "booting" /\ toHost' \in {toHost, <<>>}
    BY <1>0, <1>2 DEF AttachFrame, FrameReloads, Retry
  <2>2. Connected'
    BY <1>0, <1>2 DEF AttachFrame, FrameReloads, Retry, Connected, Page
  <2> QED
    BY <1>0, <2>1, <2>2, EmptySeq, UnheardInStep DEF Matched
<1>3. CASE Leave
  <2>1. frame'.phase = "none" /\ toHost' = <<>>
    BY <1>0, <1>3 DEF Leave
  <2> QED
    BY <2>1, EmptySeq, UnheardInStep DEF Matched
<1>4. CASE Return
  <2>1. frame'.phase = "none" /\ UNCHANGED toHost
    BY <1>0, <1>4 DEF Return, InStep, Connected, frameVars
  <2> QED
    BY <1>0, <2>1, UnheardInStep DEF Matched
<1>5. ASSUME NEW title \in Titles, OpenTitle(title) PROVE Matched'
  <2>1. toHost' \in {toHost, <<>>}
    BY <1>5 DEF OpenTitle
  <2>2. CASE frame' = NoFrame
    BY <1>0, <2>1, <2>2, EmptySeq, UnheardInStep DEF Matched
  <2>3. CASE frame' # NoFrame
    <3>1. page'.up /\ page'.iframe /\ frame' = Booting(title)
      BY <1>0, <1>5, <2>3 DEF OpenTitle, Page
    <3>2. frame'.phase = "booting" /\ Connected'
      BY <3>1 DEF Booting, Connected
    <3> QED
      BY <1>0, <2>1, <3>2, EmptySeq, UnheardInStep DEF Matched
  <2> QED
    BY <2>2, <2>3
<1>6. CASE ReadyTimeout \/ ToggleSound \/ \E r \in Risks : ChooseRisk(r)
  BY <1>0, <1>1, <1>6 DEF ReadyTimeout, ToggleSound, ChooseRisk, SameView, Page, Hook
<1>7. ASSUME NEW p \in Plays, Play(p) \/ AnswerFails(p) \/ Fallback(p) \/ ServerSettles(p)
      PROVE  Matched'
  BY <1>0, <1>1, <1>7 DEF Play, AnswerFails, Fallback, settle, UnlockAfter, ServerSettles, SameView, Hook
<1>8. ASSUME NEW p \in Plays, AnswerArrives(p) PROVE Matched'
  <2>1. SameView /\ UNCHANGED <<frame, toHost>>
    BY <1>0, <1>8 DEF AnswerArrives, UnlockAfter, SameView, Hook
  <2>2. CASE UNCHANGED toFrame
    BY <1>1, <2>1, <2>2 DEF frameVars
  <2>3. CASE toFrame' = Append(toFrame, [type |-> "drop", round |-> p, slot |-> Results[p]])
    <3> DEFINE drop == [type |-> "drop", round |-> p, slot |-> Results[p]]
    <3>1. drop \in Posted /\ \A what : ~Sets(what, drop)
      BY DEF Posted, Slots, Sets
    <3> HIDE DEF drop
    <3>2. toFrame \in Seq(Posted)
      BY DEF Inv, FrameTyped
    <3>3. \A what, before, after : Leaves(what, toFrame, before, after)
                                   => Leaves(what, Append(toFrame, drop), before, after)
      BY <3>1, <3>2, LeavesAppend
    <3>4. toFrame' = Append(toFrame, drop)
      BY <2>3 DEF drop
    <3> QED
      BY <1>0, <2>1, <3>3, <3>4, ViewKept DEF Heard, Matched
  <2> QED
    BY <1>8, <2>2, <2>3 DEF AnswerArrives
<1>9. CASE WalletMoves \/ TableChanges \/ ManifestLands \/ WalletRead \/ WalletLands \/ UNCHANGED vars
  BY <1>1, <1>9
     DEF WalletMoves, TableChanges, ManifestLands, WalletRead, WalletLands, vars, hostVars, SameView
<1> QED
  BY <1>2, <1>3, <1>4, <1>5, <1>6, <1>7, <1>8, <1>9, RenderMatches, HostReceivesMatches, FrameMatches
     DEF Next, PageNext, WorldNext

\* A page and a frame at rest show the same board and play the same sound, however many
\* messages reloads, retries and changes of title have lost.
THEOREM BoardStaysMatched == Spec => []BoardMatchesManifest
<1>1. ASSUME Inv, Matched, AtRest PROVE frame.board = Wanted(Shows) /\ frame.sound = hook.sound
  <2>1. /\ Heard /\ hook.status = "ready" /\ seen.status = "ready" /\ seen.table # NoTable
        /\ seen = Shows /\ seen.sound = hook.sound
    BY <1>1 DEF AtRest, Heard, Shows
  <2>2. seen.inFlight = 0
    BY <1>1, FS_EmptySet DEF AtRest, Shows
  <2>3. hook.sent = Wanted(seen)
    BY <1>1, <2>1, <2>2 DEF Matched, InStep
  <2>4. hook.sent # NoBoard
    BY <1>1, <2>1, <2>3 DEF Inv, HostTyped, SeenTyped, Wanted, MaybeTable
  <2>5. Leaves("board", <<>>, frame.board, hook.sent) /\ Leaves("sound", <<>>, frame.sound, seen.sound)
    BY <1>1, <2>1, <2>4 DEF Matched, InStep, AtRest
  <2> QED
    BY <2>1, <2>3, <2>5, LeavesNone
<1>2. Inv /\ Matched => BoardMatchesManifest
  BY <1>1 DEF BoardMatchesManifest
<1> QED
  BY <1>2, InvInit, InvNext, MatchedInit, MatchedNext, PTL DEF Spec

(***************************************************************************)
(* Flights                                                                 *)
(***************************************************************************)

Segment == [kind : {"fall", "bounce", "exit", "arc", "sink"}, x : Int,
            peg : Pegs \cup {NoPeg}, ms : Nat]

LEMMA RightsBounded ==
  ASSUME NEW turns, NEW r \in Nat
  PROVE  Rights(turns, r) \in 0 .. r
<1>1. IsFiniteSet(1 .. r) /\ Cardinality(1 .. r) = r
  BY FS_Interval
<1>2. {i \in 1 .. r : turns[i] = 1} \subseteq 1 .. r
  OBVIOUS
<1>3. /\ IsFiniteSet({i \in 1 .. r : turns[i] = 1})
      /\ Cardinality({i \in 1 .. r : turns[i] = 1}) <= r
  BY <1>1, <1>2, FS_Subset
<1>4. Cardinality({i \in 1 .. r : turns[i] = 1}) \in Nat
  BY <1>3, FS_CardinalityType
<1> QED
  BY <1>3, <1>4 DEF Rights

LEMMA PegsAreStruck ==
  ASSUME NEW turns, NEW r \in 0 .. ROWS - 1
  PROVE  LET peg == <<r, 1 + Rights(turns, r)>>
         IN  peg \in Pegs /\ peg # NoPeg /\ peg[1] = r /\ PegX(peg) = XAfter(turns, r)
<1>1. Rights(turns, r) \in 0 .. r
  BY RightsBounded
<1>2. PICK n \in 0 .. r : n = Rights(turns, r)
  BY <1>1
<1>3. <<r, 1 + n>> \in Pegs /\ <<r, 1 + n>> # NoPeg
  BY <1>2 DEF Pegs, NoPeg
<1>4. PegX(<<r, 1 + n>>) = 2 * n - r
  BY <1>2 DEF PegX
<1> QED
  BY <1>2, <1>3, <1>4 DEF XAfter

LEMMA Joined ==
  ASSUME NEW S, NEW s \in Seq(S), NEW t \in Seq(S)
  PROVE  /\ s \o t \in Seq(S) /\ Len(s) \in Nat /\ Len(t) \in Nat
         /\ Len(s \o t) = Len(s) + Len(t) /\ DOMAIN (s \o t) = 1 .. Len(s) + Len(t)
         /\ \A i \in 1 .. Len(s) : (s \o t)[i] = s[i]
         /\ \A i \in 1 .. Len(t) : (s \o t)[Len(s) + i] = t[i]
  OBVIOUS

\* A ball that falls to the first peg, strikes one of every row and leaves the last row with
\* all its turns taken comes down where the right turns are as many as the slot.
LEMMA FlightLands ==
  ASSUME NEW slot, NEW turns \in planTurns(slot), NEW fall \in Nat, NEW bounce \in Nat,
         NEW rest \in Seq(Segment), rest # <<>>,
         rest[1].peg = NoPeg, rest[1].x = XAfter(turns, ROWS), rest[Len(rest)].x = slotX(slot)
  PROVE  LandsOver(<<Fall(fall)>> \o Bounces(turns, bounce) \o rest, slot)
<1> DEFINE first == <<Fall(fall)>>
           bounces == Bounces(turns, bounce)
           start == first \o bounces
           flight == start \o rest
           Exits(i) == flight[i].peg = NoPeg /\ \A j \in 1 .. i - 1 : flight[j].peg # NoPeg
           exit == CHOOSE i \in DOMAIN flight : Exits(i)
           struck == 1 .. exit - 1
<1>1. XAfter(turns, ROWS) = slotX(slot)
  <2>1. Rights(turns, ROWS) = slot
    BY DEF planTurns, Rights
  <2> QED
    BY <2>1 DEF XAfter, slotX
<1>2. /\ first \in Seq(Segment) /\ Len(first) = 1 /\ first[1].x = XAfter(turns, 0)
      /\ first[1].peg = <<0, 1 + Rights(turns, 0)>>
  <2>1. Rights(turns, 0) = 0 /\ 0 \in 0 .. ROWS - 1
    BY RightsBounded
  <2>2. XAfter(turns, 0) = 0
    BY <2>1 DEF XAfter
  <2>3. <<0, 1>> \in Pegs
    BY DEF Pegs
  <2>4. Fall(fall) \in Segment
    BY <2>3 DEF Fall, Segment
  <2> QED
    BY <2>1, <2>2, <2>4 DEF Fall
<1>3. /\ bounces \in Seq(Segment) /\ Len(bounces) = ROWS - 1
      /\ \A r \in 1 .. ROWS - 1 : /\ bounces[r].x = XAfter(turns, r)
                                  /\ bounces[r].peg = <<r, 1 + Rights(turns, r)>>
  <2>1. \A r \in 1 .. ROWS - 1 : <<r, 1 + Rights(turns, r)>> \in Pegs /\ XAfter(turns, r) \in Int
    <3> SUFFICES ASSUME NEW r \in 1 .. ROWS - 1
                 PROVE  <<r, 1 + Rights(turns, r)>> \in Pegs /\ XAfter(turns, r) \in Int
      OBVIOUS
    <3>1. r \in 0 .. ROWS - 1 /\ Rights(turns, r) \in 0 .. r
      BY RightsBounded
    <3> QED
      BY <3>1, PegsAreStruck DEF XAfter
  <2>2. bounces \in [1 .. ROWS - 1 -> Segment]
    BY <2>1 DEF Bounces, Segment
  <2>3. ROWS - 1 \in Nat
    OBVIOUS
  <2>4. bounces \in Seq(Segment)
    BY <2>2, <2>3
  <2>5. Len(bounces) = ROWS - 1
    BY <2>2, <2>3, <2>4
  <2> QED
    BY <2>4, <2>5 DEF Bounces
<1> HIDE DEF first, bounces
<1>4. /\ start \in Seq(Segment) /\ Len(start) = ROWS
      /\ start[1] = first[1] /\ \A r \in 1 .. ROWS - 1 : start[r + 1] = bounces[r]
  <2>1. /\ start \in Seq(Segment) /\ Len(start) = Len(first) + Len(bounces)
        /\ \A i \in 1 .. Len(first) : start[i] = first[i]
        /\ \A i \in 1 .. Len(bounces) : start[Len(first) + i] = bounces[i]
    BY <1>2, <1>3, Joined
  <2> HIDE DEF start
  <2> QED
    BY <1>2, <1>3, <2>1
<1> HIDE DEF start
<1>5. /\ Len(rest) \in Nat \ {0} /\ flight \in Seq(Segment)
      /\ Len(flight) = ROWS + Len(rest) /\ DOMAIN flight = 1 .. ROWS + Len(rest)
      /\ \A i \in 1 .. ROWS : flight[i] = start[i]
      /\ flight[ROWS + 1] = rest[1] /\ flight[Len(flight)] = rest[Len(rest)]
  <2>1. Len(rest) \in Nat \ {0}
    BY EmptySeq, LenProperties
  <2>2. /\ flight \in Seq(Segment) /\ Len(flight) = Len(start) + Len(rest)
        /\ DOMAIN flight = 1 .. Len(start) + Len(rest)
        /\ \A i \in 1 .. Len(start) : flight[i] = start[i]
        /\ \A i \in 1 .. Len(rest) : flight[Len(start) + i] = rest[i]
    <3>1. start \in Seq(Segment) /\ rest \in Seq(Segment)
      BY <1>4
    <3> QED
      BY ONLY <3>1, Joined
  <2> HIDE DEF flight
  <2>3. Len(start) = ROWS
    BY <1>4
  <2>4. flight[ROWS + 1] = rest[1] /\ flight[ROWS + Len(rest)] = rest[Len(rest)]
    BY <2>1, <2>2, <2>3
  <2> QED
    BY <2>1, <2>2, <2>3, <2>4
<1> HIDE DEF flight
<1>6. \A r \in 0 .. ROWS - 1 : /\ flight[r + 1].x = XAfter(turns, r)
                               /\ flight[r + 1].peg = <<r, 1 + Rights(turns, r)>>
  <2> SUFFICES ASSUME NEW r \in 0 .. ROWS - 1
               PROVE  /\ flight[r + 1].x = XAfter(turns, r)
                      /\ flight[r + 1].peg = <<r, 1 + Rights(turns, r)>>
    OBVIOUS
  <2>1. CASE r = 0
    <3>1. flight[1] = first[1]
      BY <1>4, <1>5
    <3> QED
      BY <1>2, <2>1, <3>1
  <2>2. CASE r \in 1 .. ROWS - 1
    <3>1. r + 1 \in 1 .. ROWS
      BY <2>2
    <3>2. flight[r + 1] = bounces[r]
      BY <1>4, <1>5, <2>2, <3>1
    <3> QED
      BY <1>3, <2>2, <3>2
  <2> QED
    BY <2>1, <2>2
<1>7. \A i \in 1 .. ROWS :
         /\ flight[i].peg \in Pegs /\ flight[i].peg # NoPeg /\ flight[i].peg[1] = i - 1
         /\ PegX(flight[i].peg) = flight[i].x
  <2> SUFFICES ASSUME NEW i \in 1 .. ROWS
               PROVE  /\ flight[i].peg \in Pegs /\ flight[i].peg # NoPeg /\ flight[i].peg[1] = i - 1
                      /\ PegX(flight[i].peg) = flight[i].x
    OBVIOUS
  <2>1. PICK r \in 0 .. ROWS - 1 : r = i - 1 /\ i = r + 1
    OBVIOUS
  <2>2. flight[i].x = XAfter(turns, r) /\ flight[i].peg = <<r, 1 + Rights(turns, r)>>
    BY <1>6, <2>1
  <2>3. PICK peg : peg = <<r, 1 + Rights(turns, r)>>
    OBVIOUS
  <2>4. peg \in Pegs /\ peg # NoPeg /\ peg[1] = r /\ PegX(peg) = XAfter(turns, r)
    BY <2>1, <2>3, PegsAreStruck
  <2> QED
    BY <2>1, <2>2, <2>3, <2>4
<1>8. exit = ROWS + 1
  <2>1. ROWS + 1 \in DOMAIN flight /\ Exits(ROWS + 1)
    BY <1>5, <1>7
  <2>2. \A i \in DOMAIN flight : Exits(i) => i = ROWS + 1
    <3> SUFFICES ASSUME NEW i \in DOMAIN flight, Exits(i), i # ROWS + 1 PROVE FALSE
      OBVIOUS
    <3>1. i \in 1 .. ROWS \/ ROWS + 1 \in 1 .. i - 1
      BY <1>5
    <3> QED
      BY <1>5, <1>7, <3>1
  <2> HIDE DEF Exits
  <2> QED
    BY <2>1, <2>2
<1> HIDE DEF exit
<1>a. struck = 1 .. ROWS
  BY <1>8
<1> HIDE DEF struck
<1>9. {flight[i].peg[1] : i \in struck} = 0 .. ROWS - 1
  <2>2. \A r \in 0 .. ROWS - 1 : r + 1 \in 1 .. ROWS /\ flight[r + 1].peg[1] = r
    BY <1>7
  <2>3. \A i \in 1 .. ROWS : flight[i].peg[1] \in 0 .. ROWS - 1
    BY <1>7
  <2> QED
    BY <1>a, <2>2, <2>3
<1>10. flight[Len(flight)].x = slotX(slot) /\ flight[exit].x = slotX(slot)
  BY <1>1, <1>5, <1>8
<1>11. \A i \in struck : flight[i].peg \in Pegs /\ PegX(flight[i].peg) = flight[i].x
  BY <1>7, <1>a
<1>12. LandsOver(flight, slot)
  BY <1>9, <1>10, <1>11 DEF LandsOver, exit, struck
<1> QED
  BY <1>12 DEF flight, start, first, bounces

\* In each title, wherever the turns take it, a ball strikes only pegs that stand there and
\* comes down over the slot the server settled, for any number of rows (board/flight.js).
THEOREM FlightsStayTrue == Spec => []FlightsLand
<1>1. ASSUME NEW slot, NEW turns \in planTurns(slot)
      PROVE  /\ LandsOver(PlinkoFlight(slot, turns), slot)
             /\ LandsOver(BilliardsFlight(slot, turns), slot)
             /\ LandsOver(TropicalFlight(slot, turns), slot)
  <2> DEFINE Out(kind, ms) == Exit(turns, kind, ms)
             At(kind, ms) == Over(slot, kind, ms)
  <2>1. XAfter(turns, ROWS) \in Int /\ slotX(slot) \in Int
    <3>1. Rights(turns, ROWS) \in 0 .. ROWS
      BY RightsBounded
    <3>2. slot = Rights(turns, ROWS)
      BY DEF planTurns, Rights
    <3> QED
      BY <3>1, <3>2 DEF XAfter, slotX
  <2>2. \A kind \in {"bounce", "exit"}, ms \in Nat :
           Out(kind, ms) \in Segment /\ Out(kind, ms).peg = NoPeg /\ Out(kind, ms).x = XAfter(turns, ROWS)
    BY <2>1 DEF Exit, Segment
  <2>3. \A kind \in {"arc", "sink"}, ms \in Nat :
           At(kind, ms) \in Segment /\ At(kind, ms).x = slotX(slot)
    BY <2>1 DEF Over, Segment
  <2> HIDE DEF Out, At
  <2>4. ASSUME NEW a \in Segment, NEW b \in Segment, NEW c \in Segment
        PROVE  LET s == <<a, b, c>> IN s \in Seq(Segment) /\ s # <<>> /\ Len(s) = 3 /\ s[1] = a /\ s[3] = c
    OBVIOUS
  <2>5. ASSUME NEW a \in Segment, NEW b \in Segment
        PROVE  LET s == <<a, b>> IN s \in Seq(Segment) /\ s # <<>> /\ Len(s) = 2 /\ s[1] = a /\ s[2] = b
    OBVIOUS
  <2>6. LandsOver(PlinkoFlight(slot, turns), slot)
    <3> DEFINE rest == <<Out("bounce", 225), At("arc", 420), At("sink", 630)>>
    <3>1. /\ rest \in Seq(Segment) /\ rest # <<>> /\ rest[1].peg = NoPeg
          /\ rest[1].x = XAfter(turns, ROWS) /\ rest[Len(rest)].x = slotX(slot)
      BY <2>2, <2>3, <2>4
    <3> HIDE DEF rest
    <3>2. LandsOver(<<Fall(450)>> \o Bounces(turns, 250) \o rest, slot)
      BY <3>1, FlightLands
    <3> QED
      BY <3>2 DEF PlinkoFlight, rest, Out, At
  <2>7. LandsOver(BilliardsFlight(slot, turns), slot)
    <3> DEFINE rest == <<Out("bounce", 240), At("arc", 450), At("sink", 480)>>
    <3>1. /\ rest \in Seq(Segment) /\ rest # <<>> /\ rest[1].peg = NoPeg
          /\ rest[1].x = XAfter(turns, ROWS) /\ rest[Len(rest)].x = slotX(slot)
      BY <2>2, <2>3, <2>4
    <3> HIDE DEF rest
    <3>2. LandsOver(<<Fall(510)>> \o Bounces(turns, 255) \o rest, slot)
      BY <3>1, FlightLands
    <3> QED
      BY <3>2 DEF BilliardsFlight, rest, Out, At
  <2>8. LandsOver(TropicalFlight(slot, turns), slot)
    <3> DEFINE rest == <<Out("exit", 240), At("sink", 390)>>
    <3>1. /\ rest \in Seq(Segment) /\ rest # <<>> /\ rest[1].peg = NoPeg
          /\ rest[1].x = XAfter(turns, ROWS) /\ rest[Len(rest)].x = slotX(slot)
      BY <2>2, <2>3, <2>5
    <3> HIDE DEF rest
    <3>2. LandsOver(<<Fall(480)>> \o Bounces(turns, 250) \o rest, slot)
      BY <3>1, FlightLands
    <3> QED
      BY <3>2 DEF TropicalFlight, rest, Out, At
  <2> QED
    BY <2>6, <2>7, <2>8
<1>2. FlightsLand
  BY <1>1 DEF FlightsLand
<1> QED
  BY <1>2, PTL
===============================================================================
