------------------------------- MODULE Client -------------------------------
(***************************************************************************)
(* The browser client at work: one tab, its query cache, the session it    *)
(* shows, the page it is on and the form it submits, against a server that *)
(* answers late, twice, with an error or not at all (app/queryClient.ts,   *)
(* features/auth, routes/, and the hooks and pages of Views).              *)
(*                                                                         *)
(* A behaviour exercises one mutation, its task, and follows one query     *)
(* that lists what the task writes: its rows are the number of the task's  *)
(* writes they include.  Queries only meet in what has been read, so one   *)
(* at a time shows what any of them can show.                              *)
(***************************************************************************)
EXTENDS Views, Integers

CONSTANTS
    Operators, Players, \* who may sign in
    Guest,              \* nobody
    Tasks,              \* the mutations to exercise
    MaxCalls,           \* bound: requests the task's form sends
    MaxEvents           \* bound: pages opened, sign-ins and sign-outs, sessions ended, pushes,
                        \* polls, and requests but the first

Users == Operators \cup Players

ASSUME ClientAssumption ==
    /\ Tasks \subseteq Mutations
    /\ Guest \notin Users
    /\ MaxCalls \in Nat /\ MaxEvents \in Nat

VARIABLES
    task,       \* the mutation this behaviour exercises
    page,       \* the route on screen
    intent,     \* the sign-in modal: closed, open, or open with a page to go on to
    me,         \* the session query and whether it failed, the expiry dialog, and a sign-out
                \* on its way
    cookie,     \* whose session the browser's cookie names, if the server still honours it
    query,      \* the query it follows
    pages,      \* the pages it opens: where the task is offered or shown, and where one signs in
    entry,      \* the query's entry in the cache
    form,       \* the task's form: its keys and the call it waits for
    calls,      \* the requests it has sent
    server,     \* how often the task has been carried out, and the keys recorded
    past,       \* what has happened, for the properties
    spent       \* how much of the bound is used

vars == <<task, query, pages, page, intent, me, cookie, entry, form, calls, server, past, spent>>

(***************************************************************************)
(* Which queries show what a mutation writes                               *)
(***************************************************************************)

Concerns(op, q) == op.writes \cap q.reads # {}
OnScreen(p, who) == IsMounted(query, p, who # Guest)

\* SessionGate: a /me that failed, however old what it last answered, has "Cannot reach the
\* server" in the place of every page until one is answered.
Displayed == ~me.failed /\ OnScreen(page, me.shown)

(***************************************************************************)
(* Routes and gates                                                        *)
(***************************************************************************)

\* RequireAuth, RequireAdmin, RequireNoConsoleSession.
Passes(p, who) ==
    CASE Route(p).gate = "anyone" -> TRUE
      [] Route(p).gate = "signed in" -> who # Guest
      [] Route(p).gate = "operator" -> who \in Operators
      [] Route(p).gate = "no operator" -> who \notin Operators

Gated(p, who) ==
    IF Passes(p, who) THEN p
    ELSE CASE Route(p).gate = "signed in" -> "lobby"
           [] Route(p).gate = "operator" -> "adminLogin"
           [] Route(p).gate = "no operator" -> "dashboard"

Closed == "closed"
Open == "open"

\* RequireAuth opens the modal with the page it refused; the console has no modal.
IntentAt(p, who) == IF Route(p).gate = "signed in" /\ ~Passes(p, who) THEN p ELSE intent

(***************************************************************************)
(* The query cache (@tanstack/react-query, as queryClient.ts sets it up)   *)
(***************************************************************************)

\* behind: fetched before the query was last invalidated.
NoRows == [who |-> Guest, seen |-> -1, behind |-> FALSE]
Absent == [rows |-> NoRows, stale |-> FALSE, fetch |-> "none", got |-> NoRows, cutOff |-> FALSE]
HasRows == entry.rows # NoRows

\* A fetch starts unless one is under way; a view cut off from the cache is joined to it again.
Refetch(e) ==
    IF e.cutOff THEN [Absent EXCEPT !.fetch = "asked"]
    ELSE IF e.fetch = "none" THEN [e EXCEPT !.fetch = "asked"] ELSE e

\* A view mounts: what is not there, stale, or more than staleTime (30 s) old, is fetched.
\* old: whether that time has passed.
Mount(e, old) == IF e.rows = NoRows \/ e.stale \/ e.cutOff \/ old THEN Refetch(e) ELSE e

\* Mutant: a fetch under way is taken for the new one.
InvalidateKeepingFetch(e, stales) ==
    IF ~Matches(stales, query.key) \/ e.cutOff \/ e = Absent THEN e
    ELSE IF Displayed THEN [Refetch(e) EXCEPT !.stale = TRUE]
    ELSE [e EXCEPT !.stale = TRUE]

\* invalidateQueries: what matches is stale, and fetched again if it is on screen.  A fetch
\* under way is abandoned for the new one, but a first load, or one nobody is looking at, is
\* left to land, and what it brings will pass for fresh.
Invalidate(e, stales) ==
    IF ~Matches(stales, query.key) \/ e.cutOff \/ e = Absent THEN e
    ELSE IF Displayed /\ (e.rows # NoRows \/ e.fetch = "none")
    THEN [e EXCEPT !.stale = TRUE, !.fetch = "asked", !.got = NoRows]
    ELSE [e EXCEPT !.stale = TRUE, !.got.behind = e.fetch = "read"]

\* Mutant: what was fetched is declared stale and stays up until it is fetched again.
dropGuestQueriesLate(to, who, navigates) ==
    IF OnScreen(to, who) THEN [entry EXCEPT !.stale = TRUE, !.fetch = "asked", !.got = NoRows]
    ELSE entry

\* Mutant: a fetch of what is removed is left to fail.
dropGuestQueriesUncancelled(to, who, navigates) ==
    IF entry.fetch = "refused" THEN [Absent EXCEPT !.fetch = "refused"]
    ELSE IF OnScreen(to, who) THEN Refetch(Absent) ELSE Absent

\* dropGuestQueries: everything but the session is removed and no fetch of it will land.
\* What is rendered anew is fetched for the new identity; a view that is not (the tab goes
\* nowhere and the view does not look at the session) keeps its rows, cut off from the cache.
dropGuestQueries(to, who, navigates) ==
    IF ~navigates /\ query \in IgnoreSession(page) /\ Displayed
    THEN [Absent EXCEPT !.rows = entry.rows, !.cutOff = TRUE]
    ELSE IF OnScreen(to, who) THEN Refetch(Absent) ELSE Absent

(***************************************************************************)
(* Moving about                                                            *)
(***************************************************************************)

\* A form mounted anew has a key of its own, if what it sends is keyed.
NextKey == IF task.keyed THEN form.key + 1 ELSE form.key
NewForm == [first |-> NextKey, key |-> NextKey, busy |-> 0, misled |-> FALSE]

\* A page left behind takes its form with it.
FormAt(to) ==
    IF to = page \/ ({to, page} \subseteq PlayerPages /\ \E f \in ShellForms : f.op = task)
    THEN form ELSE NewForm

\* The tab is at `to` for `who`: what was not on screen mounts, and a new page renders anew
\* what stays.
Stays(to, who) ==
    /\ Displayed
    /\ to = page \/ (Shell(to) = Shell(page) /\ query \in Shell(page) \ Route(to).mounts)
Rendered(e, to, who, old) ==
    IF OnScreen(to, who) /\ (~Stays(to, who) \/ (to # page /\ e.cutOff)) THEN Mount(e, old) ELSE e

\* The tab asks for `to`, and is where the gates let it be.
Goto(to, who, e, old) ==
    LET at == Gated(to, who) IN
    /\ page' = at
    /\ intent' = IntentAt(to, who)
    /\ form' = FormAt(at)
    /\ entry' = Rendered(e, at, who, old)

\* The session on display becomes `who` without the tab having asked: noteSession and
\* reportSessionExpired, one that was there and is not has expired.  The gate is open, and
\* what it mounts anew may have grown old behind it.
Shown(who, session, e) ==
    LET expired == me.shown # Guest /\ who = Guest IN
    /\ me' = [session EXCEPT !.shown = who, !.expired = @ \/ expired, !.failed = FALSE]
    /\ past' = [past EXCEPT !.left = IF expired THEN page ELSE @]
    /\ \E old \in {FALSE, me.failed} : Goto(page, who, e, old)

Spend == spent < MaxEvents /\ spent' = spent + 1

(***************************************************************************)
(* Initial state: the first /me has been answered (SessionGate)            *)
(***************************************************************************)

Idle == [at |-> "idle", key |-> 0, who |-> Guest, seen |-> 0]

Init ==
    /\ task \in Tasks /\ query \in {q \in Queries : Concerns(task, q)}
    /\ pages = {p \in Pages : query \in Route(p).mounts \/ \E f \in Route(p).forms : f.op = task}
                \cup {IF task.scope = "console" THEN "adminLogin" ELSE "lobby"}
    /\ \E who \in Users \cup {Guest}, loaded \in BOOLEAN :
        /\ page \in {p \in pages : Passes(p, who)}
        /\ cookie = who
        /\ me = [shown |-> who, fetch |-> "none", got |-> Guest, failed |-> FALSE, expired |-> FALSE,
                 leaving |-> Stay]
        /\ entry = IF ~OnScreen(page, who) THEN Absent
                   ELSE IF loaded THEN [Absent EXCEPT !.rows = [NoRows EXCEPT !.who = who, !.seen = 0]]
                   ELSE Refetch(Absent)
    /\ intent = Closed
    /\ form = [first |-> 1, key |-> 1, busy |-> 0, misled |-> FALSE]
    /\ calls = [c \in 1 .. MaxCalls |-> Idle]
    /\ server = [writes |-> 0, keys |-> {}]
    /\ past = [told |-> 0, left |-> "", ended |-> FALSE, raced |-> FALSE]
    /\ spent = 0

\* A link, or the browser's back and forward.  What it mounts asks for the session again if
\* that is old.
OpenPage(p) ==
    /\ Spend /\ p # page /\ ~me.failed
    /\ \E old \in BOOLEAN :
        /\ Goto(p, me.shown, entry, old)
        /\ me' = IF old /\ me.fetch = "none" THEN [me EXCEPT !.fetch = "asked"] ELSE me
    /\ past' = [past EXCEPT !.left = ""]
    /\ UNCHANGED <<task, query, pages, cookie, calls, server>>

(***************************************************************************)
(* Queries                                                                 *)
(***************************************************************************)

\* The server answers a query from what is committed, or with 401.
QueryReads ==
    /\ entry.fetch = "asked"
    /\ entry' = IF query.scope # "public" /\ cookie = Guest
                THEN [entry EXCEPT !.fetch = "refused"]
                ELSE [entry EXCEPT !.fetch = "read",
                                   !.got = [NoRows EXCEPT !.who = cookie, !.seen = server.writes]]
    /\ UNCHANGED <<task, query, pages, page, intent, me, cookie, form, calls, server, past, spent>>

QueryLands ==
    /\ entry.fetch = "read"
    /\ entry' = [entry EXCEPT !.rows = entry.got, !.got = NoRows, !.fetch = "none", !.stale = FALSE]
    /\ UNCHANGED <<task, query, pages, page, intent, me, cookie, form, calls, server, past, spent>>

\* Retries exhausted.  The rows stay, and so does a mark that they are stale.
QueryFails ==
    /\ entry.fetch = "asked"
    /\ entry' = [entry EXCEPT !.fetch = "none"]
    /\ UNCHANGED <<task, query, pages, page, intent, me, cookie, form, calls, server, past, spent>>

\* handleUnauthorized: the session is over, whatever this tab thought.
QueryRefused ==
    /\ entry.fetch = "refused"
    /\ Shown(Guest, me, [entry EXCEPT !.fetch = "none"])
    /\ UNCHANGED <<task, query, pages, cookie, calls, server, spent>>

Poll ==
    /\ query.polls /\ Displayed /\ Spend
    /\ entry' = Refetch(entry)
    /\ UNCHANGED <<task, query, pages, page, intent, me, cookie, form, calls, server, past>>

\* useChatSocket: a message declares the room stale, a change of who is online renders the
\* rail anew.
SocketEvent ==
    /\ query = useChatRoom /\ page \in PlayerPages /\ ~me.failed /\ Spend
    /\ entry' \in {Invalidate(entry, {<<"chat">>}), Mount(entry, FALSE)}
    /\ UNCHANGED <<task, query, pages, page, intent, me, cookie, form, calls, server, past>>

(***************************************************************************)
(* The session                                                             *)
(***************************************************************************)

\* fetchCurrentUser: a 401 is nobody, not an error.
MeReads ==
    /\ me.fetch = "asked"
    /\ me' = [me EXCEPT !.fetch = "read", !.got = cookie]
    /\ UNCHANGED <<task, query, pages, page, intent, cookie, entry, form, calls, server, past, spent>>

MeLands ==
    /\ me.fetch = "read"
    /\ Shown(me.got, [me EXCEPT !.fetch = "none", !.got = Guest], entry)
    /\ UNCHANGED <<task, query, pages, cookie, calls, server, spent>>

\* Any other error leaves the session as it was and takes the pages down, and with them the
\* form and its key ...
MeFails ==
    /\ me.fetch = "asked"
    /\ me' = [me EXCEPT !.fetch = "none", !.failed = TRUE]
    /\ form' = IF me.failed THEN form ELSE NewForm
    /\ UNCHANGED <<task, query, pages, page, intent, cookie, entry, calls, server, past, spent>>

\* ... until "Try again" has been answered.
TryAgain ==
    /\ me.failed /\ me.fetch = "none"
    /\ me' = [me EXCEPT !.fetch = "asked"]
    /\ UNCHANGED <<task, query, pages, page, intent, cookie, entry, form, calls, server, past, spent>>

\* The server stops honouring the session: it expired, or was revoked elsewhere.
SessionEnds ==
    /\ cookie # Guest /\ Spend
    /\ cookie' = Guest
    /\ past' = [past EXCEPT !.ended = TRUE]
    /\ UNCHANGED <<task, query, pages, page, intent, me, entry, form, calls, server>>

\* "Sign in", in the header or under the chat.
AskToSignIn ==
    /\ me.shown = Guest /\ page \in PlayerPages /\ intent = Closed /\ ~me.expired /\ ~me.failed
    /\ intent' = Open
    /\ UNCHANGED <<task, query, pages, page, me, cookie, entry, form, calls, server, past, spent>>

\* What a new identity starts from: raced if a /me of the old one is still to land.
NewPast == [told |-> 0, left |-> "", ended |-> FALSE, raced |-> past.raced \/ me.fetch # "none"]

\* useLogin, useAdminLogin, useRegister and useConfirmPasswordReset, answered: the modal,
\* hidden while the expiry dialog is up, goes on to the page it was opened with or stays;
\* the console's login page and the password reset page lead to theirs.  A request sent
\* before a /me failed is answered all the same, and opens the gate.
SignIn(who) ==
    /\ IF page \in PlayerPages THEN intent # Closed /\ ~me.expired ELSE Route(page).signsIn # Stay
    /\ Spend
    /\ LET leads == IF page \in PlayerPages THEN intent ELSE Route(page).signsIn
           to == IF leads = Open THEN page ELSE Gated(leads, who) IN
        /\ page' = to
        /\ entry' = dropGuestQueries(to, who, leads # Open)
        /\ form' = FormAt(to)
    /\ cookie' = who
    /\ me' = [me EXCEPT !.shown = who, !.expired = FALSE, !.failed = FALSE]
    /\ intent' = Closed
    /\ past' = NewPast
    /\ UNCHANGED <<task, query, pages, calls, server>>

\* Signing out, from the header, the account page or the console: the server ends the session.
SignOut ==
    LET leads == IF page \in PlayerPages THEN "lobby" ELSE Route(page).signsOut IN
    /\ me.shown # Guest /\ me.leaving = Stay /\ leads # Stay /\ ~me.failed /\ Spend
    /\ me' = [me EXCEPT !.leaving = leads]
    /\ cookie' = Guest
    /\ past' = [past EXCEPT !.ended = TRUE]
    /\ UNCHANGED <<task, query, pages, page, intent, entry, form, calls, server>>

\* useLogout's onSuccess, the gates it trips, and the page it goes to.
SignedOut ==
    /\ me.leaving # Stay
    /\ LET to == Gated(me.leaving, Guest) IN
        /\ page' = to
        /\ entry' = dropGuestQueries(to, Guest, TRUE)
        /\ form' = FormAt(to)
    /\ me' = [me EXCEPT !.shown = Guest, !.expired = FALSE, !.failed = FALSE, !.leaving = Stay]
    /\ intent' = IntentAt(page, Guest)
    /\ past' = NewPast
    /\ UNCHANGED <<task, query, pages, cookie, calls, server, spent>>

SignOutLost ==
    /\ me.leaving # Stay
    /\ me' = [me EXCEPT !.leaving = Stay]
    /\ UNCHANGED <<task, query, pages, page, intent, cookie, entry, form, calls, server, past, spent>>

\* SessionExpiredDialog: "Keep browsing" ...
KeepBrowsing ==
    /\ me.expired /\ ~me.failed
    /\ me' = [me EXCEPT !.expired = FALSE]
    /\ intent' = Closed
    /\ past' = [past EXCEPT !.left = ""]
    /\ UNCHANGED <<task, query, pages, page, cookie, entry, form, calls, server, spent>>

\* ... or "Sign in", which remembers where the tab is by now.
SignInAgain ==
    LET console == page \in ConsolePages \cup {"adminLogin"}
        to == Gated(IF console THEN "adminLogin" ELSE "lobby", me.shown) IN
    /\ me.expired /\ ~me.failed
    /\ me' = [me EXCEPT !.expired = FALSE]
    /\ page' = to
    /\ intent' = IF console THEN intent ELSE page
    /\ form' = FormAt(to)
    /\ entry' = Rendered(entry, to, me.shown, FALSE)
    /\ UNCHANGED <<task, query, pages, cookie, calls, server, past, spent>>

(***************************************************************************)
(* The task                                                                *)
(***************************************************************************)

\* The form is on screen once what it needs has loaded, and takes one call at a time.  It is
\* sent with the browser's cookie, whoever the tab shows.
Submit(c) ==
    /\ calls[c].at = "idle" /\ \A b \in 1 .. c - 1 : calls[b].at # "idle"
    /\ IF c = 1 THEN UNCHANGED spent ELSE Spend
    /\ form.busy = 0 /\ me.shown # Guest /\ ~me.failed
    /\ \E f \in Forms(page) : f.op = task /\ (query.key \in f.needs => HasRows)
    /\ form' = [form EXCEPT !.busy = c]
    /\ calls' = [calls EXCEPT ![c] = [at |-> IF cookie = Guest THEN "refused" ELSE "sent",
                                      key |-> form.key, who |-> cookie, seen |-> 0]]
    /\ UNCHANGED <<task, query, pages, page, intent, me, cookie, entry, server, past>>

Recorded(key) == task.keyed /\ key \in server.keys

\* The server commits the write, or finds that it has recorded the key.  Nobody may be
\* waiting for it any more.
Commit(c) ==
    /\ calls[c].at \in {"sent", "adrift"}
    /\ LET writes == IF Recorded(calls[c].key) THEN server.writes ELSE server.writes + 1 IN
        /\ server' = [writes |-> writes, keys |-> server.keys \cup {calls[c].key}]
        /\ calls' = [calls EXCEPT ![c].at = IF @ = "sent" THEN "committed" ELSE "over",
                                  ![c].seen = writes]
    /\ UNCHANGED <<task, query, pages, page, intent, me, cookie, entry, form, past, spent>>

Awaited(c) == calls[c].at \in {"sent", "refused", "committed"}
FormOf(op) == CHOOSE f \in AllForms : f.op = op

\* What is known to be done, once the page has been told.
Told(c) == IF calls[c].at = "committed" /\ calls[c].who = me.shown
           THEN Max({past.told, calls[c].seen}) ELSE past.told

\* The answer: what is stale is fetched again, the form is done, and the tab goes where the
\* form leads, even if it has gone elsewhere since.  With the pages down nothing stands in
\* the way of where it goes, until they are up again.
AnswerOk(c) ==
    /\ calls[c].at = "committed"
    /\ LET stale == Invalidate(entry, task.stales)
           leads == FormOf(task).leads
           to == IF leads = Stay THEN page ELSE leads IN
        IF leads # Stay /\ ~me.failed THEN Goto(leads, me.shown, stale, FALSE)
        ELSE /\ page' = to
             /\ entry' = stale
             /\ form' = IF form.busy = c THEN NewForm ELSE FormAt(to)
             /\ UNCHANGED intent
    /\ calls' = [calls EXCEPT ![c].at = "over"]
    /\ past' = [past EXCEPT !.told = Told(c)]
    /\ UNCHANGED <<task, query, pages, me, cookie, server, spent>>

\* An onSettled hook declares its keys stale on a failure too.
Settled(c) ==
    IF task.settled
    THEN /\ entry' = Invalidate(entry, task.stales)
         /\ past' = [past EXCEPT !.told = Told(c)]
    ELSE UNCHANGED <<entry, past>>

\* A key that names a request already, or may yet come to.
MayName(key, c) ==
    Recorded(key) \/ \E b \in DOMAIN calls \ {c} : calls[b].key = key /\ calls[b].at = "adrift"

\* The form takes a new key for its next attempt.
RenewKey(f, named) == [f EXCEPT !.busy = 0, !.key = NextKey, !.misled = task.keyed /\ (@ \/ named)]

\* An ApiError: refused and over; or from something between (a 502, a 504), with the request
\* still to be carried out; or (a 500) after the commit.
AnswerError(c) ==
    /\ Awaited(c)
    /\ \E adrift \in {FALSE, calls[c].at = "sent"} :
        /\ calls' = [calls EXCEPT ![c].at = IF adrift THEN "adrift" ELSE "over"]
        /\ form' = IF form.busy = c THEN RenewKey(form, adrift \/ MayName(form.key, c)) ELSE form
    /\ Settled(c)
    /\ UNCHANGED <<task, query, pages, page, intent, me, cookie, server, spent>>

\* Mutant: a new key for every attempt.
AfterLossRenewed(f) == RenewKey(f, FALSE)

\* Mutant: the form waits for an answer that will not come.
AfterLossStuck(f) == f

\* The connection drops.  The form keeps its key: the server will know a retry.
AfterLoss(f) == [f EXCEPT !.busy = 0]
AnswerLost(c) ==
    /\ Awaited(c)
    /\ calls' = [calls EXCEPT ![c].at = IF @ = "sent" THEN "adrift" ELSE "over"]
    /\ form' = IF form.busy = c THEN AfterLoss(form) ELSE form
    /\ Settled(c)
    /\ UNCHANGED <<task, query, pages, page, intent, me, cookie, server, spent>>

(***************************************************************************)
(* Specification                                                           *)
(***************************************************************************)

QueryNext == QueryReads \/ QueryLands \/ QueryFails \/ QueryRefused \/ Poll \/ SocketEvent
SessionNext ==
    \/ MeReads \/ MeLands \/ MeFails \/ TryAgain \/ SessionEnds \/ AskToSignIn \/ SignOut \/ SignedOut
    \/ SignOutLost \/ KeepBrowsing \/ SignInAgain
    \/ \E who \in Users : SignIn(who)
TaskNext ==
    \E c \in DOMAIN calls : Submit(c) \/ Commit(c) \/ AnswerOk(c) \/ AnswerError(c) \/ AnswerLost(c)

Next == QueryNext \/ SessionNext \/ TaskNext \/ \E p \in pages : OpenPage(p)

Spec == Init /\ [][Next]_vars

(***************************************************************************)
(* Properties                                                              *)
(***************************************************************************)

Identities == Users \cup {Guest}
Fetches == {"none", "asked", "read", "refused"}
RowsOf == [who : Identities, seen : -1 .. MaxCalls, behind : BOOLEAN]

\* Every variable stays in its range, and at most one call is a form's.
TypeOK ==
    /\ page \in Pages /\ intent \in {Closed, Open} \cup PlayerPages
    /\ me \in [shown : Identities, fetch : Fetches \ {"refused"}, got : Identities,
               failed : BOOLEAN, expired : BOOLEAN, leaving : {Stay, "lobby", "adminLogin"}]
    /\ cookie \in Identities
    /\ entry \in [rows : RowsOf, stale : BOOLEAN, fetch : Fetches, got : RowsOf, cutOff : BOOLEAN]
    /\ form.busy # 0 => Awaited(form.busy) /\ calls[form.busy].key = form.key
    /\ \A c \in DOMAIN calls : calls[c].key \in 0 .. form.key
    /\ server.writes \in 0 .. MaxCalls /\ spent \in 0 .. MaxEvents

\* What no hook declares stale, and only staleTime ends: the manifest of a game that an
\* operator is looking at, the audit log after these three, and, for an operator who goes
\* from one to the other in one document, their own pages after what they did in the console
\* and the console after what they did as a player.
LeftToAge ==
    \/ query = useGameManifest
    \/ {task.scope, query.scope} = {"own", "console"}
    \/ /\ query \in {useAuditEntries("page"), useAuditEntries("top")}
       /\ task \in {useCreatePaymentMethod, useUpdatePaymentMethod, useSetStaffAlerts}

\* A page shows what the form on it did: once the answer to a write is in, no query the tab
\* has mounted and settled lists the state before it, of whatever page and in whatever order
\* the answers of reads and writes came.  invalidateQueries in every mutation hook.  Not so of
\* rows that a fetch left to land brings, nor of a view cut off from the cache, and the code
\* does nothing about either.
Fresh == entry.fetch = "none" /\ ~entry.stale /\ ~entry.cutOff /\ ~entry.rows.behind
OwnWritesShow ==
    Displayed /\ HasRows /\ Fresh /\ ~LeftToAge => entry.rows.seen >= past.told

\* Nothing fetched for one identity is shown to another (dropGuestQueries), unless an answer
\* about the old session arrives after the new one has begun.
OnlyOwnData ==
    Displayed /\ query.scope \in {"own", "console"} /\ HasRows /\ ~past.raced
        => entry.rows.who = me.shown

\* "Session expired" is said only of a session that has ended, never of one just begun or
\* ended on purpose and done with (features/auth/expiry.ts, useLogin, useLogout).
ExpiryIsReal == me.expired => past.ended \/ past.raced

\* However often a form of an idempotent request is retried after the connection dropped,
\* it makes one request, unless an error answer about a request that may have been, or may
\* yet be, carried out made it take a new key.
OneRequestPerForm ==
    task.keyed /\ ~form.misled => Cardinality(server.keys \cap form.first .. form.key) <= 1

\* "Sign in again to pick up where you left off" (SessionExpiredDialog.tsx:45): signing in
\* after the session has expired leads to the page it expired on, if it is open to the user.
PicksUpWhereLeftOff ==
    [][\A who \in Users : past.left # "" /\ SignIn(who) /\ Passes(past.left, who) => page' = past.left]_vars
=============================================================================
