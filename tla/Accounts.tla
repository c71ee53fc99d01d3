------------------------------- MODULE Accounts -------------------------------
(***************************************************************************)
(* Accounts, sessions and reset tokens (backend/internal/user and auth).   *)
(* A handler that changes an existing users row first takes it FOR UPDATE. *)
(* Login reads the row without a lock and inserts a session later: the     *)
(* insert's foreign key needs the row FOR KEY SHARE, which waits for a FOR *)
(* UPDATE, and so does the actor of an audit entry.  Logout takes neither. *)
(*                                                                         *)
(* A user stands for its email.  A session that was revoked or has expired *)
(* and a token that was used are dropped: no statement tells them from     *)
(* ones that never were.                                                   *)
(***************************************************************************)
EXTENDS Naturals, Sequences, FiniteSets

CONSTANTS
    Users,          \* emails
    Seeded,         \* users that exist from the start
    Admins,         \* those of them with role admin
    Passwords,
    SessionIds, TokenIds,
    Calls,
    MaxLog,         \* no administrator's request starts on a longer audit log
    None

ASSUME AccountsAssumption ==
    /\ Admins \subseteq Seeded /\ Seeded \subseteq Users
    /\ Passwords # {}
    /\ MaxLog \in Nat
    /\ None \notin Users \cup Passwords \cup SessionIds \cup TokenIds \cup Calls

VARIABLES
    account,        \* users rows, or None
    rowLock,        \* the call holding a users row FOR UPDATE (or inserting it)
    session,        \* auth_sessions: the owner of a live session, or None
    token,          \* password_reset_tokens without used_at, or None
    log,            \* audit_logs about a user
    pc, arg         \* where a call stands, what it has read

vars == <<account, rowLock, session, token, log, pc, arg>>

Status == {"active", "suspended", "closed"}
Account == [password : Passwords, status : Status, alerts : {"on", "off"}]
Token == [user : Users, expired : BOOLEAN]
ASSUME RowAssumption == None \notin Account \cup Token

AdminOps == {"suspend", "reinstate", "alertsOn", "alertsOff"}
Ops == {"login", "register", "request", "reset", "change"} \cup AdminOps
Steps == {"idle", "waiting", "locked", "revoked", "audited"}

NoArg == [op |-> "none", user |-> None, actor |-> None, password |-> None, current |-> None,
          token |-> None, before |-> None, sessions |-> {}, tokens |-> {}]
Args == [op : Ops \cup {"none"}, user : Users \cup {None}, actor : Users \cup {None},
         password : Passwords \cup {None}, current : Passwords \cup {None},
         token : TokenIds \cup {None}, before : Account \cup {None},
         sessions : SUBSET SessionIds, tokens : SUBSET TokenIds]

\* The password every seeded user starts with.
FirstPassword == CHOOSE p \in Passwords : TRUE

\* Mutant: an account starts unverified, which the CHECK constraint does not know.
Unverified(p) == [password |-> p, status |-> "unverified", alerts |-> "off"]

Fresh(p) == [password |-> p, status |-> "active", alerts |-> "off"]

Init ==
    /\ account = [u \in Users |-> IF u \in Seeded THEN Fresh(FirstPassword) ELSE None]
    /\ rowLock = [u \in Users |-> None]
    /\ session = [s \in SessionIds |-> None]
    /\ token = [k \in TokenIds |-> None]
    /\ log = [u \in Users |-> <<>>]
    /\ pc = [t \in Calls |-> "idle"]
    /\ arg = [t \in Calls |-> NoArg]

-----------------------------------------------------------------------------
(* Rows and locks *)

Active(u) == account[u] # None /\ account[u].status = "active"
SessionsOf(u) == {s \in SessionIds : session[s] = u}
TokensOf(u) == {k \in TokenIds : token[k] # None /\ token[k].user = u}

\* FindBySessionHash: what a guarded handler starts from.
SignedIn(u) == Active(u) /\ SessionsOf(u) # {}

\* An audit entry holds its actor's row FOR KEY SHARE until its commit.
Shared(t, u) == \E other \in Calls \ {t} : pc[other] = "audited" /\ arg[other].actor = u

\* SELECT ... FROM users ... FOR UPDATE, when it does not wait.
LockUser(t, u) ==
    /\ account[u] # None
    /\ rowLock[u] = None
    /\ ~Shared(t, u)
    /\ rowLock' = [rowLock EXCEPT ![u] = t]

Unlock(t) == rowLock' = [u \in Users |-> IF rowLock[u] = t THEN None ELSE rowLock[u]]

Finish(t) ==
    /\ pc' = [pc EXCEPT ![t] = "idle"]
    /\ arg' = [arg EXCEPT ![t] = NoArg]

Start(t, step, request) ==
    /\ pc[t] = "idle"
    /\ pc' = [pc EXCEPT ![t] = step]
    /\ arg' = [arg EXCEPT ![t] = request]

To(t, step) == pc' = [pc EXCEPT ![t] = step]

\* Bounds: a session or token id is left for every call that may need one.
FreeSessions == {s \in SessionIds : session[s] = None}
RoomForSession ==
    Cardinality(FreeSessions) >
        Cardinality({t \in Calls : arg[t].op \in {"login", "register", "reset", "change"}})
FreeTokens == {k \in TokenIds : token[k] = None /\ \A t \in Calls : arg[t].token # k}
RoomForToken == Cardinality(FreeTokens) > Cardinality({t \in Calls : arg[t].op = "request"})

-----------------------------------------------------------------------------
(* register, login, Logout *)

\* The insert waits for another one of the same email (users_email_key), and is
\* refused when there is a row (ErrEmailTaken).
StartRegister(t, u, p) ==
    /\ account[u] = None
    /\ rowLock[u] = None
    /\ RoomForSession
    /\ rowLock' = [rowLock EXCEPT ![u] = t]
    /\ Start(t, "locked", [NoArg EXCEPT !.op = "register", !.user = u, !.password = p])
    /\ UNCHANGED <<account, session, token, log>>

CommitRegister(t) ==
    /\ pc[t] = "locked"
    /\ arg[t].op = "register"
    /\ account' = [account EXCEPT ![arg[t].user] = Fresh(arg[t].password)]
    /\ \E s \in FreeSessions : session' = [session EXCEPT ![s] = arg[t].user]
    /\ Unlock(t)
    /\ Finish(t)
    /\ UNCHANGED <<token, log>>

\* login: the row is read, the password and the status checked, no lock taken.
StartLogin(t, u, p) ==
    /\ Active(u)
    /\ account[u].password = p
    /\ RoomForSession
    /\ Start(t, "waiting", [NoArg EXCEPT !.op = "login", !.user = u, !.current = p])
    /\ UNCHANGED <<account, rowLock, session, token, log>>

\* Mutant: auth_sessions.user_id references nothing.
InsertUnreferenced(t) ==
    /\ pc[t] = "waiting"
    /\ arg[t].op = "login"
    /\ \E s \in FreeSessions : session' = [session EXCEPT ![s] = arg[t].user]
    /\ Finish(t)
    /\ UNCHANGED <<account, rowLock, token, log>>

\* startSession: one INSERT outside any transaction; its foreign key waits for
\* the users row.
InsertSession(t) ==
    /\ pc[t] = "waiting"
    /\ arg[t].op = "login"
    /\ rowLock[arg[t].user] = None
    /\ \E s \in FreeSessions : session' = [session EXCEPT ![s] = arg[t].user]
    /\ Finish(t)
    /\ UNCHANGED <<account, rowLock, token, log>>

\* Logout, or the end of SessionTTL.  Logout's UPDATE waits for a call that has
\* the row in its own revocation.
EndSession(s) ==
    /\ session[s] # None
    /\ \A t \in Calls : s \notin arg[t].sessions
    /\ session' = [session EXCEPT ![s] = None]
    /\ UNCHANGED <<account, rowLock, token, log, pc, arg>>

-----------------------------------------------------------------------------
(* requestPasswordReset *)

\* Mutant: the account is read without FOR UPDATE.
ReadForRequest(t, u) ==
    /\ Active(u)
    /\ RoomForToken
    /\ Start(t, "locked", [NoArg EXCEPT !.op = "request", !.user = u])
    /\ UNCHANGED <<account, rowLock, session, token, log>>

\* FindActiveByEmailForUpdateTx; any other email is answered alike, with no effect.
LockForRequest(t, u) ==
    /\ Active(u)
    /\ RoomForToken
    /\ LockUser(t, u)
    /\ Start(t, "locked", [NoArg EXCEPT !.op = "request", !.user = u])
    /\ UNCHANGED <<account, session, token, log>>

\* UPDATE password_reset_tokens SET used_at: the tokens it finds.
Supersede(t) ==
    /\ pc[t] = "locked"
    /\ arg[t].op = "request"
    /\ To(t, "revoked")
    /\ arg' = [arg EXCEPT ![t].tokens = TokensOf(arg[t].user)]
    /\ UNCHANGED <<account, rowLock, session, token, log>>

\* The new token is mailed after this; the answer does not depend on the mail.
CommitRequest(t) ==
    /\ pc[t] = "revoked"
    /\ arg[t].op = "request"
    /\ \E new \in FreeTokens :
          token' = [k \in TokenIds |->
                       IF k = new THEN [user |-> arg[t].user, expired |-> FALSE]
                       ELSE IF k \in arg[t].tokens THEN None ELSE token[k]]
    /\ Unlock(t)
    /\ Finish(t)
    /\ UNCHANGED <<account, session, log>>

\* resetTokenTTL passes.
ExpireToken(k) ==
    /\ token[k] # None
    /\ token' = [token EXCEPT ![k].expired = TRUE]
    /\ UNCHANGED <<account, rowLock, session, log, pc, arg>>

-----------------------------------------------------------------------------
(* confirmPasswordReset and changePassword *)

\* The owner of the token is read before anything is locked.  A token that is
\* used or unknown ends the call here or under the lock, with no effect.
StartReset(t, k, p) ==
    /\ token[k] # None
    /\ RoomForSession
    /\ Start(t, "waiting", [NoArg EXCEPT !.op = "reset", !.user = token[k].user,
                                       !.token = k, !.password = p])
    /\ UNCHANGED <<account, rowLock, session, token, log>>

\* The handler is given the account its session was found with.
StartChange(t, u, current, p) ==
    /\ SignedIn(u)
    /\ RoomForSession
    /\ Start(t, "waiting", [NoArg EXCEPT !.op = "change", !.user = u, !.current = current,
                                       !.password = p, !.before = account[u]])
    /\ UNCHANGED <<account, rowLock, session, token, log>>

\* Mutant: the password is compared with the account the session was found with.
ProvenByPreviewed(t) ==
    /\ Active(arg[t].user)
    /\ IF arg[t].op = "reset"
       THEN token[arg[t].token] # None /\ ~token[arg[t].token].expired
       ELSE arg[t].before.password = arg[t].current

\* What both handlers check on the rows they have locked.  The token row is only
\* ever locked by a call that has its owner's row, so its own lock never waits.
Proven(t) ==
    /\ Active(arg[t].user)
    /\ IF arg[t].op = "reset"
       THEN token[arg[t].token] # None /\ ~token[arg[t].token].expired
       ELSE account[arg[t].user].password = arg[t].current

\* FindByIDForUpdateTx and the checks that follow it; a failed one rolls back.
LockForPassword(t) ==
    LET u == arg[t].user
    IN  /\ pc[t] = "waiting"
        /\ arg[t].op \in {"reset", "change"}
        /\ LockUser(t, u)
        /\ Proven(t)
        /\ To(t, "locked")
        /\ UNCHANGED <<account, session, token, log, arg>>

RefusePassword(t) ==
    LET u == arg[t].user
    IN  /\ pc[t] = "waiting"
        /\ arg[t].op \in {"reset", "change"}
        /\ rowLock[u] = None /\ ~Shared(t, u)
        /\ ~Proven(t)
        /\ Finish(t)
        /\ UNCHANGED <<account, rowLock, session, token, log>>

\* revokeSessionsTx: the sessions the statement finds, for a new password or a
\* suspension.
RevokeSessions(t) ==
    /\ pc[t] = "locked"
    /\ arg[t].op \in {"reset", "change", "suspend"}
    /\ To(t, "revoked")
    /\ arg' = [arg EXCEPT ![t].sessions = SessionsOf(arg[t].user)]
    /\ UNCHANGED <<account, rowLock, session, token, log>>

\* UpdatePasswordTx, the revocation, CreateSessionTx and, for a reset, the token:
\* one commit.  The token was unused when it was locked, so consuming it counts 1.
CommitPassword(t) ==
    /\ pc[t] = "revoked"
    /\ arg[t].op \in {"reset", "change"}
    /\ account' = [account EXCEPT ![arg[t].user].password = arg[t].password]
    /\ \E new \in FreeSessions :
          session' = [s \in SessionIds |->
                         IF s = new THEN arg[t].user
                         ELSE IF s \in arg[t].sessions THEN None ELSE session[s]]
    /\ token' = [k \in TokenIds |-> IF k = arg[t].token THEN None ELSE token[k]]
    /\ Unlock(t)
    /\ Finish(t)
    /\ UNCHANGED log

-----------------------------------------------------------------------------
(* ChangeStatus and SetAlertEmails *)

\* The column an operation sets, and what to.
Column == [suspend |-> "status", reinstate |-> "status",
           alertsOn |-> "alerts", alertsOff |-> "alerts"]
Value == [suspend |-> "suspended", reinstate |-> "active", alertsOn |-> "on", alertsOff |-> "off"]

\* Admin: the actor's session and role are checked, then the request is parsed.
\* An unknown target, and for alerts one that is no administrator, is answered at once.
\* MaxLog bounds the requests.
StartAdmin(t, op, actor, u) ==
    /\ SignedIn(actor)
    /\ actor \in Admins
    /\ account[u] # None
    /\ Column[op] = "alerts" => u \in Admins
    /\ Len(log[u]) < MaxLog
    /\ Start(t, "waiting", [NoArg EXCEPT !.op = op, !.actor = actor, !.user = u])
    /\ UNCHANGED <<account, rowLock, session, token, log>>

\* The checks on the locked row.  Setting what is set already is answered without
\* a change.
Permitted(t) ==
    LET u == arg[t].user
        column == Column[arg[t].op]
    IN  /\ column = "status" => u # arg[t].actor /\ account[u].status # "closed"
        /\ account[u][column] # Value[arg[t].op]

\* Mutant: the row is read without FOR UPDATE.
ReadForAdmin(t) ==
    /\ pc[t] = "waiting"
    /\ arg[t].op \in AdminOps
    /\ Permitted(t)
    /\ To(t, "locked")
    /\ arg' = [arg EXCEPT ![t].before = account[arg[t].user]]
    /\ UNCHANGED <<account, rowLock, session, token, log>>

LockForAdmin(t) ==
    /\ pc[t] = "waiting"
    /\ arg[t].op \in AdminOps
    /\ LockUser(t, arg[t].user)
    /\ Permitted(t)
    /\ To(t, "locked")
    /\ arg' = [arg EXCEPT ![t].before = account[arg[t].user]]
    /\ UNCHANGED <<account, session, token, log>>

\* Mutant: the early return does not roll back.
RefuseWithoutRollback(t) ==
    /\ pc[t] = "waiting"
    /\ arg[t].op \in AdminOps
    /\ LockUser(t, arg[t].user)
    /\ ~Permitted(t)
    /\ Finish(t)
    /\ UNCHANGED <<account, session, token, log>>

RefuseAdmin(t) ==
    LET u == arg[t].user
    IN  /\ pc[t] = "waiting"
        /\ arg[t].op \in AdminOps
        /\ rowLock[u] = None /\ ~Shared(t, u)
        /\ ~Permitted(t)
        /\ Finish(t)
        /\ UNCHANGED <<account, rowLock, session, token, log>>

\* audit.Record: the entry's foreign key takes the actor's row FOR KEY SHARE.
InsertAudit(t) ==
    /\ pc[t] = IF arg[t].op = "suspend" THEN "revoked" ELSE "locked"
    /\ arg[t].op \in AdminOps
    /\ rowLock[arg[t].actor] \in {None, t}
    /\ To(t, "audited")
    /\ UNCHANGED <<account, rowLock, session, token, log, arg>>

CommitAdmin(t) ==
    LET u == arg[t].user
        column == Column[arg[t].op]
        value == Value[arg[t].op]
    IN  /\ pc[t] = "audited"
        /\ account' = [account EXCEPT ![u][column] = value]
        /\ session' = [s \in SessionIds |-> IF s \in arg[t].sessions THEN None ELSE session[s]]
        /\ log' = [log EXCEPT ![u] =
               Append(@, [column |-> column, before |-> arg[t].before[column], after |-> value])]
        /\ Unlock(t)
        /\ Finish(t)
        /\ UNCHANGED token

\* No code closes an account; an operator may, with an UPDATE.
CloseAccount(u) ==
    /\ account[u] # None
    /\ account[u].status # "closed"
    /\ rowLock[u] = None
    /\ account' = [account EXCEPT ![u].status = "closed"]
    /\ UNCHANGED <<rowLock, session, token, log, pc, arg>>

-----------------------------------------------------------------------------
(* The rest of the system *)

\* The transaction ends without committing: see Withdrawals.  A login whose
\* insert fails has changed nothing either.
Abort(t) ==
    /\ pc[t] # "idle"
    /\ Unlock(t)
    /\ Finish(t)
    /\ UNCHANGED <<account, session, token, log>>

\* The call whose row lock t's audit entry waits for.
AuditHolder(t) ==
    IF /\ arg[t].op \in AdminOps
       /\ pc[t] = IF arg[t].op = "suspend" THEN "revoked" ELSE "locked"
       /\ rowLock[arg[t].actor] # t
    THEN rowLock[arg[t].actor] ELSE None

\* Calls that wait for one another, each holding its target's row.
Deadlocked(S) == S # {} /\ {AuditHolder(t) : t \in S} = S

\* Postgres's deadlock detector ends one of them.
Victim(t) ==
    /\ \E S \in SUBSET Calls : t \in S /\ Deadlocked(S)
    /\ Abort(t)

\* What a call in flight does next.
Continue(t) ==
    \/ CommitRegister(t)
    \/ Supersede(t)
    \/ CommitRequest(t)
    \/ RevokeSessions(t)
    \/ CommitPassword(t)
    \/ CommitAdmin(t)

\* The statements that may wait for a lock another call holds.
Blocking(t) ==
    \/ InsertSession(t)
    \/ LockForPassword(t)
    \/ RefusePassword(t)
    \/ LockForAdmin(t)
    \/ RefuseAdmin(t)
    \/ InsertAudit(t)

Begin(t) ==
    \/ \E u \in Users : LockForRequest(t, u)
    \/ \E u \in Users, p \in Passwords :
          StartRegister(t, u, p) \/ StartLogin(t, u, p)
    \/ \E k \in TokenIds, p \in Passwords : StartReset(t, k, p)
    \/ \E u \in Users, current, p \in Passwords : StartChange(t, u, current, p)
    \/ \E op \in AdminOps, actor, u \in Users : StartAdmin(t, op, actor, u)

Next ==
    \/ \E t \in Calls : Begin(t) \/ Continue(t) \/ Blocking(t) \/ Victim(t) \/ Abort(t)
    \/ \E s \in SessionIds : EndSession(s)
    \/ \E k \in TokenIds : ExpireToken(k)
    \/ \E u \in Users : CloseAccount(u)

Spec == Init /\ [][Next]_vars

\* As in Withdrawals, and Postgres looks for deadlocks (deadlock_timeout).
FairSpec ==
    /\ Spec
    /\ \A t \in Calls : WF_vars(Continue(t)) /\ SF_vars(Blocking(t)) /\ WF_vars(Victim(t))

-----------------------------------------------------------------------------
(* Properties *)

\* Types of accounts, sessions, tokens and of what each handler carries.
TypeOK ==
    /\ account \in [Users -> Account \cup {None}]
    /\ rowLock \in [Users -> Calls \cup {None}]
    /\ session \in [SessionIds -> Users \cup {None}]
    /\ token \in [TokenIds -> Token \cup {None}]
    /\ pc \in [Calls -> Steps]
    /\ arg \in [Calls -> Args]

\* An account never goes, and its password changes only by a changePassword that
\* was given the password in force at its commit, or by a confirmPasswordReset
\* with a token of that account that is unused until that commit.
PasswordsChangeByProof ==
    [][\A u \in Users : account[u] # None =>
          /\ account'[u] # None
          /\ account'[u].password # account[u].password =>
                \E t \in Calls :
                    /\ pc[t] # "idle" /\ pc'[t] = "idle"
                    /\ arg[t].user = u
                    /\ \/ arg[t].op = "change" /\ arg[t].current = account[u].password
                       \/ arg[t].op = "reset" /\ arg[t].token \in TokensOf(u)]_vars

\* A step that changes a user's password or suspends the user leaves live no
\* session that was live before: none is inserted between the revocation and
\* its commit, though logins take no lock.
RevocationLeavesNone ==
    [][\A u \in Users :
          (/\ account[u] # None
           /\ \/ account'[u].password # account[u].password
              \/ account'[u].status = "suspended" /\ account[u].status # "suspended")
          => \A s \in SessionsOf(u) : session'[s] # u]_vars

\* Once a reset has changed a password no token of that user is left to change it
\* again: confirmPasswordReset consumes only its own, so requestPasswordReset must
\* never leave two.
ResetsLeaveNoToken ==
    [][\A t \in Calls :
          arg[t].op = "reset" /\ pc'[t] = "idle" /\ session' # session
          => \A k \in TokenIds : token'[k] = None \/ token'[k].user # arg[t].user]_vars

\* value is what the last of n entries says that column was set to, or what the
\* column starts with when none of them is about it.
Tells(entries, n, column, value) ==
    /\ (\A i \in 1 .. n : entries[i].column # column) => value = Fresh(FirstPassword)[column]
    /\ \A i \in 1 .. n :
          entries[i].column = column /\ (\A j \in i + 1 .. n : entries[j].column # column)
          => value = entries[i].after

\* A column's audit entries tell its whole history: each starts where the one
\* before it ended, and the last tells what the row shows (unless it was closed).
AuditChains ==
    \A u \in Users :
        /\ \A i \in DOMAIN log[u] : Tells(log[u], i - 1, log[u][i].column, log[u][i].before)
        /\ IF account[u] = None THEN log[u] = <<>>
           ELSE \A column \in {"status", "alerts"} :
                   \/ account[u][column] = "closed"
                   \/ Tells(log[u], Len(log[u]), column, account[u][column])

\* A call that has started comes to an end, two administrators who suspend each
\* other included.
CallsEnd == \A t \in Calls : pc[t] # "idle" ~> pc[t] = "idle"
===============================================================================
