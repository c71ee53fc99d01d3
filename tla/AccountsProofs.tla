---------------------------- MODULE AccountsProofs ----------------------------
(***************************************************************************)
(* Proofs about Accounts, for any users, passwords, sessions, tokens and    *)
(* calls.                                                                   *)
(***************************************************************************)
EXTENDS Accounts, TLAPS

\* Where a call is, given what it asks for.
Placed(t) ==
    /\ pc[t] = "idle" => arg[t] = NoArg
    /\ pc[t] # "idle" => arg[t].op \in Ops /\ arg[t].user \in Users
    /\ pc[t] = "waiting" => arg[t].op \notin {"register", "request"}
    /\ pc[t] = "revoked" => arg[t].op \in {"request", "reset", "change", "suspend"}
    /\ pc[t] = "audited" => arg[t].op \in AdminOps
    /\ arg[t].op \in {"register", "reset", "change"} => arg[t].password \in Passwords
    /\ arg[t].op = "reset" => arg[t].token \in TokenIds
    /\ arg[t].op # "reset" => arg[t].token = None

\* A call past its lock still has it, and the row it works on is there (or, for a
\* registration, is not).
Holds(t) ==
    /\ pc[t] \in {"locked", "revoked", "audited"} => rowLock[arg[t].user] = t
    /\ pc[t] # "idle" => (account[arg[t].user] = None <=> arg[t].op = "register")

\* What a call read is still so when it commits.
Current(t) ==
    /\ arg[t].op = "reset" /\ token[arg[t].token] # None => token[arg[t].token].user = arg[t].user
    /\ arg[t].op = "reset" /\ pc[t] \in {"locked", "revoked"} => token[arg[t].token] # None
    /\ arg[t].op = "change" /\ pc[t] \in {"locked", "revoked"} =>
          account[arg[t].user].password = arg[t].current
    /\ arg[t].op = "request" /\ pc[t] = "revoked" => arg[t].tokens = TokensOf(arg[t].user)
    /\ arg[t].op \in {"reset", "change", "suspend"} /\ pc[t] \in {"revoked", "audited"} =>
          SessionsOf(arg[t].user) \subseteq arg[t].sessions

\* A user has at most one unused token.
OneLiveToken ==
    \A k, other \in TokenIds :
        token[k] # None /\ token[other] # None /\ token[k].user = token[other].user => k = other

TokensHaveOwners == \A k \in TokenIds : token[k] # None => account[token[k].user] # None

CallsInv == \A t \in Calls : Placed(t) /\ Holds(t) /\ Current(t)

Inv == TypeOK /\ CallsInv /\ OneLiveToken /\ TokensHaveOwners

USE AccountsAssumption, RowAssumption

LEMMA NoArgType == NoArg \in Args
BY DEF NoArg, Args

LEMMA FreshType == \A p \in Passwords : Fresh(p) \in Account
BY DEF Fresh, Account, Status

LEMMA InvInit == Init => Inv
<1> SUFFICES ASSUME Init PROVE Inv
  OBVIOUS
<1>1. FirstPassword \in Passwords
  BY DEF FirstPassword
<1>2. TypeOK
  BY <1>1, NoArgType, FreshType DEF Init, TypeOK, Steps
<1>3. CallsInv
  BY DEF Init, CallsInv, Placed, Holds, Current, NoArg
<1>4. OneLiveToken /\ TokensHaveOwners
  BY DEF Init, OneLiveToken, TokensHaveOwners
<1> QED
  BY <1>2, <1>3, <1>4 DEF Inv

-----------------------------------------------------------------------------
(* What a step of one call leaves to the others *)

\* A call that finishes is placed where it may be; the others stay where they are.
LEMMA FinishPlaced ==
    ASSUME Inv, NEW t \in Calls, Finish(t)
    PROVE  /\ pc' \in [Calls -> Steps]
           /\ arg' \in [Calls -> Args]
           /\ pc'[t] = "idle" /\ arg'[t] = NoArg
           /\ \A c \in Calls \ {t} : pc'[c] = pc[c] /\ arg'[c] = arg[c]
           /\ \A c \in Calls : Placed(c)'
<1>1. /\ pc' \in [Calls -> Steps]
      /\ arg' \in [Calls -> Args]
      /\ pc'[t] = "idle" /\ arg'[t] = NoArg
      /\ \A c \in Calls \ {t} : pc'[c] = pc[c] /\ arg'[c] = arg[c]
  BY NoArgType DEF Inv, TypeOK, Finish, Steps
<1>2. Placed(t)'
  BY <1>1 DEF Placed, NoArg
<1>3. \A c \in Calls \ {t} : Placed(c)'
  BY <1>1 DEF Inv, CallsInv, Placed
<1> QED
  BY <1>1, <1>2, <1>3

\* A call that goes on with what it has.
LEMMA AdvancePlaced ==
    ASSUME Inv, NEW t \in Calls, NEW step \in Steps, NEW a \in Args,
           pc' = [pc EXCEPT ![t] = step], arg' = [arg EXCEPT ![t] = a]
    PROVE  /\ pc' \in [Calls -> Steps]
           /\ arg' \in [Calls -> Args]
           /\ pc'[t] = step /\ arg'[t] = a
           /\ \A c \in Calls \ {t} : pc'[c] = pc[c] /\ arg'[c] = arg[c]
           /\ \A c \in Calls \ {t} : Placed(c)'
<1>1. /\ pc' \in [Calls -> Steps]
      /\ arg' \in [Calls -> Args]
      /\ pc'[t] = step /\ arg'[t] = a
      /\ \A c \in Calls \ {t} : pc'[c] = pc[c] /\ arg'[c] = arg[c]
  BY DEF Inv, TypeOK
<1>2. \A c \in Calls \ {t} : Placed(c)'
  BY <1>1 DEF Inv, CallsInv, Placed
<1> QED
  BY <1>1, <1>2

\* Two calls past their locks work on different users.
LEMMA Exclusive ==
    ASSUME Inv, NEW t \in Calls, NEW c \in Calls \ {t},
           pc[t] \in {"locked", "revoked", "audited"}, pc[c] \in {"locked", "revoked", "audited"}
    PROVE  arg[t].user # arg[c].user
BY DEF Inv, CallsInv, Holds

\* A step of t that keeps the rows keeps every other call's invariant, if the
\* locks of the other calls stay theirs.
LEMMA OthersKeep ==
    ASSUME Inv, NEW t \in Calls, UNCHANGED <<account, session, token>>,
           NEW c \in Calls \ {t}, pc'[c] = pc[c], arg'[c] = arg[c],
           \A u \in Users : rowLock[u] = c => rowLock'[u] = c
    PROVE  Holds(c)' /\ Current(c)'
<1>1. Holds(c) /\ Current(c) /\ Placed(c)
  BY DEF Inv, CallsInv
<1>2. Holds(c)'
  BY <1>1 DEF Holds, Placed
<1>3. Current(c)'
  BY <1>1 DEF Current, SessionsOf, TokensOf
<1> QED
  BY <1>2, <1>3

LEMMA UnlockKeeps ==
    ASSUME Inv, NEW t \in Calls, Unlock(t)
    PROVE  /\ rowLock' \in [Users -> Calls \cup {None}]
           /\ \A u \in Users, c \in Calls \ {t} : rowLock[u] = c => rowLock'[u] = c
BY DEF Inv, TypeOK, Unlock

LEMMA LockKeeps ==
    ASSUME Inv, NEW t \in Calls, NEW v \in Users, LockUser(t, v)
    PROVE  /\ rowLock' \in [Users -> Calls \cup {None}]
           /\ rowLock'[v] = t
           /\ \A u \in Users, c \in Calls \ {t} : rowLock[u] = c => rowLock'[u] = c
BY DEF Inv, TypeOK, LockUser

\* A call that ends without changing a row.
LEMMA FinishKeeps ==
    ASSUME Inv, NEW t \in Calls, Finish(t), UNCHANGED <<account, session, token>>,
           Unlock(t) \/ UNCHANGED rowLock
    PROVE  Inv'
<1>1. /\ rowLock' \in [Users -> Calls \cup {None}]
      /\ \A u \in Users, c \in Calls \ {t} : rowLock[u] = c => rowLock'[u] = c
  BY UnlockKeeps DEF Inv, TypeOK
<1>2. TypeOK'
  BY <1>1, FinishPlaced DEF Inv, TypeOK
<1>3. \A c \in Calls \ {t} : Holds(c)' /\ Current(c)'
  BY <1>1, FinishPlaced, OthersKeep
<1>4. Holds(t)' /\ Current(t)'
  BY FinishPlaced DEF Holds, Current, NoArg
<1>5. OneLiveToken' /\ TokensHaveOwners'
  BY DEF Inv, OneLiveToken, TokensHaveOwners
<1> QED
  BY <1>2, <1>3, <1>4, <1>5, FinishPlaced DEF Inv, CallsInv

\* A call that goes on without changing a row.
LEMMA AdvanceKeeps ==
    ASSUME Inv, NEW t \in Calls, NEW step \in Steps, NEW a \in Args,
           pc' = [pc EXCEPT ![t] = step], arg' = [arg EXCEPT ![t] = a],
           UNCHANGED <<account, session, token>>,
           rowLock' \in [Users -> Calls \cup {None}],
           \A u \in Users, c \in Calls \ {t} : rowLock[u] = c => rowLock'[u] = c,
           Placed(t)' /\ Holds(t)' /\ Current(t)'
    PROVE  Inv'
<1>1. TypeOK'
  BY AdvancePlaced DEF Inv, TypeOK
<1>2. \A c \in Calls \ {t} : Holds(c)' /\ Current(c)'
  BY AdvancePlaced, OthersKeep
<1>3. OneLiveToken' /\ TokensHaveOwners'
  BY DEF Inv, OneLiveToken, TokensHaveOwners
<1> QED
  BY <1>1, <1>2, <1>3, AdvancePlaced DEF Inv, CallsInv

-----------------------------------------------------------------------------
(* Steps that start a call or advance it *)

LEMMA BeginKeeps == ASSUME Inv, NEW t \in Calls, Begin(t) PROVE Inv'
<1> USE DEF Steps
<1>0. TypeOK /\ NoArg \in Args
  BY NoArgType DEF Inv
<1>1. ASSUME NEW u \in Users, LockForRequest(t, u) PROVE Inv'
  <2> DEFINE a == [NoArg EXCEPT !.op = "request", !.user = u]
  <2>1. a \in Args /\ a.op = "request" /\ a.user = u /\ a.token = None
    BY <1>0 DEF NoArg, Args, Ops
  <2>2. pc' = [pc EXCEPT ![t] = "locked"] /\ arg' = [arg EXCEPT ![t] = a]
        /\ UNCHANGED <<account, session, token>> /\ LockUser(t, u)
    BY <1>1 DEF LockForRequest, Start
  <2>3. pc'[t] = "locked" /\ arg'[t] = a
    BY <1>0, <2>2 DEF TypeOK
  <2> HIDE DEF a
  <2>4. Placed(t)' /\ Holds(t)' /\ Current(t)'
    BY <2>1, <2>2, <2>3, LockKeeps DEF LockUser, Placed, Holds, Current, Ops
  <2> QED
    BY <2>1, <2>2, <2>4, LockKeeps, AdvanceKeeps
<1>2. ASSUME NEW u \in Users, NEW p \in Passwords, StartRegister(t, u, p) PROVE Inv'
  <2> DEFINE a == [NoArg EXCEPT !.op = "register", !.user = u, !.password = p]
  <2>1. a \in Args /\ a.op = "register" /\ a.user = u /\ a.password = p /\ a.token = None
    BY <1>0 DEF NoArg, Args, Ops
  <2>2. pc' = [pc EXCEPT ![t] = "locked"] /\ arg' = [arg EXCEPT ![t] = a]
        /\ UNCHANGED <<account, session, token>> /\ rowLock' = [rowLock EXCEPT ![u] = t]
        /\ rowLock[u] = None /\ account[u] = None
    BY <1>2 DEF StartRegister, Start
  <2>3. pc'[t] = "locked" /\ arg'[t] = a /\ rowLock'[u] = t
        /\ rowLock' \in [Users -> Calls \cup {None}]
        /\ \A v \in Users, c \in Calls \ {t} : rowLock[v] = c => rowLock'[v] = c
    BY <1>0, <2>2 DEF TypeOK
  <2> HIDE DEF a
  <2>4. Placed(t)' /\ Holds(t)' /\ Current(t)'
    BY <2>1, <2>2, <2>3 DEF Placed, Holds, Current, Ops
  <2> QED
    BY <2>1, <2>2, <2>3, <2>4, AdvanceKeeps
<1>3. ASSUME NEW u \in Users, NEW p \in Passwords, StartLogin(t, u, p) PROVE Inv'
  <2> DEFINE a == [NoArg EXCEPT !.op = "login", !.user = u, !.current = p]
  <2>1. a \in Args /\ a.op = "login" /\ a.user = u /\ a.token = None
    BY <1>0 DEF NoArg, Args, Ops
  <2>2. pc' = [pc EXCEPT ![t] = "waiting"] /\ arg' = [arg EXCEPT ![t] = a]
        /\ UNCHANGED <<account, session, token, rowLock>> /\ account[u] # None
    BY <1>3 DEF StartLogin, Start, Active
  <2>3. pc'[t] = "waiting" /\ arg'[t] = a
    BY <1>0, <2>2 DEF TypeOK
  <2> HIDE DEF a
  <2>4. Placed(t)' /\ Holds(t)' /\ Current(t)'
    BY <2>1, <2>2, <2>3 DEF Placed, Holds, Current, Ops
  <2> QED
    BY <1>0, <2>1, <2>2, <2>4, AdvanceKeeps DEF TypeOK
<1>4. ASSUME NEW k \in TokenIds, NEW p \in Passwords, StartReset(t, k, p) PROVE Inv'
  <2> DEFINE a == [NoArg EXCEPT !.op = "reset", !.user = token[k].user, !.token = k, !.password = p]
  <2>1. token[k] # None /\ token[k].user \in Users
    BY <1>0, <1>4 DEF StartReset, TypeOK, Token
  <2>2. a \in Args /\ a.op = "reset" /\ a.user = token[k].user /\ a.token = k /\ a.password = p
    BY <1>0, <2>1 DEF NoArg, Args, Ops
  <2>3. pc' = [pc EXCEPT ![t] = "waiting"] /\ arg' = [arg EXCEPT ![t] = a]
        /\ UNCHANGED <<account, session, token, rowLock>>
    BY <1>4 DEF StartReset, Start
  <2>4. pc'[t] = "waiting" /\ arg'[t] = a
    BY <1>0, <2>3 DEF TypeOK
  <2>5. account[token[k].user] # None
    BY <1>4, <2>1 DEF StartReset, Inv, TokensHaveOwners
  <2> HIDE DEF a
  <2>6. Placed(t)' /\ Holds(t)' /\ Current(t)'
    BY <2>1, <2>2, <2>3, <2>4, <2>5 DEF Placed, Holds, Current, Ops
  <2> QED
    BY <1>0, <2>2, <2>3, <2>6, AdvanceKeeps DEF TypeOK
<1>5. ASSUME NEW u \in Users, NEW current \in Passwords, NEW p \in Passwords,
             StartChange(t, u, current, p)
      PROVE  Inv'
  <2> DEFINE a == [NoArg EXCEPT !.op = "change", !.user = u, !.current = current,
                                !.password = p, !.before = account[u]]
  <2>1. account[u] # None /\ account[u] \in Account
    BY <1>0, <1>5 DEF StartChange, SignedIn, Active, TypeOK
  <2>2. a \in Args /\ a.op = "change" /\ a.user = u /\ a.token = None /\ a.password = p
    BY <1>0, <2>1 DEF NoArg, Args, Ops
  <2>3. pc' = [pc EXCEPT ![t] = "waiting"] /\ arg' = [arg EXCEPT ![t] = a]
        /\ UNCHANGED <<account, session, token, rowLock>>
    BY <1>5 DEF StartChange, Start
  <2>4. pc'[t] = "waiting" /\ arg'[t] = a
    BY <1>0, <2>3 DEF TypeOK
  <2> HIDE DEF a
  <2>5. Placed(t)' /\ Holds(t)' /\ Current(t)'
    BY <2>1, <2>2, <2>3, <2>4 DEF Placed, Holds, Current, Ops
  <2> QED
    BY <1>0, <2>2, <2>3, <2>5, AdvanceKeeps DEF TypeOK
<1>6. ASSUME NEW op \in AdminOps, NEW actor \in Users, NEW u \in Users, StartAdmin(t, op, actor, u)
      PROVE  Inv'
  <2> DEFINE a == [NoArg EXCEPT !.op = op, !.actor = actor, !.user = u]
  <2>1. a \in Args /\ a.op = op /\ a.user = u /\ a.token = None
    BY <1>0 DEF NoArg, Args, Ops
  <2>2. pc' = [pc EXCEPT ![t] = "waiting"] /\ arg' = [arg EXCEPT ![t] = a]
        /\ UNCHANGED <<account, session, token, rowLock>> /\ account[u] # None
    BY <1>6 DEF StartAdmin, Start
  <2>3. pc'[t] = "waiting" /\ arg'[t] = a
    BY <1>0, <2>2 DEF TypeOK
  <2> HIDE DEF a
  <2>4. Placed(t)' /\ Holds(t)' /\ Current(t)'
    BY <2>1, <2>2, <2>3 DEF Placed, Holds, Current, Ops, AdminOps
  <2> QED
    BY <1>0, <2>1, <2>2, <2>4, AdvanceKeeps DEF TypeOK
<1> QED
  BY <1>1, <1>2, <1>3, <1>4, <1>5, <1>6 DEF Begin

LEMMA BlockingKeeps == ASSUME Inv, NEW t \in Calls, Blocking(t) PROVE Inv'
<1> USE DEF Steps
<1>0. /\ TypeOK /\ arg[t] \in Args
      /\ Placed(t) /\ Holds(t) /\ Current(t)
  BY DEF Inv, CallsInv, TypeOK
<1>1. ASSUME InsertSession(t) PROVE Inv'
  <2>0. arg[t].user \in Users /\ rowLock[arg[t].user] = None
    BY <1>0, <1>1 DEF InsertSession, Placed
  <2>1. PICK s \in FreeSessions : session' = [session EXCEPT ![s] = arg[t].user]
    BY <1>1 DEF InsertSession
  <2>2. Finish(t) /\ UNCHANGED <<account, rowLock, token>>
    BY <1>1 DEF InsertSession
  <2>3. TypeOK'
    BY <1>0, <2>0, <2>1, <2>2, FinishPlaced DEF TypeOK, FreeSessions
  <2>4. ASSUME NEW c \in Calls \ {t} PROVE Holds(c)' /\ Current(c)'
    <3>1. pc'[c] = pc[c] /\ arg'[c] = arg[c] /\ Holds(c) /\ Current(c) /\ Placed(c) /\ c # None
      BY <2>2, FinishPlaced DEF Inv, CallsInv
    <3>2. Holds(c)'
      BY <2>2, <3>1 DEF Holds
    <3>3. pc[c] \in {"revoked", "audited"} => arg[c].user # arg[t].user
      BY <2>0, <3>1 DEF Holds
    <3>4. pc[c] \in {"revoked", "audited"} => SessionsOf(arg[c].user)' \subseteq SessionsOf(arg[c].user)
      BY <1>0, <2>1, <3>1, <3>3 DEF SessionsOf, FreeSessions, TypeOK
    <3>5. Current(c)'
      BY <2>2, <3>1, <3>4 DEF Current, TokensOf
    <3> QED
      BY <3>2, <3>5
  <2>5. Holds(t)' /\ Current(t)'
    BY <2>2, FinishPlaced DEF Holds, Current, NoArg
  <2>6. OneLiveToken' /\ TokensHaveOwners'
    BY <2>2 DEF Inv, OneLiveToken, TokensHaveOwners
  <2> QED
    BY <2>2, <2>3, <2>4, <2>5, <2>6, FinishPlaced DEF Inv, CallsInv
<1>2. ASSUME LockForPassword(t) PROVE Inv'
  <2>1. /\ pc[t] = "waiting" /\ arg[t].op \in {"reset", "change"} /\ arg[t].user \in Users
        /\ LockUser(t, arg[t].user) /\ Proven(t)
        /\ UNCHANGED <<account, session, token, arg>>
        /\ pc' = [pc EXCEPT ![t] = "locked"]
    BY <1>0, <1>2 DEF LockForPassword, To, Placed
  <2>2. pc'[t] = "locked" /\ arg'[t] = arg[t] /\ arg' = [arg EXCEPT ![t] = arg[t]]
    BY <1>0, <2>1 DEF TypeOK
  <2>3. rowLock'[arg[t].user] = t
    BY <2>1, LockKeeps
  <2>4. Placed(t)' /\ Holds(t)' /\ Current(t)'
    BY <1>0, <2>1, <2>2, <2>3 DEF LockUser, Placed, Holds, Current, Proven
  <2> QED
    BY <1>0, <2>1, <2>2, <2>4, LockKeeps, AdvanceKeeps
<1>3. ASSUME RefusePassword(t) \/ RefuseAdmin(t) PROVE Inv'
  BY <1>3, FinishKeeps DEF RefusePassword, RefuseAdmin
<1>4. ASSUME LockForAdmin(t) PROVE Inv'
  <2> DEFINE a == [arg[t] EXCEPT !.before = account[arg[t].user]]
  <2>1. /\ pc[t] = "waiting" /\ arg[t].op \in AdminOps /\ arg[t].user \in Users
        /\ LockUser(t, arg[t].user)
        /\ UNCHANGED <<account, session, token>>
        /\ pc' = [pc EXCEPT ![t] = "locked"]
        /\ arg' = [arg EXCEPT ![t] = a]
    BY <1>0, <1>4 DEF LockForAdmin, To, Placed, TypeOK
  <2>2. a \in Args /\ a.op = arg[t].op /\ a.user = arg[t].user /\ a.token = arg[t].token
    BY <1>0, <2>1 DEF Args, TypeOK
  <2>3. pc'[t] = "locked" /\ arg'[t] = a /\ rowLock'[arg[t].user] = t
    BY <1>0, <2>1, LockKeeps DEF TypeOK
  <2> HIDE DEF a
  <2>4. Placed(t)' /\ Holds(t)' /\ Current(t)'
    BY <1>0, <2>1, <2>2, <2>3 DEF LockUser, Placed, Holds, Current, AdminOps
  <2> QED
    BY <2>1, <2>2, <2>4, LockKeeps, AdvanceKeeps
<1>5. ASSUME InsertAudit(t) PROVE Inv'
  <2>1. /\ pc[t] = IF arg[t].op = "suspend" THEN "revoked" ELSE "locked"
        /\ arg[t].op \in AdminOps
        /\ UNCHANGED <<account, session, token, rowLock, arg>>
        /\ pc' = [pc EXCEPT ![t] = "audited"]
    BY <1>5 DEF InsertAudit, To
  <2>2. pc'[t] = "audited" /\ arg'[t] = arg[t] /\ arg' = [arg EXCEPT ![t] = arg[t]]
    BY <1>0, <2>1 DEF TypeOK
  <2>3. Placed(t)' /\ Holds(t)' /\ Current(t)'
    BY <1>0, <2>1, <2>2 DEF Placed, Holds, Current, AdminOps, SessionsOf, TokensOf
  <2> QED
    BY <1>0, <2>1, <2>2, <2>3, AdvanceKeeps DEF TypeOK
<1> QED
  BY <1>1, <1>2, <1>3, <1>4, <1>5 DEF Blocking

-----------------------------------------------------------------------------
(* Commits *)

LEMMA CommitRegisterKeeps == ASSUME Inv, NEW t \in Calls, CommitRegister(t) PROVE Inv'
<1> DEFINE u == arg[t].user
<1>0. /\ TypeOK
      /\ pc[t] = "locked" /\ arg[t].op = "register"
      /\ u \in Users /\ arg[t].password \in Passwords
      /\ account[u] = None /\ rowLock[u] = t
  BY DEF CommitRegister, Inv, CallsInv, Placed, Holds
<1>1. PICK s \in FreeSessions : session' = [session EXCEPT ![s] = u]
  BY DEF CommitRegister
<1>2. /\ account' = [account EXCEPT ![u] = Fresh(arg[t].password)]
      /\ Unlock(t) /\ Finish(t) /\ UNCHANGED token
  BY DEF CommitRegister
<1>3. Fresh(arg[t].password) \in Account
  BY <1>0, FreshType
<1>4. TypeOK'
  BY <1>0, <1>1, <1>2, <1>3, UnlockKeeps, FinishPlaced DEF TypeOK, FreeSessions
<1>5. ASSUME NEW c \in Calls \ {t} PROVE Holds(c)' /\ Current(c)'
  <2>1. pc'[c] = pc[c] /\ arg'[c] = arg[c] /\ Holds(c) /\ Current(c) /\ Placed(c)
    BY <1>2, FinishPlaced DEF Inv, CallsInv
  <2>2. pc[c] # "idle" => arg[c].user \in Users /\ arg[c].user # u
    BY <1>0, <2>1, Exclusive DEF Holds, Placed, Steps, TypeOK
  <2>3. Holds(c)'
    BY <1>0, <1>2, <2>1, <2>2, UnlockKeeps DEF Holds, Placed, TypeOK
  <2>4. pc[c] \in {"revoked", "audited"} => SessionsOf(arg[c].user)' \subseteq SessionsOf(arg[c].user)
    BY <1>0, <1>1, <2>1, <2>2 DEF SessionsOf, FreeSessions, TypeOK
  <2>5. Current(c)'
    BY <1>0, <1>2, <2>1, <2>2, <2>4 DEF Current, TokensOf, TypeOK
  <2> QED
    BY <2>3, <2>5
<1>6. Holds(t)' /\ Current(t)'
  BY <1>2, FinishPlaced DEF Holds, Current, NoArg
<1>7. OneLiveToken'
  BY <1>2 DEF Inv, OneLiveToken
<1>8. TokensHaveOwners'
  BY <1>0, <1>2, <1>3 DEF Inv, TokensHaveOwners, TypeOK, Token
<1> QED
  BY <1>2, <1>4, <1>5, <1>6, <1>7, <1>8, FinishPlaced DEF Inv, CallsInv

LEMMA CommitRequestKeeps == ASSUME Inv, NEW t \in Calls, CommitRequest(t) PROVE Inv'
<1> DEFINE u == arg[t].user
           fresh == [user |-> u, expired |-> FALSE]
<1>0. /\ TypeOK
      /\ pc[t] = "revoked" /\ arg[t].op = "request"
      /\ u \in Users
      /\ account[u] # None /\ rowLock[u] = t
      /\ arg[t].tokens = TokensOf(u)
  BY DEF CommitRequest, Inv, CallsInv, Placed, Holds, Current
<1>1. PICK new \in FreeTokens :
          token' = [k \in TokenIds |-> IF k = new THEN fresh
                                       ELSE IF k \in TokensOf(u) THEN None ELSE token[k]]
  BY <1>0 DEF CommitRequest
<1>2. Unlock(t) /\ Finish(t) /\ UNCHANGED <<account, session>>
  BY DEF CommitRequest
<1>type. fresh \in Token /\ fresh.user = u
  BY <1>0 DEF Token
<1>3. fresh \in Token /\ fresh.user = u /\ fresh # None
  BY <1>type
<1>free. new \in TokenIds /\ token[new] = None /\ \A c \in Calls : arg[c].token # new
  BY DEF FreeTokens
<1> HIDE DEF fresh
<1>4. TypeOK'
  BY <1>0, <1>1, <1>2, <1>3, UnlockKeeps, FinishPlaced DEF TypeOK
<1>5. ASSUME NEW c \in Calls \ {t} PROVE Holds(c)' /\ Current(c)'
  <2>1. pc'[c] = pc[c] /\ arg'[c] = arg[c] /\ Holds(c) /\ Current(c) /\ Placed(c)
    BY <1>2, FinishPlaced DEF Inv, CallsInv
  <2>2. pc[c] \in {"locked", "revoked", "audited"} => arg[c].user # u
    BY <1>0, Exclusive
  <2>3. Holds(c)'
    BY <1>2, <2>1, UnlockKeeps DEF Holds, Placed
  <2>4. pc[c] = "revoked" /\ arg[c].op = "request" => TokensOf(arg[c].user)' = TokensOf(arg[c].user)
    BY <1>1, <1>3, <1>free, <2>1, <2>2 DEF TokensOf
  <2>5. arg[c].op = "reset" =>
          /\ arg[c].token \in TokenIds /\ arg[c].token # new
          /\ token'[arg[c].token] # None => token'[arg[c].token] = token[arg[c].token]
          /\ pc[c] \in {"locked", "revoked"} => token'[arg[c].token] = token[arg[c].token]
    BY <1>1, <1>free, <2>1, <2>2 DEF Current, Placed, TokensOf
  <2>6. Current(c)'
    BY <1>2, <2>1, <2>4, <2>5 DEF Current, SessionsOf
  <2> QED
    BY <2>3, <2>6
<1>6. Holds(t)' /\ Current(t)'
  BY <1>2, FinishPlaced DEF Holds, Current, NoArg
<1>7. OneLiveToken'
  BY <1>1, <1>3, <1>free DEF Inv, OneLiveToken, TokensOf
<1>8. TokensHaveOwners'
  BY <1>0, <1>1, <1>2, <1>3 DEF Inv, TokensHaveOwners
<1> QED
  BY <1>2, <1>4, <1>5, <1>6, <1>7, <1>8, FinishPlaced DEF Inv, CallsInv

LEMMA CommitPasswordKeeps == ASSUME Inv, NEW t \in Calls, CommitPassword(t) PROVE Inv'
<1> DEFINE u == arg[t].user
<1>0. /\ TypeOK
      /\ pc[t] = "revoked" /\ arg[t].op \in {"reset", "change"}
      /\ u \in Users /\ arg[t].password \in Passwords
      /\ account[u] # None /\ rowLock[u] = t
      /\ arg[t].op = "reset" =>
            arg[t].token \in TokenIds /\ token[arg[t].token] # None /\ token[arg[t].token].user = u
      /\ arg[t].op = "change" => arg[t].token = None
  BY DEF CommitPassword, Inv, CallsInv, Placed, Holds, Current
<1>1. PICK new \in FreeSessions :
          session' = [s \in SessionIds |-> IF s = new THEN u
                                           ELSE IF s \in arg[t].sessions THEN None ELSE session[s]]
  BY DEF CommitPassword
<1>2. /\ account' = [account EXCEPT ![u].password = arg[t].password]
      /\ token' = [k \in TokenIds |-> IF k = arg[t].token THEN None ELSE token[k]]
      /\ Unlock(t) /\ Finish(t)
  BY DEF CommitPassword
<1>3. account[u] \in Account /\ [account[u] EXCEPT !.password = arg[t].password] \in Account
  BY <1>0 DEF TypeOK, Account
<1>4. TypeOK'
  BY <1>0, <1>1, <1>2, <1>3, UnlockKeeps, FinishPlaced DEF TypeOK
<1>5. ASSUME NEW c \in Calls \ {t} PROVE Holds(c)' /\ Current(c)'
  <2>1. pc'[c] = pc[c] /\ arg'[c] = arg[c] /\ Holds(c) /\ Current(c) /\ Placed(c)
    BY <1>2, FinishPlaced DEF Inv, CallsInv
  <2>2. pc[c] \in {"locked", "revoked", "audited"} => arg[c].user # u /\ arg[c].user \in Users
    BY <1>0, <2>1, Exclusive DEF Placed
  <2>3. Holds(c)'
    BY <1>0, <1>2, <1>3, <2>1, <2>2, UnlockKeeps DEF Holds, Placed, TypeOK
  <2>4. pc[c] \in {"revoked", "audited"} => SessionsOf(arg[c].user)' \subseteq SessionsOf(arg[c].user)
    BY <1>1, <2>1, <2>2 DEF SessionsOf
  <2>5. pc[c] = "revoked" /\ arg[c].op = "request" => TokensOf(arg[c].user)' = TokensOf(arg[c].user)
    BY <1>0, <1>2, <2>1, <2>2 DEF TokensOf
  <2>6. arg[c].op = "reset" =>
          /\ arg[c].token \in TokenIds
          /\ token'[arg[c].token] # None => token'[arg[c].token] = token[arg[c].token]
          /\ pc[c] \in {"locked", "revoked"} => token'[arg[c].token] = token[arg[c].token]
    BY <1>0, <1>2, <2>1, <2>2 DEF Current, Placed
  <2>7. pc[c] \in {"locked", "revoked"} => account'[arg[c].user] = account[arg[c].user]
    BY <1>0, <1>2, <2>2 DEF TypeOK
  <2>8. Current(c)'
    BY <2>1, <2>4, <2>5, <2>6, <2>7 DEF Current
  <2> QED
    BY <2>3, <2>8
<1>6. Holds(t)' /\ Current(t)'
  BY <1>2, FinishPlaced DEF Holds, Current, NoArg
<1>7. OneLiveToken'
  BY <1>2 DEF Inv, OneLiveToken
<1>8. TokensHaveOwners'
  BY <1>0, <1>2, <1>3 DEF Inv, TokensHaveOwners, TypeOK, Token
<1> QED
  BY <1>2, <1>4, <1>5, <1>6, <1>7, <1>8, FinishPlaced DEF Inv, CallsInv

\* What an administrator's commit does to the row: the password stays.
LEMMA SetColumn ==
    ASSUME NEW row \in Account, NEW op \in AdminOps
    PROVE  LET set == [row EXCEPT ![Column[op]] = Value[op]]
           IN  /\ set \in Account
               /\ set.password = row.password
               /\ op # "suspend" /\ set.status = "suspended" => row.status = "suspended"
<1>1. CASE op = "suspend"
  BY <1>1 DEF Column, Value, Account, Status
<1>2. CASE op = "reinstate"
  BY <1>2 DEF Column, Value, Account, Status
<1>3. CASE op = "alertsOn"
  BY <1>3 DEF Column, Value, Account, Status
<1>4. CASE op = "alertsOff"
  BY <1>4 DEF Column, Value, Account, Status
<1> QED
  BY <1>1, <1>2, <1>3, <1>4 DEF AdminOps

LEMMA CommitAdminKeeps == ASSUME Inv, NEW t \in Calls, CommitAdmin(t) PROVE Inv'
<1> DEFINE u == arg[t].user
           row == [account[u] EXCEPT ![Column[arg[t].op]] = Value[arg[t].op]]
<1>0. /\ TypeOK
      /\ pc[t] = "audited" /\ arg[t].op \in AdminOps
      /\ u \in Users
      /\ account[u] # None /\ account[u] \in Account /\ rowLock[u] = t
  BY DEF CommitAdmin, Inv, CallsInv, Placed, Holds, TypeOK, AdminOps
<1>1. /\ account' = [account EXCEPT ![u] = row]
      /\ session' = [s \in SessionIds |-> IF s \in arg[t].sessions THEN None ELSE session[s]]
      /\ Unlock(t) /\ Finish(t) /\ UNCHANGED token
  BY DEF CommitAdmin
<1>2. row \in Account /\ row.password = account[u].password
  BY <1>0, SetColumn
<1> HIDE DEF row
<1>3. TypeOK'
  BY <1>0, <1>1, <1>2, UnlockKeeps, FinishPlaced DEF TypeOK
<1>4. ASSUME NEW c \in Calls \ {t} PROVE Holds(c)' /\ Current(c)'
  <2>1. pc'[c] = pc[c] /\ arg'[c] = arg[c] /\ Holds(c) /\ Current(c) /\ Placed(c)
    BY <1>1, FinishPlaced DEF Inv, CallsInv
  <2>2. Holds(c)'
    BY <1>0, <1>1, <1>2, <2>1, UnlockKeeps DEF Holds, Placed, TypeOK
  <2>3. SessionsOf(arg[c].user)' \subseteq SessionsOf(arg[c].user) \/ pc[c] = "idle"
    BY <1>1, <2>1 DEF SessionsOf, Placed
  <2>4. pc[c] # "idle" /\ account[arg[c].user] # None =>
            account'[arg[c].user].password = account[arg[c].user].password
    BY <1>0, <1>1, <1>2, <2>1 DEF Placed, TypeOK
  <2>5. Current(c)'
    BY <1>1, <2>1, <2>3, <2>4 DEF Current, Holds, TokensOf
  <2> QED
    BY <2>2, <2>5
<1>5. Holds(t)' /\ Current(t)'
  BY <1>1, FinishPlaced DEF Holds, Current, NoArg
<1>6. OneLiveToken'
  BY <1>1 DEF Inv, OneLiveToken
<1>7. TokensHaveOwners'
  BY <1>0, <1>1, <1>2 DEF Inv, TokensHaveOwners, TypeOK, Token
<1> QED
  BY <1>1, <1>3, <1>4, <1>5, <1>6, <1>7, FinishPlaced DEF Inv, CallsInv

LEMMA ContinueKeeps == ASSUME Inv, NEW t \in Calls, Continue(t) PROVE Inv'
<1> USE DEF Steps
<1>0. /\ TypeOK /\ arg[t] \in Args
      /\ Placed(t) /\ Holds(t) /\ Current(t)
  BY DEF Inv, CallsInv, TypeOK
<1>1. ASSUME Supersede(t) PROVE Inv'
  <2> DEFINE a == [arg[t] EXCEPT !.tokens = TokensOf(arg[t].user)]
  <2>1. /\ pc[t] = "locked" /\ arg[t].op = "request"
        /\ UNCHANGED <<account, session, token, rowLock>>
        /\ pc' = [pc EXCEPT ![t] = "revoked"]
        /\ arg' = [arg EXCEPT ![t] = a]
    BY <1>0, <1>1 DEF Supersede, To, TypeOK
  <2>2. TokensOf(arg[t].user) \subseteq TokenIds
    BY DEF TokensOf
  <2>3. /\ a \in Args /\ a.op = arg[t].op /\ a.user = arg[t].user /\ a.token = arg[t].token
        /\ a.tokens = TokensOf(arg[t].user)
    BY <1>0, <2>2 DEF Args
  <2>4. pc'[t] = "revoked" /\ arg'[t] = a
    BY <1>0, <2>1 DEF TypeOK
  <2> HIDE DEF a
  <2>5. TokensOf(arg[t].user)' = TokensOf(arg[t].user)
    BY <2>1, <2>3, <2>4 DEF TokensOf
  <2>6. Placed(t)' /\ Holds(t)' /\ Current(t)'
    BY <1>0, <2>1, <2>3, <2>4, <2>5 DEF Placed, Holds, Current
  <2> QED
    BY <1>0, <2>1, <2>3, <2>6, AdvanceKeeps DEF TypeOK
<1>2. ASSUME RevokeSessions(t) PROVE Inv'
  <2> DEFINE a == [arg[t] EXCEPT !.sessions = SessionsOf(arg[t].user)]
  <2>1. /\ pc[t] = "locked" /\ arg[t].op \in {"reset", "change", "suspend"}
        /\ UNCHANGED <<account, session, token, rowLock>>
        /\ pc' = [pc EXCEPT ![t] = "revoked"]
        /\ arg' = [arg EXCEPT ![t] = a]
    BY <1>0, <1>2 DEF RevokeSessions, To, TypeOK
  <2>2. SessionsOf(arg[t].user) \subseteq SessionIds
    BY DEF SessionsOf
  <2>3. /\ a \in Args /\ a.op = arg[t].op /\ a.user = arg[t].user /\ a.token = arg[t].token
        /\ a.password = arg[t].password /\ a.current = arg[t].current
        /\ a.sessions = SessionsOf(arg[t].user)
    BY <1>0, <2>2 DEF Args
  <2>4. pc'[t] = "revoked" /\ arg'[t] = a
    BY <1>0, <2>1 DEF TypeOK
  <2> HIDE DEF a
  <2>5. SessionsOf(arg[t].user)' = SessionsOf(arg[t].user)
    BY <2>1, <2>3, <2>4 DEF SessionsOf
  <2>6. Placed(t)' /\ Holds(t)' /\ Current(t)'
    BY <1>0, <2>1, <2>3, <2>4, <2>5 DEF Placed, Holds, Current
  <2> QED
    BY <1>0, <2>1, <2>3, <2>6, AdvanceKeeps DEF TypeOK
<1> QED
  BY <1>1, <1>2, CommitRegisterKeeps, CommitRequestKeeps, CommitPasswordKeeps, CommitAdminKeeps
     DEF Continue

-----------------------------------------------------------------------------
(* Steps of no call *)

LEMMA OutsideKeeps ==
    ASSUME Inv,
           \/ \E s \in SessionIds : EndSession(s)
           \/ \E k \in TokenIds : ExpireToken(k)
           \/ \E u \in Users : CloseAccount(u)
           \/ UNCHANGED vars
    PROVE  Inv'
<1>0. TypeOK /\ \A c \in Calls : Placed(c) /\ Holds(c) /\ Current(c)
  BY DEF Inv, CallsInv
<1>1. ASSUME NEW s \in SessionIds, EndSession(s) PROVE Inv'
  <2>1. session' = [session EXCEPT ![s] = None] /\ UNCHANGED <<account, rowLock, token, pc, arg>>
    BY <1>1 DEF EndSession
  <2>2. TypeOK'
    BY <1>0, <2>1 DEF TypeOK
  <2>3. ASSUME NEW c \in Calls PROVE Placed(c)' /\ Holds(c)' /\ Current(c)'
    <3>1. pc[c] # "idle" => SessionsOf(arg[c].user)' \subseteq SessionsOf(arg[c].user)
      BY <1>0, <2>1 DEF SessionsOf, Placed, TypeOK
    <3> QED
      BY <1>0, <2>1, <3>1 DEF Placed, Holds, Current, TokensOf
  <2> QED
    BY <2>1, <2>2, <2>3 DEF Inv, CallsInv, OneLiveToken, TokensHaveOwners
<1>2. ASSUME NEW k \in TokenIds, ExpireToken(k) PROVE Inv'
  <2>1. /\ token[k] # None /\ token' = [token EXCEPT ![k].expired = TRUE]
        /\ UNCHANGED <<account, rowLock, session, pc, arg>>
    BY <1>2 DEF ExpireToken
  <2>2. token[k] \in Token /\ [token[k] EXCEPT !.expired = TRUE] \in Token
        /\ [token[k] EXCEPT !.expired = TRUE].user = token[k].user
    BY <1>0, <2>1 DEF TypeOK, Token
  <2>3. \A i \in TokenIds : /\ token'[i] = None <=> token[i] = None
                            /\ token[i] # None => token'[i].user = token[i].user
    BY <1>0, <2>1, <2>2 DEF TypeOK
  <2>4. TypeOK'
    BY <1>0, <2>1, <2>2 DEF TypeOK
  <2>5. ASSUME NEW c \in Calls PROVE Placed(c)' /\ Holds(c)' /\ Current(c)'
    BY <1>0, <2>1, <2>3 DEF Placed, Holds, Current, TokensOf, SessionsOf
  <2> QED
    BY <2>1, <2>3, <2>4, <2>5 DEF Inv, CallsInv, OneLiveToken, TokensHaveOwners
<1>3. ASSUME NEW u \in Users, CloseAccount(u) PROVE Inv'
  <2>1. /\ account[u] # None /\ account' = [account EXCEPT ![u].status = "closed"]
        /\ UNCHANGED <<rowLock, session, token, pc, arg>>
    BY <1>3 DEF CloseAccount
  <2>2. account[u] \in Account /\ [account[u] EXCEPT !.status = "closed"] \in Account
        /\ [account[u] EXCEPT !.status = "closed"].password = account[u].password
    BY <1>0, <2>1 DEF TypeOK, Account, Status
  <2>3. \A v \in Users : /\ account'[v] = None <=> account[v] = None
                         /\ account[v] # None => account'[v].password = account[v].password
    BY <1>0, <2>1, <2>2 DEF TypeOK
  <2>4. TypeOK'
    BY <1>0, <2>1, <2>2 DEF TypeOK
  <2>5. ASSUME NEW c \in Calls PROVE Placed(c)' /\ Holds(c)' /\ Current(c)'
    BY <1>0, <2>1, <2>3 DEF Placed, Holds, Current, TokensOf, SessionsOf, Steps, TypeOK
  <2>6. TokensHaveOwners'
    BY <1>0, <2>1, <2>3 DEF Inv, TokensHaveOwners, TypeOK, Token
  <2> QED
    BY <2>1, <2>4, <2>5, <2>6 DEF Inv, CallsInv, OneLiveToken
<1>4. ASSUME UNCHANGED vars PROVE Inv'
  BY <1>4 DEF vars, Inv, TypeOK, CallsInv, Placed, Holds, Current, OneLiveToken, TokensHaveOwners,
              SessionsOf, TokensOf
<1> QED
  BY <1>1, <1>2, <1>3, <1>4

LEMMA InvNext == Inv /\ [Next]_vars => Inv'
<1> SUFFICES ASSUME Inv, [Next]_vars PROVE Inv'
  OBVIOUS
<1>1. ASSUME NEW t \in Calls, Abort(t) \/ Victim(t) PROVE Inv'
  BY <1>1, FinishKeeps DEF Abort, Victim
<1> QED
  BY <1>1, BeginKeeps, ContinueKeeps, BlockingKeeps, OutsideKeeps DEF Next

LEMMA Invariant == Spec => []Inv
BY InvInit, InvNext, PTL DEF Spec

-----------------------------------------------------------------------------
(* Theorems *)

\* Every reachable state of the handlers of accounts is well typed.
THEOREM TypeCorrect == Spec => []TypeOK
BY Invariant, PTL DEF Inv

\* The steps that change a users row.
LEMMA RowWriters ==
    ASSUME [Next]_vars
    PROVE  \/ UNCHANGED account
           \/ \E t \in Calls : CommitRegister(t) \/ CommitPassword(t) \/ CommitAdmin(t)
           \/ \E u \in Users : CloseAccount(u)
<1>1. ASSUME NEW t \in Calls, Begin(t) \/ Blocking(t) \/ Victim(t) \/ Abort(t) PROVE UNCHANGED account
  BY <1>1 DEF Begin, LockForRequest, StartRegister, StartLogin, StartReset, StartChange, StartAdmin,
              Blocking, InsertSession, LockForPassword, RefusePassword, LockForAdmin, RefuseAdmin,
              InsertAudit, Victim, Abort
<1>2. ASSUME NEW t \in Calls, Supersede(t) \/ CommitRequest(t) \/ RevokeSessions(t)
      PROVE  UNCHANGED account
  BY <1>2 DEF Supersede, CommitRequest, RevokeSessions
<1>3. ASSUME \/ \E s \in SessionIds : EndSession(s)
             \/ \E k \in TokenIds : ExpireToken(k)
             \/ UNCHANGED vars
      PROVE  UNCHANGED account
  BY <1>3 DEF EndSession, ExpireToken, vars
<1> QED
  BY <1>1, <1>2, <1>3 DEF Next, Continue

\* What CommitRegister, CommitPassword, CommitAdmin and CloseAccount do to a row
\* that was there.
LEMMA RowChanges ==
    ASSUME Inv, NEW u \in Users, account[u] # None
    PROVE  /\ \A t \in Calls : CommitRegister(t) => account'[u] = account[u]
           /\ \A t \in Calls : CommitPassword(t) =>
                 /\ account'[u] # None
                 /\ account'[u].status = account[u].status
                 /\ arg[t].user # u => account'[u] = account[u]
           /\ \A t \in Calls : CommitAdmin(t) =>
                 /\ account'[u] # None
                 /\ account'[u].password = account[u].password
                 /\ arg[t].user # u => account'[u] = account[u]
                 /\ arg[t].op # "suspend" /\ account'[u].status = "suspended" =>
                       account[u].status = "suspended"
           /\ \A v \in Users : CloseAccount(v) =>
                 /\ account'[u] # None
                 /\ account'[u].password = account[u].password
                 /\ account'[u].status = "suspended" => account[u].status = "suspended"
<1>0. TypeOK /\ account[u] \in Account
  BY DEF Inv, TypeOK
<1>1. ASSUME NEW t \in Calls, CommitRegister(t) PROVE account'[u] = account[u]
  BY <1>0, <1>1 DEF CommitRegister, Inv, CallsInv, Holds, TypeOK
<1>2. ASSUME NEW t \in Calls, CommitPassword(t)
      PROVE  /\ account'[u] # None
             /\ account'[u].status = account[u].status
             /\ arg[t].user # u => account'[u] = account[u]
  <2>1. /\ account' = [account EXCEPT ![arg[t].user].password = arg[t].password]
        /\ arg[t].password \in Passwords
    BY <1>2 DEF CommitPassword, Inv, CallsInv, Placed
  <2>2. [account[u] EXCEPT !.password = arg[t].password] \in Account
    BY <1>0, <2>1 DEF Account
  <2> QED
    BY <1>0, <2>1, <2>2 DEF TypeOK, Account
<1>3. ASSUME NEW t \in Calls, CommitAdmin(t)
      PROVE  /\ account'[u] # None
             /\ account'[u].password = account[u].password
             /\ arg[t].user # u => account'[u] = account[u]
             /\ arg[t].op # "suspend" /\ account'[u].status = "suspended" =>
                   account[u].status = "suspended"
  <2> DEFINE row == [account[u] EXCEPT ![Column[arg[t].op]] = Value[arg[t].op]]
  <2>1. arg[t].op \in AdminOps
    BY <1>3 DEF CommitAdmin, Inv, CallsInv, Placed
  <2>2. account'[u] = IF arg[t].user = u THEN row ELSE account[u]
    BY <1>0, <1>3 DEF CommitAdmin, TypeOK
  <2>3. /\ row \in Account /\ row.password = account[u].password
        /\ arg[t].op # "suspend" /\ row.status = "suspended" => account[u].status = "suspended"
    BY <1>0, <2>1, SetColumn
  <2> HIDE DEF row
  <2> QED
    BY <1>0, <2>2, <2>3
<1>4. ASSUME NEW v \in Users, CloseAccount(v)
      PROVE  /\ account'[u] # None
             /\ account'[u].password = account[u].password
             /\ account'[u].status = "suspended" => account[u].status = "suspended"
  <2>1. [account[u] EXCEPT !.status = "closed"] \in Account
    BY <1>0 DEF Account, Status
  <2> QED
    BY <1>0, <1>4, <2>1 DEF CloseAccount, TypeOK, Account
<1> QED
  BY <1>1, <1>2, <1>3, <1>4

\* A password changes only by the password in force or by an unused token, for
\* any number of calls: what a call verified under the lock still holds when it
\* commits.
THEOREM PasswordsAreProven == Spec => PasswordsChangeByProof
<1> DEFINE Step ==
      \A u \in Users : account[u] # None =>
          /\ account'[u] # None
          /\ account'[u].password # account[u].password =>
                \E t \in Calls :
                    /\ pc[t] # "idle" /\ pc'[t] = "idle"
                    /\ arg[t].user = u
                    /\ \/ arg[t].op = "change" /\ arg[t].current = account[u].password
                       \/ arg[t].op = "reset" /\ arg[t].token \in TokensOf(u)
<1>1. ASSUME Inv, [Next]_vars PROVE Step
  <2> SUFFICES ASSUME NEW u \in Users, account[u] # None
               PROVE  /\ account'[u] # None
                      /\ account'[u].password # account[u].password =>
                            \E t \in Calls :
                                /\ pc[t] # "idle" /\ pc'[t] = "idle"
                                /\ arg[t].user = u
                                /\ \/ arg[t].op = "change" /\ arg[t].current = account[u].password
                                   \/ arg[t].op = "reset" /\ arg[t].token \in TokensOf(u)
    OBVIOUS
  <2>1. ASSUME NEW t \in Calls, CommitPassword(t), arg[t].user = u
        PROVE  /\ pc[t] # "idle" /\ pc'[t] = "idle"
               /\ \/ arg[t].op = "change" /\ arg[t].current = account[u].password
                  \/ arg[t].op = "reset" /\ arg[t].token \in TokensOf(u)
    <3>1. pc[t] = "revoked" /\ arg[t].op \in {"reset", "change"} /\ Finish(t)
      BY <2>1 DEF CommitPassword
    <3>2. pc'[t] = "idle"
      BY <1>1, <3>1, FinishPlaced
    <3>3. Placed(t) /\ Current(t)
      BY <1>1 DEF Inv, CallsInv
    <3> QED
      BY <2>1, <3>1, <3>2, <3>3 DEF Placed, Current, TokensOf
  <2> QED
    BY <1>1, <2>1, RowWriters, RowChanges
<1> QED
  BY <1>1, Invariant, PTL DEF Spec, PasswordsChangeByProof

\* No session outlives the change of a password or a suspension, whatever logins
\* interleave: none can be inserted between the revocation and its commit.
THEOREM RevocationsLeaveNone == Spec => RevocationLeavesNone
<1> DEFINE Revoked(u) == /\ account[u] # None
                         /\ \/ account'[u].password # account[u].password
                            \/ account'[u].status = "suspended" /\ account[u].status # "suspended"
           Step == \A u \in Users : Revoked(u) => \A s \in SessionsOf(u) : session'[s] # u
<1>1. ASSUME Inv, [Next]_vars PROVE Step
  <2> SUFFICES ASSUME NEW u \in Users, Revoked(u), NEW s \in SessionsOf(u) PROVE session'[s] # u
    OBVIOUS
  <2>0. s \in SessionIds /\ session[s] = u /\ u # None
    BY DEF SessionsOf
  <2>1. ASSUME NEW t \in Calls, CommitPassword(t), arg[t].user = u PROVE session'[s] # u
    <3>1. s \in arg[t].sessions
      BY <1>1, <2>1 DEF CommitPassword, Inv, CallsInv, Current
    <3>2. \A new \in FreeSessions : new # s
      BY <2>0 DEF FreeSessions
    <3> QED
      BY <2>0, <2>1, <3>1, <3>2 DEF CommitPassword
  <2>2. ASSUME NEW t \in Calls, CommitAdmin(t), arg[t].user = u, arg[t].op = "suspend"
        PROVE  session'[s] # u
    <3>1. s \in arg[t].sessions
      BY <1>1, <2>2 DEF CommitAdmin, Inv, CallsInv, Current
    <3> QED
      BY <2>0, <2>2, <3>1 DEF CommitAdmin
  <2> QED
    BY <1>1, <2>1, <2>2, RowWriters, RowChanges
<1> QED
  BY <1>1, Invariant, PTL DEF Spec, RevocationLeavesNone

\* A reset leaves its user no token to reset the password with again.
THEOREM ResetsSpendTokens == Spec => ResetsLeaveNoToken
<1> DEFINE Step ==
      \A t \in Calls :
          arg[t].op = "reset" /\ pc'[t] = "idle" /\ session' # session
          => \A k \in TokenIds : token'[k] = None \/ token'[k].user # arg[t].user
<1>1. ASSUME Inv, [Next]_vars PROVE Step
  <2> SUFFICES ASSUME NEW t \in Calls, arg[t].op = "reset", pc'[t] = "idle", session' # session,
                      NEW k \in TokenIds, token'[k] # None
               PROVE  token'[k].user # arg[t].user
    OBVIOUS
  <2>0. pc[t] # "idle"
    BY <1>1 DEF Inv, CallsInv, Placed, NoArg
  <2>1. CommitPassword(t)
    <3>1. ASSUME NEW c \in Calls, Continue(c) \/ InsertSession(c) PROVE c = t
      <4>1. pc'[c] \in {"idle", "revoked"} /\ \A d \in Calls \ {c} : pc'[d] = pc[d]
        BY <1>1, <3>1 DEF Continue, CommitRegister, Supersede, CommitRequest, RevokeSessions,
                          CommitPassword, CommitAdmin, InsertSession, Finish, To, Inv, TypeOK
      <4> QED
        BY <2>0, <4>1
    <3>2. ASSUME NEW c \in Calls,
                 Begin(c) \/ Supersede(c) \/ CommitRequest(c) \/ RevokeSessions(c) \/ LockForPassword(c)
                 \/ RefusePassword(c) \/ LockForAdmin(c) \/ RefuseAdmin(c) \/ InsertAudit(c)
                 \/ Victim(c) \/ Abort(c)
          PROVE  UNCHANGED session
      BY <3>2 DEF Begin, LockForRequest, StartRegister, StartLogin, StartReset, StartChange, StartAdmin,
                  Supersede, CommitRequest, RevokeSessions, LockForPassword, RefusePassword,
                  LockForAdmin, RefuseAdmin, InsertAudit, Victim, Abort
    <3>3. ASSUME \E s \in SessionIds : EndSession(s) PROVE FALSE
      BY <2>0, <3>3 DEF EndSession
    <3>4. ASSUME \/ \E i \in TokenIds : ExpireToken(i)
                 \/ \E u \in Users : CloseAccount(u)
                 \/ UNCHANGED vars
          PROVE  FALSE
      BY <3>4 DEF ExpireToken, CloseAccount, vars
    <3>5. ~CommitRegister(t) /\ ~CommitAdmin(t) /\ ~InsertSession(t)
      BY <1>1 DEF CommitRegister, CommitAdmin, InsertSession, AdminOps, Inv, CallsInv, Placed
    <3> QED
      BY <1>1, <3>1, <3>2, <3>3, <3>4, <3>5 DEF Next, Continue, Blocking
  <2>2. arg[t].token \in TokenIds /\ token[arg[t].token] # None /\ token[arg[t].token].user = arg[t].user
    BY <1>1, <2>1 DEF CommitPassword, Inv, CallsInv, Placed, Current
  <2>3. k # arg[t].token /\ token'[k] = token[k]
    BY <2>1 DEF CommitPassword
  <2> QED
    BY <1>1, <2>2, <2>3 DEF Inv, OneLiveToken
<1> QED
  BY <1>1, Invariant, PTL DEF Spec, ResetsLeaveNoToken

-----------------------------------------------------------------------------
(* The audit log *)

Columns == {"status", "alerts"}
Settings == Status \cup {"on", "off"}
Entry == [column : Columns, before : Settings, after : Settings]

\* What an administrator's call read is still in the row it changes, and is not an
\* operator's "closed".
Audited(t) ==
    pc[t] \in {"locked", "revoked", "audited"} /\ arg[t].op \in AdminOps =>
        /\ arg[t].before = account[arg[t].user]
        /\ account[arg[t].user][Column[arg[t].op]] # "closed"

AuditInv ==
    /\ Inv
    /\ \A t \in Calls : Audited(t)
    /\ log \in [Users -> Seq(Entry)]
    /\ AuditChains

\* One more entry leaves the others as they were, is the last word on its own
\* column, and says nothing about the other one.
LEMMA AppendTells ==
    ASSUME NEW entries \in Seq(Entry), NEW e \in Entry
    PROVE  LET more == Append(entries, e)
           IN  /\ \A column, value : \A n \in 0 .. Len(entries) :
                     Tells(entries, n, column, value) => Tells(more, n, column, value)
               /\ Tells(more, Len(more), e.column, e.after)
               /\ \A column, value :
                     column # e.column /\ Tells(entries, Len(entries), column, value)
                     => Tells(more, Len(more), column, value)
<1> DEFINE more == Append(entries, e)
<1>1. /\ Len(more) = Len(entries) + 1 /\ Len(entries) \in Nat
      /\ more[Len(more)] = e
      /\ \A i \in 1 .. Len(entries) : more[i] = entries[i]
  OBVIOUS
<1> HIDE DEF more
<1>2. ASSUME NEW n \in 0 .. Len(entries), NEW column, NEW value, Tells(entries, n, column, value)
      PROVE  Tells(more, n, column, value)
  <2>1. \A i \in 1 .. n : more[i] = entries[i]
    BY <1>1
  <2>2. \A i \in 1 .. n : \A j \in i + 1 .. n : more[j] = entries[j]
    BY <2>1
  <2> QED
    BY <1>2, <2>1, <2>2 DEF Tells
<1>3. Tells(more, Len(more), e.column, e.after)
  <2>1. Len(more) \in 1 .. Len(more) /\ more[Len(more)].column = e.column
    BY <1>1
  <2>2. \A i \in 1 .. Len(more) : i # Len(more) => Len(more) \in i + 1 .. Len(more)
    BY <1>1
  <2> QED
    BY <1>1, <2>1, <2>2 DEF Tells
<1>4. ASSUME NEW column, NEW value, column # e.column, Tells(entries, Len(entries), column, value)
      PROVE  Tells(more, Len(more), column, value)
  <2>1. \A i \in 1 .. Len(more) : more[i].column = column => i \in 1 .. Len(entries)
    BY <1>1, <1>4
  <2>2. (\A i \in 1 .. Len(more) : more[i].column # column)
        => \A i \in 1 .. Len(entries) : entries[i].column # column
    BY <1>1
  <2>3. ASSUME NEW i \in 1 .. Len(more), more[i].column = column,
               \A j \in i + 1 .. Len(more) : more[j].column # column
        PROVE  value = more[i].after
    <3>1. i \in 1 .. Len(entries) /\ more[i] = entries[i]
      BY <1>1, <2>1, <2>3
    <3>2. \A j \in i + 1 .. Len(entries) : j \in i + 1 .. Len(more) /\ more[j] = entries[j]
      BY <1>1, <3>1
    <3> QED
      BY <1>4, <2>3, <3>1, <3>2 DEF Tells
  <2> QED
    BY <1>4, <2>2, <2>3 DEF Tells
<1> QED
  BY <1>2, <1>3, <1>4 DEF more

\* A row the columns of which stay, or are closed, is told as before.
LEMMA ChainsKept ==
    ASSUME AuditInv, UNCHANGED log,
           \A u \in Users :
              \/ account'[u] = account[u]
              \/ /\ account[u] # None /\ account'[u] # None
                 /\ \A column \in Columns :
                       account'[u][column] \in {account[u][column], "closed"}
    PROVE  AuditChains'
<1> SUFFICES ASSUME NEW u \in Users
             PROVE  /\ \A i \in DOMAIN log[u] :
                          Tells(log[u], i - 1, log[u][i].column, log[u][i].before)
                    /\ IF account'[u] = None THEN log[u] = <<>>
                       ELSE \A column \in Columns :
                               \/ account'[u][column] = "closed"
                               \/ Tells(log[u], Len(log[u]), column, account'[u][column])
  BY DEF AuditChains, Columns
<1> QED
  BY DEF AuditInv, AuditChains, Columns

\* The steps that write the audit log.
LEMMA LogWriters ==
    ASSUME [Next]_vars
    PROVE  UNCHANGED log \/ \E t \in Calls : CommitAdmin(t)
<1>1. ASSUME NEW t \in Calls, Begin(t) \/ Blocking(t) \/ Victim(t) \/ Abort(t) PROVE UNCHANGED log
  BY <1>1 DEF Begin, LockForRequest, StartRegister, StartLogin, StartReset, StartChange, StartAdmin,
              Blocking, InsertSession, LockForPassword, RefusePassword, LockForAdmin, RefuseAdmin,
              InsertAudit, Victim, Abort
<1>2. ASSUME NEW t \in Calls, Continue(t), ~CommitAdmin(t) PROVE UNCHANGED log
  BY <1>2 DEF Continue, CommitRegister, Supersede, CommitRequest, RevokeSessions, CommitPassword
<1>3. ASSUME \/ \E s \in SessionIds : EndSession(s)
             \/ \E k \in TokenIds : ExpireToken(k)
             \/ \E u \in Users : CloseAccount(u)
             \/ UNCHANGED vars
      PROVE  UNCHANGED log
  BY <1>3 DEF EndSession, ExpireToken, CloseAccount, vars
<1> QED
  BY <1>1, <1>2, <1>3 DEF Next

\* Nobody changes a row under the call that holds it.
LEMMA HeldRowsStay ==
    ASSUME Inv, [Next]_vars,
           NEW c \in Calls, pc[c] \in {"locked", "revoked", "audited"}, pc'[c] # "idle"
    PROVE  account'[arg[c].user] = account[arg[c].user]
<1> DEFINE u == arg[c].user
<1>0. TypeOK /\ u \in Users /\ rowLock[u] = c /\ c # None
  BY DEF Inv, CallsInv, Placed, Holds
<1>1. ASSUME NEW t \in Calls, CommitRegister(t) \/ CommitPassword(t) \/ CommitAdmin(t)
      PROVE  account'[u] = account[u]
  <2>1. pc[t] \in {"locked", "revoked", "audited"} /\ Finish(t)
    BY <1>1 DEF CommitRegister, CommitPassword, CommitAdmin
  <2>2. t # c
    BY <1>0, <2>1, FinishPlaced
  <2>3. arg[t].user # u
    BY <2>1, <2>2, Exclusive
  <2>4. \/ \E v : account' = [account EXCEPT ![arg[t].user] = v]
    BY <1>1 DEF CommitRegister, CommitPassword, CommitAdmin
  <2> QED
    BY <1>0, <2>3, <2>4 DEF TypeOK
<1>2. ASSUME NEW v \in Users, CloseAccount(v) PROVE account'[u] = account[u]
  BY <1>0, <1>2 DEF CloseAccount, TypeOK
<1> QED
  BY <1>1, <1>2, RowWriters

\* Where the calls of administrators come from: a call is past its lock by the
\* lock's own step, or was and goes on with what it read.
LEMMA AdminSteps ==
    ASSUME Inv, [Next]_vars,
           NEW c \in Calls, pc'[c] \in {"locked", "revoked", "audited"}, arg'[c].op \in AdminOps
    PROVE  \/ LockForAdmin(c)
           \/ /\ pc[c] \in {"locked", "revoked", "audited"}
              /\ arg'[c].op = arg[c].op /\ arg'[c].user = arg[c].user /\ arg'[c].before = arg[c].before
<1>0. TypeOK /\ arg[c] \in Args
  BY DEF Inv, TypeOK
<1>1. ASSUME NEW t \in Calls,
             Begin(t) \/ Continue(t) \/ Blocking(t) \/ Victim(t) \/ Abort(t), t # c
      PROVE  pc'[c] = pc[c] /\ arg'[c] = arg[c]
  BY <1>0, <1>1 DEF Begin, LockForRequest, StartRegister, StartLogin, StartReset, StartChange, StartAdmin,
              Blocking, InsertSession, LockForPassword, RefusePassword, LockForAdmin, RefuseAdmin,
              InsertAudit, Victim, Abort, Continue, CommitRegister, Supersede, CommitRequest,
              RevokeSessions, CommitPassword, CommitAdmin, Start, To, Finish, TypeOK
<1>2. ASSUME Begin(c) PROVE FALSE
  <2>1. ASSUME NEW u \in Users, LockForRequest(c, u) PROVE FALSE
    BY <1>0, <2>1 DEF LockForRequest, Start, TypeOK, NoArg, AdminOps
  <2>2. ASSUME NEW u \in Users, NEW p \in Passwords, StartRegister(c, u, p) PROVE FALSE
    BY <1>0, <2>2 DEF StartRegister, Start, TypeOK, NoArg, AdminOps
  <2>3. pc'[c] = "waiting"
    BY <1>0, <1>2, <2>1, <2>2
       DEF Begin, StartLogin, StartReset, StartChange, StartAdmin, Start, TypeOK
  <2> QED
    BY <2>3
<1>3. ASSUME Finish(c) PROVE FALSE
  BY <1>3, FinishPlaced
<1>4. ASSUME Supersede(c) \/ LockForPassword(c) PROVE FALSE
  BY <1>0, <1>4 DEF Supersede, LockForPassword, To, TypeOK, AdminOps, Args
<1>5. ASSUME RevokeSessions(c) \/ InsertAudit(c)
      PROVE  /\ pc[c] \in {"locked", "revoked", "audited"}
             /\ arg'[c].op = arg[c].op /\ arg'[c].user = arg[c].user /\ arg'[c].before = arg[c].before
  BY <1>0, <1>5 DEF RevokeSessions, InsertAudit, To, TypeOK, Args
<1>6. ASSUME UNCHANGED <<pc, arg>>
      PROVE  /\ pc[c] \in {"locked", "revoked", "audited"}
             /\ arg'[c].op = arg[c].op /\ arg'[c].user = arg[c].user /\ arg'[c].before = arg[c].before
  BY <1>6
<1>7. ASSUME \/ \E s \in SessionIds : EndSession(s)
             \/ \E k \in TokenIds : ExpireToken(k)
             \/ \E u \in Users : CloseAccount(u)
             \/ UNCHANGED vars
      PROVE  UNCHANGED <<pc, arg>>
  BY <1>7 DEF EndSession, ExpireToken, CloseAccount, vars
<1>8. Continue(c) \/ Blocking(c) \/ Victim(c) \/ Abort(c) =>
         \/ Finish(c) \/ Supersede(c) \/ LockForPassword(c) \/ RevokeSessions(c) \/ InsertAudit(c)
         \/ LockForAdmin(c)
  BY DEF Continue, Blocking, CommitRegister, CommitRequest, CommitPassword, CommitAdmin, InsertSession,
         RefusePassword, RefuseAdmin, Victim, Abort
<1> QED
  BY <1>1, <1>2, <1>3, <1>4, <1>5, <1>6, <1>7, <1>8 DEF Next

\* An administrator's commit appends the change it makes, from what the row showed.
LEMMA CommitAdminChains ==
    ASSUME AuditInv, NEW t \in Calls, CommitAdmin(t)
    PROVE  log' \in [Users -> Seq(Entry)] /\ AuditChains'
<1> DEFINE u == arg[t].user
           column == Column[arg[t].op]
           value == Value[arg[t].op]
           e == [column |-> column, before |-> account[u][column], after |-> value]
<1>0. /\ TypeOK /\ log \in [Users -> Seq(Entry)]
      /\ arg[t].op \in AdminOps /\ u \in Users
      /\ account[u] # None /\ account[u] \in Account
      /\ arg[t].before = account[u] /\ account[u][column] # "closed"
  BY DEF CommitAdmin, AuditInv, Inv, CallsInv, Placed, Holds, Audited, TypeOK, AdminOps
<1>1. column \in Columns /\ value \in Settings /\ account[u][column] \in Settings
  BY <1>0 DEF Column, Value, Columns, Settings, AdminOps, Account, Status
<1>2. /\ account' = [account EXCEPT ![u][column] = value]
      /\ log' = [log EXCEPT ![u] = Append(log[u], e)]
  BY <1>0 DEF CommitAdmin
<1>3. e \in Entry /\ e.column = column /\ e.before = account[u][column] /\ e.after = value
  BY <1>1 DEF Entry
<1>4. /\ account'[u] # None /\ account'[u][column] = value
      /\ \A other \in Columns \ {column} : account'[u][other] = account[u][other]
  <2>1. account'[u] = [account[u] EXCEPT ![column] = value]
    BY <1>0, <1>2 DEF TypeOK
  <2>2. [account[u] EXCEPT ![column] = value] \in Account
    BY <1>0, SetColumn
  <2>3. Columns \subseteq DOMAIN account[u]
    BY <1>0 DEF Columns, Account
  <2> QED
    BY <1>1, <2>1, <2>2, <2>3
<1> HIDE DEF e, column, value
<1>5. log' \in [Users -> Seq(Entry)]
  BY <1>0, <1>2, <1>3
<1>6. /\ log'[u] = Append(log[u], e)
      /\ \A v \in Users \ {u} : log'[v] = log[v] /\ account'[v] = account[v]
  BY <1>0, <1>2 DEF TypeOK
<1>7. /\ \A i \in DOMAIN log[u] : Tells(log[u], i - 1, log[u][i].column, log[u][i].before)
      /\ \A any \in Columns :
            account[u][any] = "closed" \/ Tells(log[u], Len(log[u]), any, account[u][any])
  BY <1>0 DEF AuditInv, AuditChains, Columns
<1>8. \A i \in DOMAIN log'[u] : Tells(log'[u], i - 1, log'[u][i].column, log'[u][i].before)
  <2> SUFFICES ASSUME NEW i \in DOMAIN log'[u]
               PROVE  Tells(log'[u], i - 1, log'[u][i].column, log'[u][i].before)
    OBVIOUS
  <2>1. i \in 1 .. Len(log[u]) + 1 /\ i - 1 \in 0 .. Len(log[u])
    BY <1>0, <1>3, <1>6
  <2>2. CASE i \in 1 .. Len(log[u])
    <3>1. log'[u][i] = log[u][i] /\ i \in DOMAIN log[u]
      BY <1>0, <1>3, <1>6, <2>2
    <3>2. Tells(log[u], i - 1, log[u][i].column, log[u][i].before)
      BY <1>7, <3>1
    <3> QED
      BY <1>0, <1>3, <1>6, <2>1, <3>1, <3>2, AppendTells
  <2>3. CASE i = Len(log[u]) + 1
    <3>1. log'[u][i] = e /\ i - 1 = Len(log[u])
      BY <1>0, <1>3, <1>6, <2>3
    <3>2. Tells(log[u], Len(log[u]), column, account[u][column])
      BY <1>0, <1>1, <1>7 DEF column
    <3> QED
      BY <1>0, <1>3, <1>6, <2>1, <3>1, <3>2, AppendTells
  <2> QED
    BY <2>1, <2>2, <2>3
<1>9. \A any \in Columns :
         account'[u][any] = "closed" \/ Tells(log'[u], Len(log'[u]), any, account'[u][any])
  <2>1. Tells(log'[u], Len(log'[u]), column, account'[u][column])
    BY <1>0, <1>3, <1>4, <1>6, AppendTells
  <2>2. ASSUME NEW any \in Columns \ {column}, account[u][any] # "closed"
        PROVE  Tells(log'[u], Len(log'[u]), any, account'[u][any])
    <3>1. Tells(log[u], Len(log[u]), any, account[u][any])
      BY <1>7, <2>2
    <3> QED
      BY <1>0, <1>3, <1>4, <1>6, <2>2, <3>1, AppendTells
  <2> QED
    BY <1>4, <2>1, <2>2
<1>10. AuditChains'
  <2> SUFFICES ASSUME NEW v \in Users
               PROVE  /\ \A i \in DOMAIN log'[v] : Tells(log'[v], i - 1, log'[v][i].column, log'[v][i].before)
                      /\ IF account'[v] = None THEN log'[v] = <<>>
                         ELSE \A any \in Columns :
                                 \/ account'[v][any] = "closed"
                                 \/ Tells(log'[v], Len(log'[v]), any, account'[v][any])
    BY DEF AuditChains, Columns
  <2>1. CASE v = u
    BY <1>4, <1>8, <1>9, <2>1
  <2>2. CASE v # u
    <3>1. log'[v] = log[v] /\ account'[v] = account[v]
      BY <1>6, <2>2
    <3> QED
      BY <3>1 DEF AuditInv, AuditChains, Columns
  <2> QED
    BY <2>1, <2>2
<1> QED
  BY <1>5, <1>10

LEMMA AuditInit == Init => AuditInv
<1> SUFFICES ASSUME Init PROVE AuditInv
  OBVIOUS
<1>1. log \in [Users -> Seq(Entry)] /\ \A u \in Users : log[u] = <<>>
  BY DEF Init
<1>2. \A u \in Users : account[u] \in {None, Fresh(FirstPassword)}
  BY DEF Init
<1>3. \A column : Tells(<<>>, 0, column, Fresh(FirstPassword)[column])
  BY DEF Tells
<1>4. AuditChains
  BY <1>1, <1>2, <1>3 DEF AuditChains
<1>5. \A t \in Calls : Audited(t)
  BY DEF Init, Audited
<1> QED
  BY <1>1, <1>4, <1>5, InvInit DEF AuditInv

LEMMA AuditNext == AuditInv /\ [Next]_vars => AuditInv'
<1> SUFFICES ASSUME AuditInv, [Next]_vars PROVE AuditInv'
  OBVIOUS
<1>0. Inv /\ Inv' /\ TypeOK
  BY InvNext DEF AuditInv, Inv
<1>1. ASSUME NEW c \in Calls PROVE Audited(c)'
  <2> SUFFICES ASSUME pc'[c] \in {"locked", "revoked", "audited"}, arg'[c].op \in AdminOps
               PROVE  /\ arg'[c].before = account'[arg'[c].user]
                      /\ account'[arg'[c].user][Column[arg'[c].op]] # "closed"
    BY DEF Audited, Column
  <2>1. CASE LockForAdmin(c)
    <3>1. /\ arg'[c].op = arg[c].op /\ arg'[c].user = arg[c].user
          /\ arg'[c].before = account[arg[c].user] /\ UNCHANGED account
          /\ Permitted(c) /\ arg[c].op \in AdminOps
          /\ account[arg[c].user] \in Account
      BY <1>0, <2>1 DEF LockForAdmin, LockUser, TypeOK, Args, Inv, CallsInv, Placed
    <3>2. account[arg[c].user][Column[arg[c].op]] # "closed"
      BY <3>1 DEF Permitted, Column, AdminOps, Account
    <3> QED
      BY <3>1, <3>2
  <2>2. CASE ~LockForAdmin(c)
    <3>1. /\ pc[c] \in {"locked", "revoked", "audited"}
          /\ arg'[c].op = arg[c].op /\ arg'[c].user = arg[c].user /\ arg'[c].before = arg[c].before
      BY <1>0, <2>2, AdminSteps
    <3>2. account'[arg[c].user] = account[arg[c].user]
      BY <1>0, <3>1, HeldRowsStay
    <3> QED
      BY <3>1, <3>2 DEF AuditInv, Audited
  <2> QED
    BY <2>1, <2>2
<1>2. log' \in [Users -> Seq(Entry)] /\ AuditChains'
  <2>1. CASE \E t \in Calls : CommitAdmin(t)
    BY <2>1, CommitAdminChains
  <2>2. CASE UNCHANGED log /\ ~\E t \in Calls : CommitAdmin(t)
    <3>1. log' \in [Users -> Seq(Entry)]
      BY <2>2 DEF AuditInv
    <3>2. CASE \E t \in Calls : CommitRegister(t)
      <4>1. PICK t \in Calls : CommitRegister(t)
        BY <3>2
      <4>2. /\ arg[t].user \in Users /\ account[arg[t].user] = None
            /\ account' = [account EXCEPT ![arg[t].user] = Fresh(arg[t].password)]
            /\ arg[t].password \in Passwords
        BY <1>0, <4>1 DEF CommitRegister, Inv, CallsInv, Placed, Holds
      <4>3. Fresh(arg[t].password) # None /\ FirstPassword \in Passwords
        BY <4>2, FreshType DEF FirstPassword
      <4>4. \A column \in Columns : Fresh(arg[t].password)[column] = Fresh(FirstPassword)[column]
        BY DEF Columns, Fresh
      <4>5. log[arg[t].user] = <<>>
        BY <4>2 DEF AuditInv, AuditChains
      <4>6. \A column \in Columns : Tells(<<>>, 0, column, Fresh(arg[t].password)[column])
        BY <4>4 DEF Tells
      <4> QED
        BY <1>0, <2>2, <3>1, <4>2, <4>3, <4>5, <4>6 DEF AuditInv, AuditChains, Columns, TypeOK
    <3>3. CASE \E t \in Calls : CommitPassword(t)
      <4>1. PICK t \in Calls : CommitPassword(t)
        BY <3>3
      <4>2. /\ arg[t].user \in Users /\ account[arg[t].user] # None
            /\ account' = [account EXCEPT ![arg[t].user].password = arg[t].password]
            /\ arg[t].password \in Passwords
        BY <1>0, <4>1 DEF CommitPassword, Inv, CallsInv, Placed, Holds
      <4>3. [account[arg[t].user] EXCEPT !.password = arg[t].password] \in Account
        BY <1>0, <4>2 DEF TypeOK, Account
      <4>4. \A u \in Users :
               \/ account'[u] = account[u]
               \/ /\ account[u] # None /\ account'[u] # None
                  /\ \A column \in Columns : account'[u][column] \in {account[u][column], "closed"}
        BY <1>0, <4>2, <4>3 DEF TypeOK, Account, Columns
      <4> QED
        BY <2>2, <3>1, <4>4, ChainsKept
    <3>4. CASE \E v \in Users : CloseAccount(v)
      <4>1. PICK v \in Users : CloseAccount(v)
        BY <3>4
      <4>2. [account[v] EXCEPT !.status = "closed"] \in Account
        BY <1>0, <4>1 DEF CloseAccount, TypeOK, Account, Status
      <4>3. \A u \in Users :
               \/ account'[u] = account[u]
               \/ /\ account[u] # None /\ account'[u] # None
                  /\ \A column \in Columns : account'[u][column] \in {account[u][column], "closed"}
        BY <1>0, <4>1, <4>2 DEF CloseAccount, TypeOK, Account, Columns
      <4> QED
        BY <2>2, <3>1, <4>3, ChainsKept
    <3>5. CASE UNCHANGED account
      BY <2>2, <3>1, <3>5, ChainsKept
    <3> QED
      BY <2>2, <3>2, <3>3, <3>4, <3>5, RowWriters
  <2> QED
    BY <2>1, <2>2, LogWriters
<1> QED
  BY <1>0, <1>1, <1>2 DEF AuditInv

\* However administrators' requests interleave, the audit log of an account tells
\* its whole history: no entry starts from a value that another one replaced.
THEOREM AuditStaysChained == Spec => []AuditChains
<1>1. AuditInv => AuditChains
  BY DEF AuditInv
<1> QED
  BY <1>1, AuditInit, AuditNext, PTL DEF Spec
===============================================================================
