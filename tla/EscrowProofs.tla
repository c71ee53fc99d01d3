----------------------------- MODULE EscrowProofs -----------------------------
(***************************************************************************)
(* Proofs that withdrawals keep what they promise, for every number of      *)
(* wallets, calls, ids and keys: rows, ledger, audit log and notifications  *)
(* agree, a key and a wallet have one request each, and every commit is a   *)
(* step of Escrow.                                                          *)
(***************************************************************************)
EXTENDS WithdrawalsProofs

-----------------------------------------------------------------------------
(* The inductive invariant *)

Inserting(c) == pc[c] \in {"held", "inserted"}

\* A review holds its request row, and the row is still as it was read.
Reviewing(c) ==
    pc[c] \in ReviewSteps =>
        /\ requestLock[arg[c].id] = c
        /\ requests[arg[c].id].status = "pending"
        /\ requests[arg[c].id].w = arg[c].w
        /\ requests[arg[c].id].amount = arg[c].amount

\* A create's id is its own, its wallet has nothing pending, and past the unique
\* index nobody else has recorded its key or is about to.
Creating(c) ==
    /\ Inserting(c) =>
          /\ requests[arg[c].id] = None
          /\ ~hasPending(arg[c].w)
          /\ \A d \in Calls \ {c} : Inserting(d) => arg[d].id # arg[c].id
    /\ pc[c] = "inserted" =>
          /\ ByIdempotencyKey(c) = {}
          /\ \A d \in Calls \ {c} :
                pc[d] = "inserted" /\ arg[d].key = arg[c].key => Owner[arg[d].w] # Owner[arg[c].w]

AllReady == \A c \in Calls : Reviewing(c) /\ Creating(c)

AnswersKnown == \A a \in answers : a.id \in WithdrawalIds

RowsSound == MoneyFollowsStatus /\ OnePendingPerWallet /\ IdempotentCreate /\ PaperTrail

RequestInv == MoneyInv /\ AllReady /\ AnswersKnown /\ RowsSound

-----------------------------------------------------------------------------
(* The properties of the rows, one row at a time *)

\* What the statement of w owes a request with this row.
Due(row, w) ==
    IF row = None \/ row.w # w THEN {}
    ELSE IF row.status \in {"pending", "approved"} THEN {<<"withdrawal", -row.amount>>}
    ELSE {<<"withdrawal", -row.amount>>, <<"refund", row.amount>>}

LEMMA MoneyByRow ==
    MoneyFollowsStatus <=>
        \A id \in WithdrawalIds, w \in Wallets : PostedFor(w, id) = Due(requests[id], w)
BY DEF MoneyFollowsStatus, MovementsOf, PostedFor, Due

LEMMA MoneyByRowNext ==
    MoneyFollowsStatus' <=>
        \A id \in WithdrawalIds, w \in Wallets : PostedFor(w, id)' = Due(requests'[id], w)
BY DEF MoneyFollowsStatus, MovementsOf, PostedFor, Due

\* What an audit log says of an entity.
Told(log, entity) == {e.action : e \in {x \in log : x.entity = entity}}

\* What it owes a request with this row.
Story(row) ==
    IF row = None THEN {}
    ELSE {"withdrawal.request"} \cup
         CASE row.status = "pending" -> {}
           [] row.status = "approved" -> {"withdrawal.approve"}
           [] row.status = "rejected" -> {"withdrawal.reject"}
           [] row.status = "cancelled" -> {"withdrawal.cancel"}

\* The notifications owed to the rows with a status.
Owed(rows, status, kind) ==
    {[kind |-> kind, id |-> id] : id \in {i \in WithdrawalIds : rows[i] # None /\ rows[i].status = status}}

LEMMA PaperByRow ==
    PaperTrail <=>
        /\ \A id \in WithdrawalIds : Told(trail, id) = Story(requests[id])
        /\ notices = Owed(requests, "approved", "withdrawal_approved") \cup
                     Owed(requests, "rejected", "withdrawal_rejected")
<1>1. \A status : {i \in Recorded : requests[i].status = status} =
                  {i \in WithdrawalIds : requests[i] # None /\ requests[i].status = status}
  BY DEF Recorded
<1> QED
  BY <1>1 DEF PaperTrail, Told, Story, Owed

LEMMA PaperByRowNext ==
    PaperTrail' <=>
        /\ \A id \in WithdrawalIds : Told(trail', id) = Story(requests'[id])
        /\ notices' = Owed(requests', "approved", "withdrawal_approved") \cup
                      Owed(requests', "rejected", "withdrawal_rejected")
<1>1. \A status : {i \in Recorded' : requests'[i].status = status} =
                  {i \in WithdrawalIds : requests'[i] # None /\ requests'[i].status = status}
  BY DEF Recorded
<1> QED
  BY <1>1 DEF PaperTrail, Told, Story, Owed

\* An audit entry tells of its own entity only.
LEMMA AuditTells ==
    ASSUME NEW action, NEW entity, NEW other, Audit(action, entity)
    PROVE  Told(trail', other) = IF other = entity THEN Told(trail, other) \cup {action} ELSE Told(trail, other)
<1> DEFINE new == [action |-> action, entity |-> entity]
<1>1. \A l, x : x \in Told(l, other) <=> \E e \in l : e.entity = other /\ x = e.action
  BY DEF Told
<1>2. new.action = action /\ new.entity = entity
  OBVIOUS
<1>3. \A e : e \in trail' <=> e \in trail \/ e = new
  BY DEF Audit
<1> HIDE DEF new
<1>4. \A x : x \in Told(trail', other) <=> x \in Told(trail, other) \/ (other = entity /\ x = action)
  BY <1>1, <1>2, <1>3
<1> QED
  BY <1>4

LEMMA RequestFields ==
    ASSUME TypeOK, NEW id \in WithdrawalIds, requests[id] # None
    PROVE  /\ requests[id] \in Request
           /\ requests[id].w \in Wallets /\ requests[id].amount \in Amounts
           /\ requests[id].status \in {"pending", "approved", "rejected", "cancelled"}
BY DEF TypeOK, Request

\* A row as an answer describes it.
Described(row) == [key |-> row.key, w |-> row.w, method |-> row.method, amount |-> row.amount]

-----------------------------------------------------------------------------
(* Steps that commit no request *)

\* What such a step does: it leaves rows and notices, says nothing of a request in
\* the ledger or the audit log, and answers with a row that is there.
Uncommitted ==
    /\ UNCHANGED <<requests, notices>>
    /\ \A id \in WithdrawalIds, w \in Wallets : PostedFor(w, id)' = PostedFor(w, id)
    /\ \A id \in WithdrawalIds : Told(trail', id) = Told(trail, id)
    /\ \/ UNCHANGED answers
       \/ \E t \in Calls : \E id \in ByIdempotencyKey(t) : matches(t, id) /\ Answer(t, id)

LEMMA UncommittedSound ==
    ASSUME TypeOK, AnswersKnown, RowsSound, Uncommitted
    PROVE  AnswersKnown' /\ RowsSound'
<1>1. UNCHANGED <<requests, notices>>
  BY DEF Uncommitted
<1>2. MoneyFollowsStatus'
  <2>1. \A id \in WithdrawalIds, w \in Wallets : PostedFor(w, id) = Due(requests[id], w)
    BY MoneyByRow DEF RowsSound
  <2>2. \A id \in WithdrawalIds, w \in Wallets : PostedFor(w, id)' = Due(requests'[id], w)
    BY <1>1, <2>1 DEF Uncommitted
  <2> QED
    BY <2>2, MoneyByRowNext
<1>3. OnePendingPerWallet'
  BY <1>1 DEF RowsSound, OnePendingPerWallet, Recorded
<1>4. PaperTrail'
  <2>1. /\ \A id \in WithdrawalIds : Told(trail, id) = Story(requests[id])
        /\ notices = Owed(requests, "approved", "withdrawal_approved") \cup
                     Owed(requests, "rejected", "withdrawal_rejected")
    BY PaperByRow DEF RowsSound
  <2> QED
    BY <1>1, <2>1, PaperByRowNext DEF Uncommitted
<1>5. AnswersKnown' /\ IdempotentCreate'
  <2>1. IdempotentCreate
    BY DEF RowsSound
  <2>2. CASE UNCHANGED answers
    BY <1>1, <2>1, <2>2 DEF AnswersKnown, IdempotentCreate, Recorded
  <2>3. CASE \E t \in Calls : \E id \in ByIdempotencyKey(t) : matches(t, id) /\ Answer(t, id)
    <3>1. PICK t \in Calls : \E id \in ByIdempotencyKey(t) : matches(t, id) /\ Answer(t, id)
      BY <2>3
    <3>1a. PICK id \in ByIdempotencyKey(t) : matches(t, id) /\ Answer(t, id)
      BY <3>1
    <3>2. id \in WithdrawalIds /\ requests[id] # None /\ Body(t) = Described(requests[id])
      BY <3>1a DEF ByIdempotencyKey, Recorded, matches, Body, Described
    <3> DEFINE new == [body |-> Body(t), id |-> id]
    <3>3. answers' = answers \cup {new} /\ new.id = id /\ new.body = Body(t)
      BY <3>1a DEF Answer
    <3> HIDE DEF new
    <3> QED
      BY <1>1, <2>1, <3>2, <3>3 DEF AnswersKnown, IdempotentCreate, Recorded, Described
  <2> QED
    BY <2>2, <2>3 DEF Uncommitted
<1> QED
  BY <1>2, <1>3, <1>4, <1>5 DEF RowsSound

-----------------------------------------------------------------------------
(* The commit of one row *)

LEMMA StoryOf ==
    ASSUME NEW row, row # None
    PROVE  /\ row.status = "pending" => Story(row) = {"withdrawal.request"}
           /\ row.status = "approved" => Story(row) = {"withdrawal.request", "withdrawal.approve"}
           /\ row.status = "rejected" => Story(row) = {"withdrawal.request", "withdrawal.reject"}
           /\ row.status = "cancelled" => Story(row) = {"withdrawal.request", "withdrawal.cancel"}
<1>1. ASSUME row.status = "pending" PROVE Story(row) = {"withdrawal.request"}
  BY <1>1, Zenon DEF Story
<1>2. ASSUME row.status = "approved" PROVE Story(row) = {"withdrawal.request", "withdrawal.approve"}
  BY <1>2, Zenon DEF Story
<1>3. ASSUME row.status = "rejected" PROVE Story(row) = {"withdrawal.request", "withdrawal.reject"}
  BY <1>3, Zenon DEF Story
<1>4. ASSUME row.status = "cancelled" PROVE Story(row) = {"withdrawal.request", "withdrawal.cancel"}
  BY <1>4, Zenon DEF Story
<1> QED
  BY <1>1, <1>2, <1>3, <1>4

\* The row of k becomes row, and nothing else does.
Writes(k, row) == requests' = [requests EXCEPT ![k] = row]

LEMMA WritesRow ==
    ASSUME TypeOK, NEW k \in WithdrawalIds, NEW row \in Request, Writes(k, row)
    PROVE  /\ requests'[k] = row /\ row # None
           /\ \A id \in WithdrawalIds \ {k} : requests'[id] = requests[id]
BY RequestAssumption DEF TypeOK, Writes

LEMMA MoneyCommits ==
    ASSUME TypeOK, RowsSound, NEW k \in WithdrawalIds, NEW row \in Request, Writes(k, row),
           \A id \in WithdrawalIds, w \in Wallets :
               PostedFor(w, id)' = IF id = k THEN Due(row, w) ELSE PostedFor(w, id)
    PROVE  MoneyFollowsStatus'
<1>1. \A id \in WithdrawalIds, w \in Wallets : PostedFor(w, id) = Due(requests[id], w)
  BY MoneyByRow DEF RowsSound
<1>2. \A id \in WithdrawalIds, w \in Wallets : PostedFor(w, id)' = Due(requests'[id], w)
  BY <1>1, WritesRow
<1> QED
  BY <1>2, MoneyByRowNext

\* A new row is the only pending one of its wallet; an old one stays on its wallet
\* and is pending no more.
LEMMA PendingCommits ==
    ASSUME TypeOK, RowsSound, NEW k \in WithdrawalIds, NEW row \in Request, Writes(k, row),
           \/ requests[k] = None /\ ~hasPending(row.w)
           \/ row.status # "pending"
    PROVE  OnePendingPerWallet'
<1>1. ASSUME NEW id \in WithdrawalIds, NEW other \in WithdrawalIds,
             requests'[id] # None, requests'[other] # None,
             requests'[id].status = "pending", requests'[other].status = "pending",
             requests'[id].w = requests'[other].w
      PROVE  id = other
  <2>1. CASE id # k /\ other # k
    <3>1. OnePendingPerWallet /\ requests'[id] = requests[id] /\ requests'[other] = requests[other]
      BY <2>1, WritesRow DEF RowsSound
    <3> QED
      BY <1>1, <3>1 DEF OnePendingPerWallet, Recorded
  <2>2. CASE id = k /\ other # k
    BY <1>1, <2>2, WritesRow DEF hasPending, Recorded
  <2>3. CASE id # k /\ other = k
    BY <1>1, <2>3, WritesRow DEF hasPending, Recorded
  <2> QED
    BY <2>1, <2>2, <2>3
<1> QED
  BY <1>1 DEF OnePendingPerWallet, Recorded

\* A new row has a key of its own and is what its call answers with; an old one
\* stays as it was described.
LEMMA KeyCommits ==
    ASSUME TypeOK, RowsSound, AnswersKnown, NEW k \in WithdrawalIds, NEW row \in Request, Writes(k, row),
           \/ /\ requests[k] = None
              /\ \A id \in Recorded : ~(requests[id].key = row.key /\ Owner[requests[id].w] = Owner[row.w])
              /\ answers' = answers \cup {[body |-> Described(row), id |-> k]}
           \/ requests[k] # None /\ Described(row) = Described(requests[k]) /\ UNCHANGED answers
    PROVE  AnswersKnown' /\ IdempotentCreate'
<1>1. /\ \A id, other \in WithdrawalIds :
            /\ requests[id] # None /\ requests[other] # None
            /\ requests[id].key = requests[other].key
            /\ Owner[requests[id].w] = Owner[requests[other].w]
            => id = other
      /\ \A a \in answers : a.id \in WithdrawalIds /\ requests[a.id] # None
                            /\ a.body = Described(requests[a.id])
  BY DEF RowsSound, IdempotentCreate, AnswersKnown, Recorded, Described
<1>2. CASE /\ requests[k] = None
           /\ \A id \in Recorded : ~(requests[id].key = row.key /\ Owner[requests[id].w] = Owner[row.w])
           /\ answers' = answers \cup {[body |-> Described(row), id |-> k]}
  <2> DEFINE new == [body |-> Described(row), id |-> k]
  <2>1. answers' = answers \cup {new} /\ new.id = k /\ new.body = Described(row)
    BY <1>2
  <2> HIDE DEF new
  <2>2. \A a \in answers' : a.id \in WithdrawalIds /\ requests'[a.id] # None
                            /\ a.body = Described(requests'[a.id])
    BY <1>1, <1>2, <2>1, WritesRow
  <2>3. \A id, other \in WithdrawalIds :
            /\ requests'[id] # None /\ requests'[other] # None
            /\ requests'[id].key = requests'[other].key
            /\ Owner[requests'[id].w] = Owner[requests'[other].w]
            => id = other
    BY <1>1, <1>2, WritesRow DEF Recorded
  <2> QED
    BY <2>2, <2>3 DEF IdempotentCreate, AnswersKnown, Recorded, Described
<1>3. CASE requests[k] # None /\ Described(row) = Described(requests[k]) /\ UNCHANGED answers
  <2>1. row.key = requests[k].key /\ row.w = requests[k].w
    BY <1>3 DEF Described
  <2>2. \A a \in answers' : a.id \in WithdrawalIds /\ requests'[a.id] # None
                            /\ a.body = Described(requests'[a.id])
    BY <1>1, <1>3, WritesRow
  <2>3. \A id, other \in WithdrawalIds :
            /\ requests'[id] # None /\ requests'[other] # None
            /\ requests'[id].key = requests'[other].key
            /\ Owner[requests'[id].w] = Owner[requests'[other].w]
            => id = other
    BY <1>1, <1>3, <2>1, WritesRow
  <2> QED
    BY <2>2, <2>3 DEF IdempotentCreate, AnswersKnown, Recorded, Described
<1> QED
  BY <1>2, <1>3

\* A row that was pending or absent gets the notification its new status is owed.
LEMMA OwedCommits ==
    ASSUME TypeOK, NEW k \in WithdrawalIds, NEW row \in Request, Writes(k, row),
           requests[k] = None \/ requests[k].status = "pending",
           NEW status \in {"approved", "rejected"}, NEW kind
    PROVE  Owed(requests', status, kind) =
               IF row.status = status THEN Owed(requests, status, kind) \cup {[kind |-> kind, id |-> k]}
               ELSE Owed(requests, status, kind)
<1>1. \A rows, x : x \in Owed(rows, status, kind) <=>
          \E id \in WithdrawalIds : rows[id] # None /\ rows[id].status = status
                                    /\ x = [kind |-> kind, id |-> id]
  BY DEF Owed
<1>2. status # "pending"
  OBVIOUS
<1>3. \A x : x \in Owed(requests', status, kind) <=>
          x \in Owed(requests, status, kind) \/ (row.status = status /\ x = [kind |-> kind, id |-> k])
  BY <1>1, <1>2, WritesRow
<1> QED
  BY <1>3

LEMMA PaperCommits ==
    ASSUME TypeOK, RowsSound, NEW k \in WithdrawalIds, NEW row \in Request, Writes(k, row),
           requests[k] = None \/ requests[k].status = "pending",
           \A id \in WithdrawalIds : Told(trail', id) = IF id = k THEN Story(row) ELSE Told(trail, id),
           notices' = notices \cup {[kind |-> "withdrawal_approved", id |-> i] : i \in
                                        {j \in {k} : row.status = "approved"}}
                              \cup {[kind |-> "withdrawal_rejected", id |-> i] : i \in
                                        {j \in {k} : row.status = "rejected"}}
    PROVE  PaperTrail'
<1>1. /\ \A id \in WithdrawalIds : Told(trail, id) = Story(requests[id])
      /\ notices = Owed(requests, "approved", "withdrawal_approved") \cup
                   Owed(requests, "rejected", "withdrawal_rejected")
  BY PaperByRow DEF RowsSound
<1>2. \A id \in WithdrawalIds : Told(trail', id) = Story(requests'[id])
  BY <1>1, WritesRow
<1>3. /\ Owed(requests', "approved", "withdrawal_approved") =
            IF row.status = "approved"
            THEN Owed(requests, "approved", "withdrawal_approved") \cup {[kind |-> "withdrawal_approved", id |-> k]}
            ELSE Owed(requests, "approved", "withdrawal_approved")
      /\ Owed(requests', "rejected", "withdrawal_rejected") =
            IF row.status = "rejected"
            THEN Owed(requests, "rejected", "withdrawal_rejected") \cup {[kind |-> "withdrawal_rejected", id |-> k]}
            ELSE Owed(requests, "rejected", "withdrawal_rejected")
  BY OwedCommits
<1>4. \A kind, status : {[kind |-> kind, id |-> i] : i \in {j \in {k} : row.status = status}} =
          IF row.status = status THEN {[kind |-> kind, id |-> k]} ELSE {}
  OBVIOUS
<1> DEFINE paid == Owed(requests, "approved", "withdrawal_approved")
           back == Owed(requests, "rejected", "withdrawal_rejected")
           yes == [kind |-> "withdrawal_approved", id |-> k]
           no == [kind |-> "withdrawal_rejected", id |-> k]
<1>5. notices' = paid \cup back \cup (IF row.status = "approved" THEN {yes} ELSE {})
                                \cup (IF row.status = "rejected" THEN {no} ELSE {})
  BY <1>1, <1>4
<1>6. /\ Owed(requests', "approved", "withdrawal_approved") =
            IF row.status = "approved" THEN paid \cup {yes} ELSE paid
      /\ Owed(requests', "rejected", "withdrawal_rejected") =
            IF row.status = "rejected" THEN back \cup {no} ELSE back
  BY <1>3
<1> HIDE DEF paid, back, yes, no
<1>7. notices' = Owed(requests', "approved", "withdrawal_approved") \cup
                 Owed(requests', "rejected", "withdrawal_rejected")
  BY <1>5, <1>6
<1> QED
  BY <1>2, <1>7, PaperByRowNext

-----------------------------------------------------------------------------
(* The calls in flight *)

\* A step of call t leaves the others ready: it takes no request row from them and
\* changes none under them, records nothing that a create in flight counted on being
\* absent, and t itself is ready.
LEMMA OthersReady ==
    ASSUME TypeOK, CallTypes, AllReady, NEW t \in Calls,
           \A c \in Calls \ {t} : pc'[c] = pc[c] /\ arg'[c] = arg[c],
           \A c \in Calls \ {t} : pc[c] \in ReviewSteps =>
               requestLock'[arg[c].id] = c /\ requests'[arg[c].id] = requests[arg[c].id],
           \A c \in Calls \ {t}, id \in WithdrawalIds :
               Inserting(c) /\ requests'[id] # requests[id] =>
                   /\ id # arg[c].id
                   /\ requests'[id].status = "pending" => requests'[id].w # arg[c].w
                   /\ pc[c] = "inserted" => ~(/\ requests'[id].key = arg[c].key
                                              /\ Owner[requests'[id].w] = Owner[arg[c].w]),
           Reviewing(t)', Creating(t)'
    PROVE  AllReady'
<1> SUFFICES ASSUME NEW c \in Calls \ {t} PROVE Reviewing(c)' /\ Creating(c)'
  BY DEF AllReady
<1>1. pc'[c] = pc[c] /\ arg'[c] = arg[c] /\ Reviewing(c) /\ Creating(c)
  BY DEF AllReady
<1>2. Reviewing(c)'
  BY <1>1 DEF Reviewing
<1>3. ASSUME Inserting(c)
      PROVE  /\ requests'[arg[c].id] = None
             /\ ~\E id \in WithdrawalIds : /\ requests'[id] # None /\ requests'[id].w = arg[c].w
                                           /\ requests'[id].status = "pending"
             /\ \A d \in Calls \ {c} : (pc'[d] \in {"held", "inserted"}) => arg'[d].id # arg[c].id
  <2>1. arg[c].id \in WithdrawalIds
    BY <1>3 DEF Inserting, CallTypes
  <2>2. requests'[arg[c].id] = None
    BY <1>1, <1>3, <2>1 DEF Creating
  <2>3. ~\E id \in WithdrawalIds : /\ requests'[id] # None /\ requests'[id].w = arg[c].w
                                   /\ requests'[id].status = "pending"
    <3> SUFFICES ASSUME NEW id \in WithdrawalIds, requests'[id] # None, requests'[id].w = arg[c].w,
                        requests'[id].status = "pending"
                 PROVE  FALSE
      OBVIOUS
    <3>1. requests'[id] = requests[id]
      BY <1>3
    <3> QED
      BY <1>1, <1>3, <3>1 DEF Creating, hasPending, Recorded
  <2>4. ASSUME NEW d \in Calls \ {c}, pc'[d] \in {"held", "inserted"}
        PROVE  arg'[d].id # arg[c].id
    <3>1. CASE d = t
      BY <1>1, <1>3, <2>4, <3>1 DEF Creating, Inserting
    <3>2. CASE d # t
      <4>1. pc'[d] = pc[d] /\ arg'[d] = arg[d]
        BY <3>2
      <4> QED
        BY <1>1, <1>3, <2>4, <4>1 DEF Creating, Inserting
    <3> QED
      BY <3>1, <3>2
  <2> QED
    BY <2>2, <2>3, <2>4
<1>4. ASSUME pc[c] = "inserted"
      PROVE  /\ \A id \in WithdrawalIds : ~(/\ requests'[id] # None /\ requests'[id].key = arg[c].key
                                            /\ Owner[requests'[id].w] = Owner[arg[c].w])
             /\ \A d \in Calls \ {c} : pc'[d] = "inserted" /\ arg'[d].key = arg[c].key
                                       => Owner[arg'[d].w] # Owner[arg[c].w]
  <2>0. Inserting(c)
    BY <1>4 DEF Inserting
  <2>1. ASSUME NEW id \in WithdrawalIds, requests'[id] # None
        PROVE  ~(requests'[id].key = arg[c].key /\ Owner[requests'[id].w] = Owner[arg[c].w])
    <3>1. CASE requests'[id] # requests[id]
      BY <1>4, <2>0, <3>1
    <3>2. CASE requests'[id] = requests[id]
      BY <1>1, <1>4, <2>1, <3>2 DEF Creating, ByIdempotencyKey, Recorded
    <3> QED
      BY <3>1, <3>2
  <2>2. ASSUME NEW d \in Calls \ {c}, pc'[d] = "inserted", arg'[d].key = arg[c].key
        PROVE  Owner[arg'[d].w] # Owner[arg[c].w]
    <3>1. CASE d = t
      BY <1>1, <1>4, <2>2, <3>1 DEF Creating
    <3>2. CASE d # t
      <4>1. pc'[d] = pc[d] /\ arg'[d] = arg[d]
        BY <3>2
      <4> QED
        BY <1>1, <1>4, <2>2, <4>1 DEF Creating
    <3> QED
      BY <3>1, <3>2
  <2> QED
    BY <2>1, <2>2
<1>5. Creating(c)'
  BY <1>1, <1>3, <1>4 DEF Creating, Inserting, hasPending, ByIdempotencyKey, Recorded
<1> QED
  BY <1>2, <1>5

\* A call that is neither past its lockRequest nor past its newID has nothing to be
\* ready for.
LEMMA NothingReady ==
    ASSUME NEW t \in Calls, pc'[t] \notin ReviewSteps, pc'[t] \notin {"held", "inserted"}
    PROVE  Reviewing(t)' /\ Creating(t)'
BY DEF Reviewing, Creating, Inserting

\* No request row a call is reviewing is in another call's hands.
LEMMA ReviewsApart ==
    ASSUME CallTypes, AllReady, NEW t \in Calls, NEW c \in Calls \ {t}, pc[c] \in ReviewSteps
    PROVE  /\ (UNCHANGED requestLock \/ UnlockRequests(t)) => requestLock'[arg[c].id] = c
           /\ pc[t] \in ReviewSteps => arg[c].id # arg[t].id
           /\ requestLock[arg[c].id] = c /\ arg[c].id \in WithdrawalIds
BY DEF CallTypes, AllReady, Reviewing, UnlockRequests

\* The transaction of t ends without touching a row.
LEMMA FinishReady ==
    ASSUME TypeOK, CallTypes, AllReady, NEW t \in Calls, Finish(t), UNCHANGED requests,
           UNCHANGED requestLock \/ UnlockRequests(t)
    PROVE  AllReady'
<1>1. pc'[t] = "idle" /\ \A c \in Calls \ {t} : pc'[c] = pc[c] /\ arg'[c] = arg[c]
  BY DEF TypeOK, Finish
<1>2. Reviewing(t)' /\ Creating(t)'
  BY <1>1, NothingReady DEF ReviewSteps
<1> QED
  BY <1>1, <1>2, ReviewsApart, OthersReady

-----------------------------------------------------------------------------
(* Init and every step *)

LEMMA RequestInit == Init => RequestInv
<1> SUFFICES ASSUME Init PROVE RequestInv
  OBVIOUS
<1>1. /\ \A c \in Calls : pc[c] = "idle"
      /\ \A id \in WithdrawalIds : requests[id] = None
      /\ \A w \in Wallets : ledger[w] = <<>>
      /\ notices = {} /\ answers = {} /\ trail = {}
  BY DEF Init, WalletInit
<1>2. AllReady /\ AnswersKnown
  BY <1>1 DEF AllReady, AnswersKnown, Reviewing, Creating, Inserting, ReviewSteps
<1>3. MoneyFollowsStatus
  <2>1. \A w \in Wallets, id \in WithdrawalIds : PostedFor(w, id) = {}
    BY <1>1 DEF PostedFor
  <2> QED
    BY <1>1, <2>1, MoneyByRow DEF Due
<1>4. PaperTrail
  BY <1>1, PaperByRow DEF Told, Story, Owed
<1> QED
  BY <1>1, <1>2, <1>3, <1>4, MoneyInit
     DEF RequestInv, RowsSound, OnePendingPerWallet, IdempotentCreate, Recorded

\* Replays, refusals, aborts.
LEMMA EndsSound ==
    ASSUME RequestInv, NEW t \in Calls, Replay(t) \/ Refuse(t) \/ AnswerRace(t) \/ Abort(t)
    PROVE  AllReady' /\ Uncommitted
<1>1. /\ Finish(t) /\ UNCHANGED <<requests, notices, ledger, trail>>
      /\ UNCHANGED requestLock \/ UnlockRequests(t)
  BY DEF Replay, Refuse, AnswerRace, Abort, requestVars, walletVars
<1>2. AllReady'
  BY <1>1, FinishReady DEF RequestInv, MoneyInv, Typed
<1>3. UNCHANGED answers \/ \E id \in ByIdempotencyKey(t) : matches(t, id) /\ Answer(t, id)
  BY DEF Replay, Refuse, AnswerRace, Abort, requestVars
<1>4. \A id \in WithdrawalIds, w \in Wallets : PostedFor(w, id)' = PostedFor(w, id)
  BY <1>1 DEF PostedFor
<1> QED
  BY <1>1, <1>2, <1>3, <1>4 DEF Uncommitted

\* An operator's adjustment speaks of no request.
LEMMA AdjustSound ==
    ASSUME RequestInv, NEW t \in Calls, CommitAdjust(t), UNCHANGED requestVars
    PROVE  AllReady' /\ Uncommitted
<1>0. TypeOK /\ CallTypes /\ AllReady /\ WalletTypeOK
  BY DEF RequestInv, MoneyInv, Typed, TypeOK
<1>1. UNCHANGED <<requests, requestLock, notices, answers>> /\ Finish(t)
  BY DEF CommitAdjust, requestVars
<1>2. AllReady'
  BY <1>0, <1>1, FinishReady
<1>3. arg[t].w \in Wallets /\ arg[t].amount \in Int /\ arg[t].seen \in Int
  BY <1>0 DEF CommitAdjust, CallTypes, TypeOK, Args
<1>4. \A id \in WithdrawalIds, w \in Wallets : PostedFor(w, id)' = PostedFor(w, id)
  <2>1. MoveTx(arg[t].w, "adjustment", None, arg[t].amount, arg[t].seen)
        /\ ~Posted(arg[t].w, "adjustment", None)
    BY DEF CommitAdjust, Posted
  <2>2. \A id \in WithdrawalIds : id \in Ids /\ id # None
    BY WalletAssumption, WithdrawalsAssumption
  <2> QED
    BY <1>0, <1>3, <2>1, <2>2, MoveTxPosts DEF Kinds
<1>5. \A id \in WithdrawalIds : Told(trail', id) = Told(trail, id)
  <2> DEFINE verb == IF arg[t].amount > 0 THEN "wallet.credit" ELSE "wallet.debit"
             row == <<arg[t].w, Len(ledger[arg[t].w]) + 1>>
  <2>1. Audit(verb, row)
    BY DEF CommitAdjust
  <2>2. row \in Wallets \X Nat
    <3>1. Len(ledger[arg[t].w]) \in Nat
      BY <1>0, <1>3 DEF WalletTypeOK
    <3> QED
      BY <1>3, <3>1
  <2>3. \A id \in WithdrawalIds : id # row
    BY <2>2, WithdrawalsAssumption, EntityAssumption
  <2> HIDE DEF verb, row
  <2>4. ASSUME NEW id \in WithdrawalIds PROVE Told(trail', id) = Told(trail, id)
    <3>1. Told(trail', id) = IF id = row THEN Told(trail, id) \cup {verb} ELSE Told(trail, id)
      BY <2>1, AuditTells
    <3> QED
      BY <2>3, <3>1
  <2> QED
    BY <2>4
<1> QED
  BY <1>1, <1>2, <1>4, <1>5 DEF Uncommitted

\* Locking a wallet, reading the key.
LEMMA StartsSound ==
    ASSUME RequestInv, NEW t \in Calls,
           \/ /\ UNCHANGED requestVars
              /\ \E w \in Wallets, amount \in AdjustAmounts : StartAdjust(t, w, amount)
           \/ \E key \in Keys, w \in Wallets, m \in Methods, amount \in Amounts :
                  LockWallet(t, key, w, m, amount)
           \/ KeyUnknown(t)
    PROVE  AllReady' /\ Uncommitted
<1>0. TypeOK /\ CallTypes /\ AllReady
  BY DEF RequestInv, MoneyInv, Typed
<1>1. /\ UNCHANGED <<requests, requestLock, notices, answers, ledger, trail>>
      /\ pc'[t] \in {"adjusted", "locked", "new"}
      /\ \A c \in Calls \ {t} : pc'[c] = pc[c] /\ arg'[c] = arg[c]
  BY <1>0 DEF StartAdjust, LockWallet, KeyUnknown, requestVars, walletVars, TypeOK
<1>2. Reviewing(t)' /\ Creating(t)'
  BY <1>1, NothingReady DEF ReviewSteps
<1>3. AllReady'
  BY <1>0, <1>1, <1>2, ReviewsApart, OthersReady
<1>4. \A id \in WithdrawalIds, w \in Wallets : PostedFor(w, id)' = PostedFor(w, id)
  BY <1>1 DEF PostedFor
<1> QED
  BY <1>1, <1>3, <1>4 DEF Uncommitted

\* newID draws an id nobody else has, for a wallet with nothing pending.
LEMMA HoldSound ==
    ASSUME RequestInv, NEW t \in Calls, NEW id \in WithdrawalIds, Hold(t, id)
    PROVE  AllReady' /\ Uncommitted
<1>0. TypeOK /\ CallTypes /\ AllReady
  BY DEF RequestInv, MoneyInv, Typed
<1>1. /\ UNCHANGED <<requests, requestLock, notices, answers, ledger, trail>>
      /\ pc'[t] = "held" /\ arg'[t].id = id /\ arg'[t].w = arg[t].w
      /\ \A c \in Calls \ {t} : pc'[c] = pc[c] /\ arg'[c] = arg[c]
  BY <1>0 DEF Hold, requestVars, TypeOK, Args
<1>2. requests[id] = None /\ ~hasPending(arg[t].w) /\ \A c \in Calls : arg[c].id # id
  BY DEF Hold, FreeIds, Admissible
<1>3. Reviewing(t)'
  BY <1>1 DEF Reviewing, ReviewSteps
<1>4. Creating(t)'
  BY <1>1, <1>2 DEF Creating, hasPending, Recorded
<1>5. AllReady'
  BY <1>0, <1>1, <1>3, <1>4, ReviewsApart, OthersReady
<1>6. \A i \in WithdrawalIds, w \in Wallets : PostedFor(w, i)' = PostedFor(w, i)
  BY <1>1 DEF PostedFor
<1> QED
  BY <1>1, <1>5, <1>6 DEF Uncommitted

\* Past the unique index the key is this call's alone.
LEMMA InsertSound ==
    ASSUME RequestInv, NEW t \in Calls, InsertRequest(t)
    PROVE  AllReady' /\ Uncommitted
<1>0. TypeOK /\ CallTypes /\ AllReady
  BY DEF RequestInv, MoneyInv, Typed
<1>1. /\ UNCHANGED <<requests, requestLock, notices, answers, ledger, trail>> /\ pc[t] = "held"
      /\ \A c \in Calls \ {t} : pc'[c] = pc[c] /\ arg'[c] = arg[c]
  BY <1>0 DEF InsertRequest, requestVars, TypeOK
<1>2. Reviewing(t)' /\ Creating(t)'
  <2>1. CASE ByIdempotencyKey(t) = {}
    <3>1. pc'[t] = "inserted" /\ UNCHANGED arg
      BY <1>0, <2>1 DEF InsertRequest, TypeOK
    <3>2. \A d \in Calls \ {t} : pc[d] = "inserted" /\ arg[d].key = arg[t].key
                                 => Owner[arg[d].w] # Owner[arg[t].w]
      BY DEF InsertRequest
    <3>3. Creating(t) /\ Inserting(t)
      BY <1>0, <1>1 DEF AllReady, Inserting
    <3>4. Creating(t)'
      BY <1>1, <2>1, <3>1, <3>2, <3>3 DEF Creating, Inserting, hasPending, ByIdempotencyKey, Recorded
    <3> QED
      BY <3>1, <3>4 DEF Reviewing, ReviewSteps
  <2>2. CASE ByIdempotencyKey(t) # {}
    <3>1. pc'[t] = "race"
      BY <1>0, <2>2 DEF InsertRequest, TypeOK
    <3> QED
      BY <3>1, NothingReady DEF ReviewSteps
  <2> QED
    BY <2>1, <2>2
<1>3. AllReady'
  BY <1>0, <1>1, <1>2, ReviewsApart, OthersReady
<1>4. \A id \in WithdrawalIds, w \in Wallets : PostedFor(w, id)' = PostedFor(w, id)
  BY <1>1 DEF PostedFor
<1> QED
  BY <1>1, <1>3, <1>4 DEF Uncommitted

\* lockRequest waits for the reviewer that has the row.
LEMMA LockRequestSound ==
    ASSUME RequestInv, NEW t \in Calls, NEW id \in WithdrawalIds,
           NEW step \in {"approving", "rejecting", "cancelling"}, LockRequest(t, id, step)
    PROVE  AllReady' /\ Uncommitted
<1>0. TypeOK /\ CallTypes /\ AllReady
  BY DEF RequestInv, MoneyInv, Typed
<1>1. /\ UNCHANGED <<requests, notices, answers, ledger, trail>>
      /\ requestLock[id] = None /\ requestLock' = [requestLock EXCEPT ![id] = t]
      /\ requests[id].status = "pending"
      /\ pc'[t] = step /\ arg'[t].id = id /\ arg'[t].w = requests[id].w
      /\ arg'[t].amount = requests[id].amount
      /\ \A c \in Calls \ {t} : pc'[c] = pc[c] /\ arg'[c] = arg[c]
  BY <1>0 DEF LockRequest, walletVars, TypeOK
<1>2. Reviewing(t)'
  BY <1>0, <1>1 DEF Reviewing, TypeOK
<1>3. Creating(t)'
  BY <1>1 DEF Creating, Inserting
<1>4. ASSUME NEW c \in Calls \ {t}, pc[c] \in ReviewSteps
      PROVE  requestLock'[arg[c].id] = c
  <2>1. requestLock[arg[c].id] = c /\ arg[c].id \in WithdrawalIds /\ c # None
    BY <1>0, <1>4, ReviewsApart, WalletAssumption
  <2> QED
    BY <1>0, <1>1, <2>1 DEF TypeOK
<1>5. AllReady'
  BY <1>0, <1>1, <1>2, <1>3, <1>4, OthersReady
<1>6. \A i \in WithdrawalIds, w \in Wallets : PostedFor(w, i)' = PostedFor(w, i)
  BY <1>1 DEF PostedFor
<1> QED
  BY <1>1, <1>5, <1>6 DEF Uncommitted

LEMMA ReleaseSound ==
    ASSUME RequestInv, NEW t \in Calls, ReleaseHold(t)
    PROVE  AllReady' /\ Uncommitted
<1>0. TypeOK /\ CallTypes /\ AllReady
  BY DEF RequestInv, MoneyInv, Typed
<1>1. UNCHANGED <<requests, notices, answers, ledger, trail>> /\ pc[t] \in {"rejecting", "cancelling"}
  BY DEF ReleaseHold
<1>2. AllReady'
  <2>1. CASE Posted(arg[t].w, "refund", arg[t].id) \/ Movable(arg[t].w, arg[t].amount)
    <3>1. /\ UNCHANGED requestLock /\ pc'[t] \in {"rejected", "cancelled"}
          /\ arg'[t].id = arg[t].id /\ arg'[t].w = arg[t].w /\ arg'[t].amount = arg[t].amount
          /\ \A c \in Calls \ {t} : pc'[c] = pc[c] /\ arg'[c] = arg[c]
      <4>1. arg[t] \in Args
        BY <1>0 DEF TypeOK
      <4> QED
        BY <1>0, <2>1, <4>1 DEF ReleaseHold, TypeOK, Args
    <3>2. Reviewing(t)'
      BY <1>0, <1>1, <3>1 DEF AllReady, Reviewing, ReviewSteps
    <3>3. Creating(t)'
      BY <3>1 DEF Creating, Inserting
    <3> QED
      BY <1>0, <1>1, <3>1, <3>2, <3>3, ReviewsApart, OthersReady
  <2>2. CASE ~(Posted(arg[t].w, "refund", arg[t].id) \/ Movable(arg[t].w, arg[t].amount))
    <3>1. UnlockRequests(t) /\ Finish(t)
      BY <2>2 DEF ReleaseHold
    <3> QED
      BY <1>0, <1>1, <3>1, FinishReady
  <2> QED
    BY <2>1, <2>2
<1>3. \A i \in WithdrawalIds, w \in Wallets : PostedFor(w, i)' = PostedFor(w, i)
  BY <1>1 DEF PostedFor
<1> QED
  BY <1>1, <1>2, <1>3 DEF Uncommitted

\* Steps that are no call's.
LEMMA OutsideSound ==
    ASSUME RequestInv,
           \/ UNCHANGED vars
           \/ \E m \in Methods : UpdatePaymentMethod(m)
           \/ \E w \in Wallets, status \in WalletStatus : SetWalletStatus(w, status) /\ UNCHANGED requestVars
    PROVE  AllReady' /\ Uncommitted
<1>1. UNCHANGED <<requests, requestLock, notices, answers, ledger, trail, pc, arg>>
  BY DEF UpdatePaymentMethod, SetWalletStatus, vars, requestVars, walletVars
<1>2. AllReady'
  BY <1>1 DEF RequestInv, AllReady, Reviewing, Creating, Inserting, hasPending, ByIdempotencyKey, Recorded
<1>3. \A i \in WithdrawalIds, w \in Wallets : PostedFor(w, i)' = PostedFor(w, i)
  BY <1>1 DEF PostedFor
<1> QED
  BY <1>1, <1>2, <1>3 DEF Uncommitted

\* create commits: the row, its debit, its audit entry and the answer, at once.
LEMMA CommitCreateSound ==
    ASSUME RequestInv, NEW t \in Calls, CommitCreate(t)
    PROVE  AllReady' /\ AnswersKnown' /\ RowsSound'
<1> DEFINE k == arg[t].id
           w == arg[t].w
           row == [key |-> arg[t].key, w |-> w, method |-> arg[t].method,
                   amount |-> arg[t].amount, status |-> "pending"]
<1>0. TypeOK /\ CallTypes /\ AllReady /\ AnswersKnown /\ RowsSound /\ WalletTypeOK /\ pc[t] = "inserted"
  BY DEF RequestInv, MoneyInv, Typed, TypeOK, CommitCreate
<1>1. /\ arg[t].key \in Keys /\ arg[t].method \in Methods /\ arg[t].amount \in Amounts
      /\ w \in Wallets /\ k \in WithdrawalIds /\ k \in Ids /\ -arg[t].amount \in Int
      /\ arg[t].amount \in Int /\ arg[t].seen \in Int
  BY <1>0, AmountType, WithdrawalsAssumption DEF CallTypes, CreateSteps, TypeOK, Args
<1>2. /\ row \in Request
      /\ row.key = arg[t].key /\ row.w = w /\ row.amount = arg[t].amount /\ row.status = "pending"
      /\ Described(row) = Body(t)
  BY <1>1 DEF Request, Described, Body
<1>3. /\ requests[k] = None /\ ~hasPending(w) /\ ByIdempotencyKey(t) = {}
      /\ \A d \in Calls \ {t} : Inserting(d) => arg[d].id # k
      /\ \A d \in Calls \ {t} : pc[d] = "inserted" /\ arg[d].key = arg[t].key => Owner[arg[d].w] # Owner[w]
  BY <1>0 DEF AllReady, Creating, Inserting
<1>4. /\ MoveTx(w, "withdrawal", k, -arg[t].amount, arg[t].seen)
      /\ Writes(k, row) /\ Audit("withdrawal.request", k)
      /\ answers' = answers \cup {[body |-> Body(t), id |-> k]}
      /\ UNCHANGED <<requestLock, notices>> /\ Finish(t)
  BY DEF CommitCreate, Writes, Answer
<1> HIDE DEF row
<1>5. MoneyFollowsStatus'
  <2>1. \A id \in WithdrawalIds, v \in Wallets : PostedFor(v, id) = Due(requests[id], v)
    BY <1>0, MoneyByRow DEF RowsSound
  <2>2. \A v \in Wallets : PostedFor(v, k) = {}
    BY <1>1, <1>3, <2>1 DEF Due
  <2>3. ~Posted(w, "withdrawal", k)
    BY <1>0, <1>1, <2>2, PostedIsSaid
  <2>4. \A v \in Wallets : Due(row, v) = IF v = w THEN {<<"withdrawal", -arg[t].amount>>} ELSE {}
    BY <1>0, <1>1, <1>2, WritesRow, <1>4 DEF Due
  <2>5. ASSUME NEW id \in WithdrawalIds, NEW v \in Wallets
        PROVE  PostedFor(v, id)' = IF id = k THEN Due(row, v) ELSE PostedFor(v, id)
    <3>1. id \in Ids
      BY WithdrawalsAssumption
    <3>2. PostedFor(v, id)' = IF v = w /\ id = k THEN PostedFor(v, id) \cup {<<"withdrawal", -arg[t].amount>>}
                              ELSE PostedFor(v, id)
      BY <1>0, <1>1, <1>4, <2>3, <3>1, MoveTxPosts DEF Kinds
    <3> QED
      BY <2>2, <2>4, <3>2
  <2> QED
    BY <1>0, <1>1, <1>2, <1>4, <2>5, MoneyCommits
<1>6. OnePendingPerWallet'
  BY <1>0, <1>1, <1>2, <1>3, <1>4, PendingCommits
<1>7. AnswersKnown' /\ IdempotentCreate'
  <2>1. \A id \in Recorded : ~(requests[id].key = row.key /\ Owner[requests[id].w] = Owner[row.w])
    BY <1>2, <1>3 DEF ByIdempotencyKey
  <2> QED
    BY <1>0, <1>1, <1>2, <1>3, <1>4, <2>1, KeyCommits
<1>8. PaperTrail'
  <2>1. Told(trail, k) = {}
    BY <1>0, <1>1, <1>3, PaperByRow DEF RowsSound, Story
  <2>2. Story(row) = {"withdrawal.request"}
    BY <1>0, <1>1, <1>2, <1>4, WritesRow, StoryOf
  <2>3. \A id \in WithdrawalIds : Told(trail', id) = IF id = k THEN Story(row) ELSE Told(trail, id)
    BY <1>4, <2>1, <2>2, AuditTells
  <2>4. notices' = notices \cup {[kind |-> "withdrawal_approved", id |-> i] : i \in
                                     {j \in {k} : row.status = "approved"}}
                           \cup {[kind |-> "withdrawal_rejected", id |-> i] : i \in
                                     {j \in {k} : row.status = "rejected"}}
    BY <1>2, <1>4
  <2> QED
    BY <1>0, <1>1, <1>2, <1>3, <1>4, <2>3, <2>4, PaperCommits
<1>9. AllReady'
  <2>1. /\ pc'[t] = "idle"
        /\ \A c \in Calls \ {t} : pc'[c] = pc[c] /\ arg'[c] = arg[c]
    BY <1>0, <1>4 DEF Finish, TypeOK
  <2>2. Reviewing(t)' /\ Creating(t)'
    BY <2>1, NothingReady DEF ReviewSteps
  <2>3. /\ requests'[k] = row
        /\ \A id \in WithdrawalIds : requests'[id] # requests[id] => id = k
    BY <1>0, <1>1, <1>2, <1>4, WritesRow
  <2>4. ASSUME NEW c \in Calls \ {t}, pc[c] \in ReviewSteps
        PROVE  requestLock'[arg[c].id] = c /\ requests'[arg[c].id] = requests[arg[c].id]
    <3>1. requests[arg[c].id] # None /\ arg[c].id \in WithdrawalIds
      BY <1>0, <2>4 DEF CallTypes
    <3> QED
      BY <1>0, <1>3, <1>4, <2>3, <2>4, <3>1, ReviewsApart
  <2>5. ASSUME NEW c \in Calls \ {t}, Inserting(c)
        PROVE  k # arg[c].id /\ w # arg[c].w
    <3>1. walletLock[w] = t /\ walletLock[arg[c].w] = c
      BY <1>0, <2>5 DEF RequestInv, MoneyInv, AllLocked, Locked, WalletSteps, Inserting
    <3> QED
      BY <1>3, <2>5, <3>1
  <2>6. ASSUME NEW c \in Calls \ {t}, NEW id \in WithdrawalIds, Inserting(c), requests'[id] # requests[id]
        PROVE  /\ id # arg[c].id
               /\ requests'[id].status = "pending" => requests'[id].w # arg[c].w
               /\ pc[c] = "inserted" => ~(/\ requests'[id].key = arg[c].key
                                          /\ Owner[requests'[id].w] = Owner[arg[c].w])
    BY <1>2, <1>3, <2>3, <2>5, <2>6
  <2> QED
    BY <1>0, <2>1, <2>2, <2>4, <2>6, OthersReady
<1> QED
  BY <1>5, <1>6, <1>7, <1>8, <1>9 DEF RowsSound

\* A review commits: the status, its movement if it has one, its audit entry and its
\* notification, at once.
LEMMA ReviewCommits ==
    ASSUME RequestInv, NEW t \in Calls, pc[t] \in ReviewSteps,
           NEW status \in {"approved", "rejected", "cancelled"}, NEW verb,
           Mark(arg[t].id, status), Audit(verb, arg[t].id), UnlockRequests(t), Finish(t),
           UNCHANGED answers,
           notices' = notices \cup {[kind |-> "withdrawal_approved", id |-> i] : i \in
                                        {j \in {arg[t].id} : status = "approved"}}
                              \cup {[kind |-> "withdrawal_rejected", id |-> i] : i \in
                                        {j \in {arg[t].id} : status = "rejected"}},
           \/ status = "approved" /\ verb = "withdrawal.approve"
           \/ status = "rejected" /\ verb = "withdrawal.reject"
           \/ status = "cancelled" /\ verb = "withdrawal.cancel",
           \/ status = "approved" /\ UNCHANGED ledger
           \/ status # "approved" /\ MoveTx(arg[t].w, "refund", arg[t].id, arg[t].amount, arg[t].seen)
    PROVE  AllReady' /\ AnswersKnown' /\ RowsSound'
<1> DEFINE k == arg[t].id
           w == arg[t].w
           row == [requests[k] EXCEPT !.status = status]
<1>0. TypeOK /\ CallTypes /\ AllReady /\ AnswersKnown /\ RowsSound /\ WalletTypeOK
  BY DEF RequestInv, MoneyInv, Typed, TypeOK
<1>1. /\ w \in Wallets /\ k \in WithdrawalIds /\ k \in Ids /\ requests[k] # None
      /\ arg[t].amount \in Int /\ arg[t].seen \in Int
  BY <1>0, WithdrawalsAssumption DEF CallTypes, ReviewSteps, TypeOK, Args
<1>2. /\ requests[k] \in Request /\ requests[k].status = "pending"
      /\ requests[k].w = w /\ requests[k].amount = arg[t].amount /\ requestLock[k] = t
  BY <1>0, <1>1, RequestFields DEF AllReady, Reviewing
<1>3. /\ row \in Request /\ row.status = status
      /\ row.key = requests[k].key /\ row.w = w /\ row.amount = arg[t].amount
      /\ Described(row) = Described(requests[k])
  BY <1>2 DEF Request, Described
<1>4. Writes(k, row)
  BY <1>0, <1>1 DEF Mark, Writes, TypeOK
<1> HIDE DEF row
<1>5. row # None
  BY <1>0, <1>1, <1>3, <1>4, WritesRow
<1>6. MoneyFollowsStatus'
  <2>1. \A id \in WithdrawalIds, v \in Wallets : PostedFor(v, id) = Due(requests[id], v)
    BY <1>0, MoneyByRow DEF RowsSound
  <2>2. \A v \in Wallets : PostedFor(v, k) = IF v = w THEN {<<"withdrawal", -arg[t].amount>>} ELSE {}
    BY <1>1, <1>2, <2>1 DEF Due
  <2>3. CASE status = "approved" /\ UNCHANGED ledger
    <3>1. \A v \in Wallets : Due(row, v) = IF v = w THEN {<<"withdrawal", -arg[t].amount>>} ELSE {}
      BY <1>3, <1>5, <2>3 DEF Due
    <3>2. \A id \in WithdrawalIds, v \in Wallets : PostedFor(v, id)' = PostedFor(v, id)
      BY <2>3 DEF PostedFor
    <3>3. \A id \in WithdrawalIds, v \in Wallets :
              PostedFor(v, id)' = IF id = k THEN Due(row, v) ELSE PostedFor(v, id)
      BY <2>2, <3>1, <3>2
    <3> QED
      BY <1>0, <1>1, <1>3, <1>4, <3>3, MoneyCommits
  <2>4. CASE status # "approved" /\ MoveTx(w, "refund", k, arg[t].amount, arg[t].seen)
    <3>1. ~Posted(w, "refund", k)
      <4> SUFFICES ASSUME Posted(w, "refund", k) PROVE FALSE
        OBVIOUS
      <4>1. PICK amount \in Int : <<"refund", amount>> \in PostedFor(w, k)
        BY <1>0, <1>1, PostedIsSaid
      <4>2. <<"refund", amount>> = <<"withdrawal", -arg[t].amount>>
        BY <1>1, <2>2, <4>1
      <4> QED
        BY <4>2
    <3>2. \A v \in Wallets : Due(row, v) =
              IF v = w THEN {<<"withdrawal", -arg[t].amount>>, <<"refund", arg[t].amount>>} ELSE {}
      BY <1>3, <1>5, <2>4 DEF Due
    <3>3. ASSUME NEW id \in WithdrawalIds, NEW v \in Wallets
          PROVE  PostedFor(v, id)' = IF id = k THEN Due(row, v) ELSE PostedFor(v, id)
      <4>1. id \in Ids
        BY WithdrawalsAssumption
      <4>2. PostedFor(v, id)' = IF v = w /\ id = k THEN PostedFor(v, id) \cup {<<"refund", arg[t].amount>>}
                                ELSE PostedFor(v, id)
        BY <1>0, <1>1, <2>4, <3>1, <4>1, MoveTxPosts DEF Kinds
      <4> QED
        BY <2>2, <3>2, <4>2
    <3> QED
      BY <1>0, <1>1, <1>3, <1>4, <3>3, MoneyCommits
  <2> QED
    BY <2>3, <2>4
<1>7. OnePendingPerWallet'
  BY <1>0, <1>1, <1>3, <1>4, PendingCommits
<1>8. AnswersKnown' /\ IdempotentCreate'
  BY <1>0, <1>1, <1>3, <1>4, KeyCommits
<1>9. PaperTrail'
  <2>1. Told(trail, k) = {"withdrawal.request"}
    BY <1>0, <1>1, <1>2, PaperByRow, StoryOf DEF RowsSound
  <2>2. Story(row) = {"withdrawal.request", verb}
    BY <1>3, <1>5, StoryOf
  <2>3. \A id \in WithdrawalIds : Told(trail', id) = IF id = k THEN Story(row) ELSE Told(trail, id)
    BY <2>1, <2>2, AuditTells
  <2>4. notices' = notices \cup {[kind |-> "withdrawal_approved", id |-> i] : i \in
                                     {j \in {k} : row.status = "approved"}}
                           \cup {[kind |-> "withdrawal_rejected", id |-> i] : i \in
                                     {j \in {k} : row.status = "rejected"}}
    BY <1>3
  <2> QED
    BY <1>0, <1>1, <1>2, <1>3, <1>4, <2>3, <2>4, PaperCommits
<1>10. AllReady'
  <2>1. /\ pc'[t] = "idle"
        /\ \A c \in Calls \ {t} : pc'[c] = pc[c] /\ arg'[c] = arg[c]
    BY <1>0 DEF Finish, TypeOK
  <2>2. Reviewing(t)' /\ Creating(t)'
    BY <2>1, NothingReady DEF ReviewSteps
  <2>3. /\ requests'[k] = row
        /\ \A id \in WithdrawalIds : requests'[id] # requests[id] => id = k
    BY <1>0, <1>1, <1>3, <1>4, WritesRow
  <2>4. ASSUME NEW c \in Calls \ {t}, pc[c] \in ReviewSteps
        PROVE  requestLock'[arg[c].id] = c /\ requests'[arg[c].id] = requests[arg[c].id]
    BY <1>0, <2>3, <2>4, ReviewsApart
  <2>5. ASSUME NEW c \in Calls \ {t}, NEW id \in WithdrawalIds, Inserting(c), requests'[id] # requests[id]
        PROVE  /\ id # arg[c].id
               /\ requests'[id].status = "pending" => requests'[id].w # arg[c].w
               /\ pc[c] = "inserted" => ~(/\ requests'[id].key = arg[c].key
                                          /\ Owner[requests'[id].w] = Owner[arg[c].w])
    <3>1. Creating(c) /\ id = k
      BY <1>0, <2>3, <2>5 DEF AllReady
    <3>2. id # arg[c].id
      BY <1>1, <2>5, <3>1 DEF Creating
    <3>3. pc[c] = "inserted" => ~(requests[k].key = arg[c].key /\ Owner[requests[k].w] = Owner[arg[c].w])
      BY <1>1, <3>1 DEF Creating, ByIdempotencyKey, Recorded
    <3> QED
      BY <1>2, <1>3, <2>3, <3>1, <3>2, <3>3
  <2> QED
    BY <1>0, <2>1, <2>2, <2>4, <2>5, OthersReady
<1> QED
  BY <1>6, <1>7, <1>8, <1>9, <1>10 DEF RowsSound

LEMMA CommitReviewSound ==
    ASSUME RequestInv, NEW t \in Calls, CommitApprove(t) \/ CommitReject(t) \/ CommitCancel(t)
    PROVE  AllReady' /\ AnswersKnown' /\ RowsSound'
<1> DEFINE told(status) ==
        notices \cup {[kind |-> "withdrawal_approved", id |-> i] : i \in {j \in {arg[t].id} : status = "approved"}}
                \cup {[kind |-> "withdrawal_rejected", id |-> i] : i \in {j \in {arg[t].id} : status = "rejected"}}
<1>1. CASE CommitApprove(t)
  <2>1. notices' = told("approved")
    BY <1>1 DEF CommitApprove, Notify
  <2>2. UNCHANGED ledger /\ pc[t] \in ReviewSteps
    BY <1>1 DEF CommitApprove, walletVars, ReviewSteps
  <2> QED
    BY <1>1, <2>1, <2>2, ReviewCommits DEF CommitApprove
<1>2. CASE CommitReject(t)
  <2>1. notices' = told("rejected")
    BY <1>2 DEF CommitReject, Notify
  <2>2. pc[t] \in ReviewSteps
    BY <1>2 DEF CommitReject, ReviewSteps
  <2> QED
    BY <1>2, <2>1, <2>2, ReviewCommits DEF CommitReject
<1>3. CASE CommitCancel(t)
  <2>1. notices' = told("cancelled")
    BY <1>3 DEF CommitCancel
  <2>2. pc[t] \in ReviewSteps
    BY <1>3 DEF CommitCancel, ReviewSteps
  <2> QED
    BY <1>3, <2>1, <2>2, ReviewCommits DEF CommitCancel
<1> QED
  BY <1>1, <1>2, <1>3

LEMMA RequestNext == RequestInv /\ [Next]_vars => RequestInv'
<1> SUFFICES ASSUME RequestInv, [Next]_vars PROVE AllReady' /\ AnswersKnown' /\ RowsSound'
  BY MoneyNext DEF RequestInv
<1>0. TypeOK /\ AnswersKnown /\ RowsSound
  BY DEF RequestInv, MoneyInv, Typed
<1>1. CASE \E t \in Calls : CommitCreate(t) \/ CommitApprove(t) \/ CommitReject(t) \/ CommitCancel(t)
  BY <1>1, CommitCreateSound, CommitReviewSound
<1>2. CASE AllReady' /\ Uncommitted
  BY <1>0, <1>2, UncommittedSound
<1>3. CASE \E t \in Calls : Begin(t)
  <2>1. PICK t \in Calls : Begin(t)
    BY <1>3
  <2> QED
    BY <1>2, <2>1, StartsSound, LockRequestSound DEF Begin
<1>4. CASE \E t \in Calls : Continue(t)
  <2>1. PICK t \in Calls : Continue(t)
    BY <1>4
  <2> QED
    BY <1>1, <1>2, <2>1, AdjustSound, EndsSound, StartsSound, HoldSound DEF Continue
<1>5. CASE \E t \in Calls : Blocking(t) \/ Abort(t)
  BY <1>2, <1>5, InsertSound, ReleaseSound, EndsSound DEF Blocking
<1>6. CASE \/ UNCHANGED vars
           \/ \E m \in Methods : UpdatePaymentMethod(m)
           \/ \E w \in Wallets, status \in WalletStatus : SetWalletStatus(w, status) /\ UNCHANGED requestVars
  BY <1>2, <1>6, OutsideSound
<1> QED
  BY <1>3, <1>4, <1>5, <1>6 DEF Next

LEMMA RequestsSound == Spec => []RequestInv
BY RequestInit, RequestNext, PTL DEF Spec

\* A request is there exactly when its amount was debited, and the amount is back
\* exactly when it was rejected or cancelled.
THEOREM MoneyStaysWithStatus == Spec => []MoneyFollowsStatus
<1>1. RequestInv => MoneyFollowsStatus
  BY DEF RequestInv, RowsSound
<1> QED
  BY <1>1, RequestsSound, PTL

\* No interleaving of creates and reviews gives a wallet two requests waiting.
THEOREM PendingStaysSingle == Spec => []OnePendingPerWallet
<1>1. RequestInv => OnePendingPerWallet
  BY DEF RequestInv, RowsSound
<1> QED
  BY <1>1, RequestsSound, PTL

\* A user's Idempotency-Key never names two requests, and no answer to it is wrong.
THEOREM CreateStaysIdempotent == Spec => []IdempotentCreate
<1>1. RequestInv => IdempotentCreate
  BY DEF RequestInv, RowsSound
<1> QED
  BY <1>1, RequestsSound, PTL

\* The audit log and the notifications never tell another story than the rows.
THEOREM PaperStaysTrue == Spec => []PaperTrail
<1>1. RequestInv => PaperTrail
  BY DEF RequestInv, RowsSound
<1> QED
  BY <1>1, RequestsSound, PTL

-----------------------------------------------------------------------------
(* The refinement: every commit is a step of Escrow, every other step a stutter *)

\* The rows seen as claims, as Promise is instantiated.
ClaimOf(row) == IF row = None THEN None
                ELSE [w |-> row.w, amount |-> row.amount, state |-> ClaimState[row.status]]
Claims == [id \in WithdrawalIds |-> ClaimOf(requests[id])]

LEMMA ClaimFields ==
    ASSUME NEW row \in Request
    PROVE  /\ ClaimOf(row) = [w |-> row.w, amount |-> row.amount, state |-> ClaimState[row.status]]
           /\ ClaimOf(row) # None /\ ClaimOf(row).w = row.w /\ ClaimOf(row).amount = row.amount
           /\ ClaimOf(row).state = ClaimState[row.status]
           /\ row.status = "pending" => ClaimState[row.status] = "held"
           /\ ClaimState[row.status] = "held" => row.status = "pending"
<1>1. row # None /\ row.w \in Wallets /\ row.amount \in Amounts
      /\ row.status \in {"pending", "approved", "rejected", "cancelled"}
  BY RequestAssumption DEF Request
<1>2. /\ ClaimState["pending"] = "held" /\ ClaimState["approved"] = "paid"
      /\ ClaimState["rejected"] = "returned" /\ ClaimState["cancelled"] = "returned"
  BY DEF ClaimState
<1>3. ClaimOf(row) = [w |-> row.w, amount |-> row.amount, state |-> ClaimState[row.status]]
  BY <1>1 DEF ClaimOf
<1>4. ClaimState[row.status] \in {"held", "paid", "returned"}
  BY <1>1, <1>2
<1>5. ClaimOf(row) \in [w : Wallets, amount : Amounts, state : {"held", "paid", "returned"}]
  BY <1>1, <1>3, <1>4
<1> QED
  BY <1>1, <1>2, <1>3, <1>5, ClaimAssumption

\* What the debit of a create and the refund of a review commit: never a replay.
LEMMA CommitsMove ==
    ASSUME RequestInv, NEW t \in Calls
    PROVE  /\ pc[t] = "inserted" => ~Posted(arg[t].w, "withdrawal", arg[t].id)
           /\ pc[t] \in ReviewSteps => ~Posted(arg[t].w, "refund", arg[t].id)
<1>0. TypeOK /\ CallTypes /\ AllReady /\ RowsSound /\ WalletTypeOK
  BY DEF RequestInv, MoneyInv, Typed, TypeOK
<1>1. \A id \in WithdrawalIds, v \in Wallets : PostedFor(v, id) = Due(requests[id], v)
  BY <1>0, MoneyByRow DEF RowsSound
<1>2. ASSUME pc[t] = "inserted" PROVE ~Posted(arg[t].w, "withdrawal", arg[t].id)
  <2>1. arg[t].w \in Wallets /\ arg[t].id \in WithdrawalIds /\ requests[arg[t].id] = None
    BY <1>0, <1>2 DEF CallTypes, AllReady, Creating, Inserting
  <2>2. PostedFor(arg[t].w, arg[t].id) = {}
    BY <1>1, <2>1 DEF Due
  <2> QED
    BY <1>0, <2>1, <2>2, PostedIsSaid
<1>3. ASSUME pc[t] \in ReviewSteps PROVE ~Posted(arg[t].w, "refund", arg[t].id)
  <2>1. /\ arg[t].w \in Wallets /\ arg[t].id \in WithdrawalIds /\ requests[arg[t].id] # None
        /\ requests[arg[t].id].status = "pending"
    BY <1>0, <1>3 DEF CallTypes, ReviewSteps, AllReady, Reviewing
  <2>2. \A x \in PostedFor(arg[t].w, arg[t].id) : x[1] = "withdrawal"
    BY <1>1, <2>1 DEF Due
  <2>3. SUFFICES ASSUME Posted(arg[t].w, "refund", arg[t].id) PROVE FALSE
    OBVIOUS
  <2>4. PICK amount \in Int : <<"refund", amount>> \in PostedFor(arg[t].w, arg[t].id)
    BY <1>0, <2>1, <2>3, PostedIsSaid
  <2> QED
    BY <2>2, <2>4
<1> QED
  BY <1>2, <1>3

\* The commit of one row, seen as claims.
LEMMA ClaimsWritten ==
    ASSUME TypeOK, NEW k \in WithdrawalIds, NEW row \in Request, Writes(k, row)
    PROVE  Claims' = [Claims EXCEPT ![k] = ClaimOf(row)]
<1>1. \A id \in WithdrawalIds : requests'[id] = IF id = k THEN row ELSE requests[id]
  BY WritesRow
<1>2. Claims' = [id \in WithdrawalIds |-> ClaimOf(requests'[id])]
  BY DEF Claims, ClaimOf
<1> QED
  BY <1>1, <1>2 DEF Claims

LEMMA CreateClaims ==
    ASSUME RequestInv, NEW t \in Calls, CommitCreate(t)
    PROVE  Promise!Next
<1> DEFINE k == arg[t].id
           w == arg[t].w
           row == [key |-> arg[t].key, w |-> w, method |-> arg[t].method,
                   amount |-> arg[t].amount, status |-> "pending"]
<1>0. TypeOK /\ CallTypes /\ AllReady /\ WalletTypeOK /\ pc[t] = "inserted"
  BY DEF RequestInv, MoneyInv, Typed, TypeOK, CommitCreate
<1>1. /\ arg[t].key \in Keys /\ arg[t].method \in Methods /\ arg[t].amount \in Amounts
      /\ w \in Wallets /\ k \in WithdrawalIds /\ arg[t].amount \in Int /\ arg[t].amount > 0
      /\ arg[t].seen = balance[w] /\ balance[w] \in Int /\ balance[w] - arg[t].amount \in 0..MaxSafe
  BY <1>0, AmountType DEF RequestInv, MoneyInv, CallTypes, CreateSteps, AllLocked, Locked, SeenSteps, WalletTypeOK
<1>2. row \in Request /\ row.w = w /\ row.amount = arg[t].amount /\ row.status = "pending"
  BY <1>1 DEF Request
<1>3. Writes(k, row) /\ MoveTx(w, "withdrawal", k, -arg[t].amount, arg[t].seen)
  BY DEF CommitCreate, Writes
<1> HIDE DEF row
<1>4. balance' = [balance EXCEPT ![w] = balance[w] - arg[t].amount]
  BY <1>0, <1>1, <1>3, CommitsMove DEF MoveTx
<1>5. Claims' = [Claims EXCEPT ![k] = [w |-> w, amount |-> arg[t].amount, state |-> "held"]]
  BY <1>0, <1>1, <1>2, <1>3, ClaimsWritten, ClaimFields DEF ClaimState
<1>6. Claims[k] = None
  BY <1>0, <1>1 DEF AllReady, Creating, Inserting, Claims, ClaimOf
<1>7. \A other \in WithdrawalIds : Claims[other] # None /\ Claims[other].state = "held" => Claims[other].w # w
  <2> SUFFICES ASSUME NEW other \in WithdrawalIds, Claims[other] # None, Claims[other].state = "held"
               PROVE  Claims[other].w # w
    OBVIOUS
  <2>1. Claims[other] = ClaimOf(requests[other]) /\ requests[other] # None
    BY DEF Claims, ClaimOf
  <2>2. requests[other] \in Request
    BY <1>0, <2>1, RequestFields
  <2>3. requests[other].status = "pending" /\ Claims[other].w = requests[other].w
    BY <2>1, <2>2, ClaimFields
  <2> QED
    BY <1>0, <2>1, <2>3 DEF AllReady, Creating, Inserting, hasPending, Recorded
<1>8. arg[t].amount \in 1..MaxSafe /\ arg[t].amount <= balance[w]
  BY <1>0, <1>1, WalletAssumption DEF RequestInv, MoneyInv, BalancesInRange
<1>9. ASSUME NEW id \in WithdrawalIds, NEW v \in Wallets, NEW amount \in 1..MaxSafe,
             id = k, v = w, amount = arg[t].amount
      PROVE  Promise!Next
  <2>1. Promise!Claim(id, v, amount)
    BY <1>4, <1>5, <1>6, <1>7, <1>8, <1>9 DEF Promise!Claim, Promise!Open, Claims, ClaimOf
  <2> QED
    BY <2>1 DEF Promise!Next
<1> QED
  BY <1>1, <1>8, <1>9

LEMMA ReviewClaims ==
    ASSUME RequestInv, NEW t \in Calls, CommitApprove(t) \/ CommitReject(t) \/ CommitCancel(t)
    PROVE  Promise!Next
<1> DEFINE k == arg[t].id
           w == arg[t].w
<1>0. TypeOK /\ CallTypes /\ AllReady /\ pc[t] \in ReviewSteps
  BY DEF RequestInv, MoneyInv, Typed, CommitApprove, CommitReject, CommitCancel, ReviewSteps
<1>1. /\ w \in Wallets /\ k \in WithdrawalIds /\ requests[k] # None /\ arg[t].amount \in Int
      /\ requests[k].status = "pending" /\ requests[k].w = w /\ requests[k].amount = arg[t].amount
  BY <1>0 DEF CallTypes, ReviewSteps, TypeOK, Args, AllReady, Reviewing
<1>2. requests[k] \in Request
  BY <1>0, <1>1, RequestFields
<1>3. PICK status \in {"approved", "rejected", "cancelled"} :
          /\ Mark(k, status)
          /\ status = "approved" => CommitApprove(t)
          /\ status # "approved" => CommitReject(t) \/ CommitCancel(t)
  BY DEF CommitApprove, CommitReject, CommitCancel
<1> DEFINE row == [requests[k] EXCEPT !.status = status]
           state == IF status = "approved" THEN "paid" ELSE "returned"
<1>4. /\ row \in Request /\ row.w = w /\ row.amount = arg[t].amount /\ row.status = status
      /\ Writes(k, row)
  <2>1. row \in Request /\ row.w = w /\ row.amount = arg[t].amount /\ row.status = status
    BY <1>1, <1>2 DEF Request
  <2> QED
    BY <1>0, <1>1, <1>3, <2>1 DEF Mark, Writes, TypeOK
<1>5. ClaimState[status] = state
  BY DEF ClaimState
<1> HIDE DEF row, state
<1>6. Claims[k] = [w |-> w, amount |-> arg[t].amount, state |-> "held"] /\ Claims[k] # None
  BY <1>1, <1>2, ClaimFields DEF Claims, ClaimState
<1>7. Claims' = [Claims EXCEPT ![k] = [w |-> w, amount |-> arg[t].amount, state |-> state]]
  BY <1>0, <1>1, <1>4, <1>5, ClaimsWritten, ClaimFields
<1>8. [Claims[k] EXCEPT !.state = state] = [w |-> w, amount |-> arg[t].amount, state |-> state]
  BY <1>6
<1>9. Claims' = [Claims EXCEPT ![k] = [Claims[k] EXCEPT !.state = state]]
  BY <1>7, <1>8
<1>10. /\ Claims[k].w = w /\ Claims[k].amount = arg[t].amount /\ Claims[k].state = "held"
       /\ Claims = [id \in WithdrawalIds |-> ClaimOf(requests[id])]
       /\ Claims' = [id \in WithdrawalIds |-> ClaimOf(requests'[id])]
  BY <1>6 DEF Claims, ClaimOf
<1>11. CASE status = "approved"
  <2>1. UNCHANGED balance /\ state = "paid"
    BY <1>3, <1>11 DEF CommitApprove, walletVars, state
  <2>2. ASSUME NEW id \in WithdrawalIds, id = k PROVE Promise!Next
    <3>1. Promise!Pay(id)
      BY <1>6, <1>9, <1>10, <2>1, <2>2 DEF Promise!Pay, Promise!Open, Claims, ClaimOf
    <3> QED
      BY <3>1 DEF Promise!Next
  <2> QED
    BY <1>1, <2>2
<1>12. CASE status # "approved"
  <2>1. /\ MoveTx(w, "refund", k, arg[t].amount, arg[t].seen) /\ ~Posted(w, "refund", k)
        /\ pc[t] \in {"rejected", "cancelled"} /\ state = "returned"
    BY <1>0, <1>3, <1>12, CommitsMove DEF CommitReject, CommitCancel, state
  <2>2. /\ balance' = [balance EXCEPT ![w] = arg[t].seen + arg[t].amount]
        /\ arg[t].seen = balance[w] /\ balance[w] + arg[t].amount \in 0..MaxSafe
    BY <2>1 DEF MoveTx, RequestInv, MoneyInv, AllLocked, Locked, SeenSteps
  <2>3. ASSUME NEW id \in WithdrawalIds, id = k PROVE Promise!Next
    <3>1. /\ Claims[id] # None /\ Claims[id].state = "held"
          /\ balance[Claims[id].w] + Claims[id].amount <= MaxSafe
          /\ Claims' = [Claims EXCEPT ![id] = [Claims[id] EXCEPT !.state = "returned"]]
          /\ balance' = [balance EXCEPT ![Claims[id].w] = balance[Claims[id].w] + Claims[id].amount]
      <4>1. Claims[id].w = w /\ Claims[id].amount = arg[t].amount /\ Claims[id].state = "held"
            /\ Claims[id] # None
        BY <1>6, <1>10, <2>3
      <4>2. Claims' = [Claims EXCEPT ![id] = [Claims[id] EXCEPT !.state = "returned"]]
        BY <1>9, <2>1, <2>3
      <4>3. balance[w] + arg[t].amount <= MaxSafe
        BY <2>2
      <4>4. balance' = [balance EXCEPT ![w] = balance[w] + arg[t].amount]
        BY <2>2
      <4> HIDE DEF k, w
      <4> QED
        BY <4>1, <4>2, <4>3, <4>4
    <3>2. Promise!Return(id)
      BY <3>1 DEF Promise!Return, Promise!Open, Claims, ClaimOf
    <3> QED
      BY <3>2 DEF Promise!Next
  <2> QED
    BY <1>1, <2>3
<1> QED
  BY <1>11, <1>12

LEMMA StepsAreKept ==
    ASSUME RequestInv, [Next]_vars
    PROVE  [Promise!Next]_Promise!vars
<1>1. CASE UNCHANGED <<balance, requests>>
  BY <1>1 DEF Promise!vars
<1>2. ASSUME NEW t \in Calls, CommitAdjust(t), UNCHANGED requestVars
      PROVE  Promise!Next \/ UNCHANGED <<balance, requests>>
  <2>1. /\ arg[t].w \in Wallets /\ arg[t].seen = balance[arg[t].w]
        /\ arg[t].seen + arg[t].amount \in 0..MaxSafe
    BY <1>2 DEF RequestInv, MoneyInv, Typed, CallTypes, AllLocked, Locked, SeenSteps, CommitAdjust
  <2>2. balance' = [balance EXCEPT ![arg[t].w] = arg[t].seen + arg[t].amount] /\ UNCHANGED requests
    BY <1>2 DEF CommitAdjust, MoveTx, Posted, requestVars
  <2>3. ASSUME NEW w \in Wallets, NEW after \in 0..MaxSafe,
               w = arg[t].w, after = arg[t].seen + arg[t].amount
        PROVE  Promise!Next
    <3>1. Promise!Move(w, after)
      BY <2>2, <2>3 DEF Promise!Move
    <3> QED
      BY <3>1 DEF Promise!Next
  <2> QED
    BY <2>1, <2>3
<1>3. ASSUME NEW t \in Calls,
             CommitCreate(t) \/ CommitApprove(t) \/ CommitReject(t) \/ CommitCancel(t)
      PROVE  Promise!Next
  BY <1>3, CreateClaims, ReviewClaims
<1>4. ASSUME NEW t \in Calls, Begin(t) \/ Blocking(t) \/ Abort(t) PROVE UNCHANGED <<balance, requests>>
  BY <1>4 DEF Begin, Blocking, Abort, StartAdjust, LockWallet, LockRequest, InsertRequest, ReleaseHold,
              requestVars, walletVars
<1>5. ASSUME NEW t \in Calls,
             \/ Replay(t) \/ KeyUnknown(t) \/ Refuse(t) \/ AnswerRace(t)
             \/ \E id \in WithdrawalIds : Hold(t, id)
      PROVE  UNCHANGED <<balance, requests>>
  BY <1>5 DEF Replay, KeyUnknown, Refuse, AnswerRace, Hold, requestVars, walletVars
<1>6. ASSUME \/ UNCHANGED vars
             \/ \E m \in Methods : UpdatePaymentMethod(m)
             \/ \E w \in Wallets, status \in WalletStatus : SetWalletStatus(w, status) /\ UNCHANGED requestVars
      PROVE  UNCHANGED <<balance, requests>>
  BY <1>6 DEF UpdatePaymentMethod, SetWalletStatus, vars, requestVars, walletVars
<1> QED
  BY <1>1, <1>2, <1>3, <1>4, <1>5, <1>6 DEF Next, Continue

\* Withdrawals implements Escrow: no withdrawal, review, abort or adjustment does to
\* the funds and the claims what Escrow does not allow.
THEOREM PromiseIsKept == Spec => KeepsPromise
<1>1. Init => Promise!Init
  BY DEF Init, WalletInit, Promise!Init
<1>2. RequestInv /\ [Next]_vars => [Promise!Next]_Promise!vars
  BY StepsAreKept
<1> QED
  BY <1>1, <1>2, RequestsSound, PTL DEF Spec, KeepsPromise, Promise!Spec
===============================================================================
