----------------------------- MODULE WalletProofs -----------------------------
(***************************************************************************)
(* Lemmas about MoveTx that the proofs of every component that moves money  *)
(* rest on: it keeps the rows typed, the statement chained and, when its    *)
(* checks passed, the balance in range.                                     *)
(***************************************************************************)
EXTENDS Wallet, TLAPS

USE WalletAssumption

LEMMA MoveTxType ==
    ASSUME WalletTypeOK, NEW w \in Wallets, NEW kind \in Kinds, NEW ref \in Ids \cup {None},
           NEW amount \in Int, NEW seen \in Int, MoveTx(w, kind, ref, amount, seen)
    PROVE  balance' \in [Wallets -> Int] /\ ledger' \in [Wallets -> Seq(Entry)]
<1> DEFINE entry == [kind |-> kind, ref |-> ref, amount |-> amount,
                     before |-> seen, after |-> seen + amount]
<1>1. CASE Posted(w, kind, ref)
  BY <1>1 DEF MoveTx, WalletTypeOK
<1>2. CASE ~Posted(w, kind, ref)
  <2>1. entry \in Entry
    BY DEF Entry
  <2>2. Append(ledger[w], entry) \in Seq(Entry)
    BY <2>1 DEF WalletTypeOK
  <2>3. ledger' = [ledger EXCEPT ![w] = Append(ledger[w], entry)]
    BY <1>2 DEF MoveTx
  <2>4. ledger' \in [Wallets -> Seq(Entry)]
    BY <2>2, <2>3 DEF WalletTypeOK
  <2>5. balance' \in [Wallets -> Int]
    BY <1>2 DEF MoveTx, WalletTypeOK
  <2> QED
    BY <2>4, <2>5
<1> QED
  BY <1>1, <1>2

\* The rows of the other wallets are left alone.
LEMMA MoveTxOthers ==
    ASSUME WalletTypeOK, NEW w \in Wallets, NEW kind, NEW ref, NEW amount, NEW seen,
           MoveTx(w, kind, ref, amount, seen), NEW v \in Wallets \ {w}
    PROVE  balance'[v] = balance[v] /\ ledger'[v] = ledger[v]
BY DEF MoveTx, WalletTypeOK

-----------------------------------------------------------------------------
(* One statement *)

\* The entry a movement appends to a statement that ends at `before'.
EntryOf(kind, ref, amount, before) ==
    [kind |-> kind, ref |-> ref, amount |-> amount, before |-> before, after |-> before + amount]

Says(book, kind, ref) ==
    ref # None /\ \E i \in DOMAIN book : book[i].kind = kind /\ book[i].ref = ref

\* Chained, of a statement and the balance it ends at.
BookChains(book, held) ==
    /\ held = IF Len(book) = 0 THEN 0 ELSE book[Len(book)].after
    /\ \A i \in DOMAIN book : /\ book[i].before = IF i - 1 = 0 THEN 0 ELSE book[i - 1].after
                              /\ book[i].after = book[i].before + book[i].amount
    /\ \A i, j \in DOMAIN book :
          book[i].ref # None /\ book[i].ref = book[j].ref /\ book[i].kind = book[j].kind => i = j

LEMMA ChainedBook ==
    ASSUME NEW w \in Wallets
    PROVE  /\ Chained(w) <=> BookChains(ledger[w], balance[w])
           /\ Chained(w)' <=> BookChains(ledger'[w], balance'[w])
BY DEF Chained, BookChains

LEMMA EntryType ==
    ASSUME NEW kind \in Kinds, NEW ref \in Ids \cup {None}, NEW amount \in Int, NEW before \in Int
    PROVE  EntryOf(kind, ref, amount, before) \in Entry
BY DEF EntryOf, Entry

LEMMA AppendedEntries ==
    ASSUME NEW book \in Seq(Entry), NEW e \in Entry
    PROVE  /\ Append(book, e) \in Seq(Entry)
           /\ Len(book) \in Nat /\ DOMAIN book = 1..Len(book)
           /\ Len(Append(book, e)) = Len(book) + 1
           /\ DOMAIN Append(book, e) = 1..(Len(book) + 1)
           /\ Append(book, e)[Len(book) + 1] = e
           /\ \A i \in 1..Len(book) : Append(book, e)[i] = book[i]
           /\ \A i \in 1..(Len(book) + 1) : i \in 1..Len(book) \/ i = Len(book) + 1
OBVIOUS

\* An entry of a new key that continues a statement leaves it chained.
LEMMA AppendChains ==
    ASSUME NEW book \in Seq(Entry), NEW held \in Int, BookChains(book, held),
           NEW kind \in Kinds, NEW ref \in Ids \cup {None}, NEW amount \in Int, ~Says(book, kind, ref)
    PROVE  BookChains(Append(book, EntryOf(kind, ref, amount, held)), held + amount)
<1> DEFINE e == EntryOf(kind, ref, amount, held)
           b == Append(book, e)
           n == Len(book)
<1>1. e \in Entry
  BY EntryType
<1>2. e.before = held /\ e.after = held + amount /\ e.amount = amount /\ e.kind = kind /\ e.ref = ref
  BY DEF EntryOf
<1> HIDE DEF e
<1>3. /\ n \in Nat /\ DOMAIN book = 1..n /\ Len(b) = n + 1 /\ DOMAIN b = 1..(n + 1)
      /\ b[n + 1] = e /\ \A i \in 1..n : b[i] = book[i]
      /\ \A i \in 1..(n + 1) : i \in 1..n \/ i = n + 1
  BY <1>1, AppendedEntries
<1>4. /\ held = IF n = 0 THEN 0 ELSE book[n].after
      /\ \A i \in 1..n : /\ book[i].before = IF i - 1 = 0 THEN 0 ELSE book[i - 1].after
                         /\ book[i].after = book[i].before + book[i].amount
      /\ \A i, j \in 1..n :
            book[i].ref # None /\ book[i].ref = book[j].ref /\ book[i].kind = book[j].kind => i = j
      /\ \A i \in 1..n : ~(ref # None /\ book[i].kind = kind /\ book[i].ref = ref)
  BY <1>3 DEF BookChains, Says
<1> HIDE DEF b, n
<1>5. ASSUME NEW i \in 1..(n + 1)
      PROVE  /\ b[i].before = IF i - 1 = 0 THEN 0 ELSE b[i - 1].after
             /\ b[i].after = b[i].before + b[i].amount
  <2>1. CASE i \in 1..n
    <3>1. b[i] = book[i] /\ (i - 1 # 0 => i - 1 \in 1..n /\ b[i - 1] = book[i - 1])
      BY <1>3, <2>1
    <3> QED
      BY <1>4, <2>1, <3>1
  <2>2. CASE i = n + 1
    <3>1. i - 1 = n /\ (n # 0 => b[n] = book[n]) /\ b[i] = e
      BY <1>3, <2>2
    <3> QED
      BY <1>2, <1>4, <3>1
  <2> QED
    BY <1>3, <2>1, <2>2
<1>6. \A i, j \in 1..(n + 1) : b[i].ref # None /\ b[i].ref = b[j].ref /\ b[i].kind = b[j].kind => i = j
  <2> SUFFICES ASSUME NEW i \in 1..(n + 1), NEW j \in 1..(n + 1),
                      b[i].ref # None, b[i].ref = b[j].ref, b[i].kind = b[j].kind
               PROVE  i = j
    OBVIOUS
  <2>1. ~(i \in 1..n /\ j = n + 1) /\ ~(i = n + 1 /\ j \in 1..n)
    BY <1>2, <1>3, <1>4
  <2> QED
    BY <1>3, <1>4, <2>1
<1>7. held + amount = IF Len(b) = 0 THEN 0 ELSE b[Len(b)].after
  BY <1>2, <1>3
<1>8. BookChains(b, held + amount)
  BY <1>3, <1>5, <1>6, <1>7 DEF BookChains
<1> QED
  BY <1>8 DEF b, e

\* A movement computed from the balance the row has extends the statement by
\* one entry that continues it.
LEMMA MoveTxChains ==
    ASSUME WalletTypeOK, NEW w \in Wallets, NEW kind \in Kinds, NEW ref \in Ids \cup {None},
           NEW amount \in Int, MoveTx(w, kind, ref, amount, balance[w]), StatementChains
    PROVE  StatementChains'
<1> SUFFICES ASSUME NEW v \in Wallets PROVE Chained(v)'
  BY DEF StatementChains
<1>0. BookChains(ledger[v], balance[v])
  BY ChainedBook DEF StatementChains
<1>1. CASE v # w \/ Posted(w, kind, ref)
  <2>1. balance'[v] = balance[v] /\ ledger'[v] = ledger[v]
    BY <1>1, MoveTxOthers DEF MoveTx
  <2> QED
    BY <1>0, <2>1, ChainedBook
<1>2. CASE v = w /\ ~Posted(w, kind, ref)
  <2>1. /\ ledger'[w] = Append(ledger[w], EntryOf(kind, ref, amount, balance[w]))
        /\ balance'[w] = balance[w] + amount
        /\ ledger[w] \in Seq(Entry) /\ balance[w] \in Int
    BY <1>2 DEF MoveTx, WalletTypeOK, EntryOf
  <2>2. ~Says(ledger[w], kind, ref)
    BY <1>2 DEF Posted, Says
  <2>3. BookChains(ledger'[w], balance'[w])
    BY <1>0, <1>2, <2>1, <2>2, AppendChains
  <2> QED
    BY <1>2, <2>3, ChainedBook
<1> QED
  BY <1>1, <1>2

\* A movement whose result was checked keeps every balance in range.
LEMMA MoveTxInRange ==
    ASSUME WalletTypeOK, NEW w \in Wallets, NEW kind \in Kinds, NEW ref \in Ids \cup {None},
           NEW amount \in Int, NEW seen \in Int, MoveTx(w, kind, ref, amount, seen),
           Posted(w, kind, ref) \/ seen + amount \in 0..MaxSafe, BalancesInRange
    PROVE  BalancesInRange'
BY DEF MoveTx, WalletTypeOK, BalancesInRange

\* What MoveTx checks bounds the balance it writes.
LEMMA MovableInRange ==
    ASSUME NEW w \in Wallets, NEW amount \in Int, BalancesInRange, Movable(w, amount)
    PROVE  balance[w] + amount \in 0..MaxSafe
BY DEF BalancesInRange, Movable, IsSafeMinor

-----------------------------------------------------------------------------
(* What a statement says of one request or round. *)

PostedFor(w, ref) ==
    {<<ledger[w][i].kind, ledger[w][i].amount>> : i \in {j \in DOMAIN ledger[w] : ledger[w][j].ref = ref}}

SaidOf(book, ref) ==
    {<<book[i].kind, book[i].amount>> : i \in {j \in DOMAIN book : book[j].ref = ref}}

LEMMA PostedForBook ==
    \A w, ref : PostedFor(w, ref) = SaidOf(ledger[w], ref) /\ PostedFor(w, ref)' = SaidOf(ledger'[w], ref)
BY DEF PostedFor, SaidOf

LEMMA AppendSays ==
    ASSUME NEW book \in Seq(Entry), NEW e \in Entry, NEW id
    PROVE  SaidOf(Append(book, e), id) = IF id = e.ref THEN SaidOf(book, id) \cup {<<e.kind, e.amount>>}
                                         ELSE SaidOf(book, id)
<1> DEFINE b == Append(book, e)
           n == Len(book)
<1>1. /\ DOMAIN book = 1..n /\ DOMAIN b = 1..(n + 1) /\ b[n + 1] = e /\ \A i \in 1..n : b[i] = book[i]
      /\ n \in Nat /\ \A i \in 1..(n + 1) : i \in 1..n \/ i = n + 1
  BY AppendedEntries
<1> HIDE DEF b, n
<1>2. 1..n \subseteq 1..(n + 1) /\ n + 1 \in 1..(n + 1)
  BY <1>1
<1>3. \A x : x \in SaidOf(b, id) <=> \E i \in 1..(n + 1) : b[i].ref = id /\ x = <<b[i].kind, b[i].amount>>
  BY <1>1 DEF SaidOf
<1>4. \A x : x \in SaidOf(book, id) <=> \E i \in 1..n : book[i].ref = id /\ x = <<book[i].kind, book[i].amount>>
  BY <1>1 DEF SaidOf
<1>5. \A x : x \in SaidOf(b, id) <=> x \in SaidOf(book, id) \/ (id = e.ref /\ x = <<e.kind, e.amount>>)
  BY <1>1, <1>2, <1>3, <1>4
<1>6. SaidOf(b, id) = IF id = e.ref THEN SaidOf(book, id) \cup {<<e.kind, e.amount>>} ELSE SaidOf(book, id)
  BY <1>5
<1> QED
  BY <1>6 DEF b

\* A movement that is not a replay adds itself to what is said of its reference, and
\* nothing to what is said of any other.
LEMMA MoveTxPosts ==
    ASSUME WalletTypeOK, NEW w \in Wallets, NEW kind \in Kinds, NEW ref \in Ids \cup {None},
           NEW amount \in Int, NEW seen \in Int, MoveTx(w, kind, ref, amount, seen),
           ~Posted(w, kind, ref), NEW v \in Wallets, NEW id \in Ids
    PROVE  PostedFor(v, id)' = IF v = w /\ id = ref THEN PostedFor(v, id) \cup {<<kind, amount>>}
                               ELSE PostedFor(v, id)
<1>1. CASE v # w
  <2>1. ledger'[v] = ledger[v]
    BY <1>1, MoveTxOthers
  <2> QED
    BY <1>1, <2>1, PostedForBook
<1>2. CASE v = w
  <2> DEFINE e == EntryOf(kind, ref, amount, seen)
  <2>1. ledger[w] \in Seq(Entry) /\ ledger'[w] = Append(ledger[w], e)
    BY DEF MoveTx, WalletTypeOK, EntryOf
  <2>2. e \in Entry /\ e.kind = kind /\ e.ref = ref /\ e.amount = amount
    BY EntryType DEF EntryOf
  <2> HIDE DEF e
  <2>3. SaidOf(Append(ledger[w], e), id) =
            IF id = ref THEN SaidOf(ledger[w], id) \cup {<<kind, amount>>} ELSE SaidOf(ledger[w], id)
    <3>1. SaidOf(Append(ledger[w], e), id) =
              IF id = e.ref THEN SaidOf(ledger[w], id) \cup {<<e.kind, e.amount>>} ELSE SaidOf(ledger[w], id)
      BY <2>1, <2>2, AppendSays, Zenon
    <3> QED
      BY <2>2, <3>1, Zenon
  <2> QED
    BY <1>2, <2>1, <2>3, PostedForBook
<1> QED
  BY <1>1, <1>2

\* A posted key is one of the movements of its reference.
LEMMA PostedIsSaid ==
    ASSUME WalletTypeOK, NEW w \in Wallets, NEW kind, NEW ref, Posted(w, kind, ref)
    PROVE  \E amount \in Int : <<kind, amount>> \in PostedFor(w, ref)
<1>1. ledger[w] \in Seq(Entry)
  BY DEF WalletTypeOK
<1>2. PICK i \in DOMAIN ledger[w] : ledger[w][i].kind = kind /\ ledger[w][i].ref = ref
  BY DEF Posted
<1>3. ledger[w][i] \in Entry
  BY <1>1, <1>2
<1> QED
  BY <1>2, <1>3 DEF PostedFor, Entry
===============================================================================
