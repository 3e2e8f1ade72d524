--------------------- MODULE ObservationVersionsProofs ---------------------
(***************************************************************************)
(* Proofs about ObservationVersions, for every set of keys, fingerprints   *)
(* and writers and every bound on the clock.                               *)
(***************************************************************************)
EXTENDS ObservationVersions, TLAPS

-----------------------------------------------------------------------------
(***************************************************************************)
(* The inductive invariant.                                                *)
(***************************************************************************)

\* Numbers identify rows, and the open row is the newest and the current one.
RowsInv(k) ==
    /\ \A u, v \in versions[k] : u.number = v.number => u = v
    /\ \A v \in versions[k] :
        /\ v.number <= current[k]
        /\ Open(v) <=> v.number = current[k]
        /\ ~Open(v) => v.to > v.from
        /\ v.last >= v.from
    /\ current[k] # Null => \E v \in versions[k] : v.number = current[k]

Covers(v, t) == v.from <= t /\ (Open(v) \/ v.to > t)

\* Once an observation is known, exactly one interval covers each instant.
CoverInv(k) ==
    \A t \in Instants :
        (\E v \in versions[k] : v.from <= t) =>
            \E v \in versions[k] :
                Covers(v, t) /\ \A u \in versions[k] : Covers(u, t) => u = v

LineageInv(k) ==
    /\ \A v \in versions[k] : \E l \in lineage[k] : l.number = v.number /\ l.at = v.last
    /\ \A l \in lineage[k] :
        \E v \in versions[k] : v.number = l.number /\ v.from <= l.at /\ l.at <= v.last

\* An open transaction has a response, the row lock of its key to itself, and
\* a base that is still the current version.
TxnInv ==
    \A w \in Writers : InTransaction(w) =>
        /\ response[w] # Null
        /\ txn[w].base = current[txn[w].key]
        /\ \A x \in Writers : InTransaction(x) /\ txn[x].key = txn[w].key => x = w

IInv ==
    /\ TypeOK
    /\ TxnInv
    /\ \A k \in Keys : RowsInv(k) /\ CoverInv(k) /\ LineageInv(k)

-----------------------------------------------------------------------------
LEMMA NoTransactionIsNone == \A x \in Transaction : x # NoTransaction
  BY ConstantsAssumption

\* What an open transaction knows about its key and its response.
LEMMA TransactionFacts ==
    ASSUME TypeOK, TxnInv, NEW w \in Writers, InTransaction(w)
    PROVE  /\ txn[w] \in Transaction
           /\ txn[w].key \in Keys
           /\ txn[w].fingerprint \in Fingerprints
           /\ txn[w].base \in Nat
           /\ txn[w].base = current[txn[w].key]
           /\ response[w] \in Instants
  BY DEF TypeOK, TxnInv, InTransaction, Transaction

\* The base of a transaction that found a current version is the open row.
LEMMA BaseFacts ==
    ASSUME IInv, NEW w \in Writers, InTransaction(w), txn[w].base # Null
    PROVE  /\ Base(w) \in versions[txn[w].key]
           /\ Base(w) \in Version
           /\ Base(w).number = current[txn[w].key]
           /\ Open(Base(w))
<1>1. txn[w].key \in Keys /\ txn[w].base = current[txn[w].key]
  BY TransactionFacts DEF IInv
<1>2. \E v \in versions[txn[w].key] : v.number = txn[w].base
  BY <1>1 DEF IInv, RowsInv
<1>3. Base(w) \in versions[txn[w].key] /\ Base(w).number = txn[w].base
  BY <1>2 DEF Base, Row
<1>4. QED
  BY <1>1, <1>3 DEF IInv, RowsInv, TypeOK

-----------------------------------------------------------------------------
LEMMA InitIInv == Init => IInv
<1> SUFFICES ASSUME Init PROVE IInv
  OBVIOUS
<1> USE DEF Init
<1>1. TypeOK
  BY ConstantsAssumption DEF TypeOK, Instants, Null
<1>2. TxnInv
  BY DEF TxnInv, InTransaction
<1>3. \A k \in Keys : RowsInv(k) /\ CoverInv(k) /\ LineageInv(k)
  BY DEF RowsInv, CoverInv, LineageInv
<1>4. QED
  BY <1>1, <1>2, <1>3 DEF IInv

\* A step that leaves the tables alone keeps everything said about rows.
LEMMA RowsUntouched ==
    ASSUME IInv, UNCHANGED <<versions, current, lineage>>
    PROVE  \A k \in Keys : (RowsInv(k) /\ CoverInv(k) /\ LineageInv(k))'
  BY DEF IInv, RowsInv, CoverInv, LineageInv, Open, Covers

\* A commit changes the rows of one key and ends the transaction holding it.
LEMMA CommitTxnInv ==
    ASSUME IInv, NEW w \in Writers, InTransaction(w), NEW rows, NEW n, Commit(w, rows, n)
    PROVE  TxnInv'
<1>1. txn' = [txn EXCEPT ![w] = NoTransaction] /\ response' = response
  BY DEF Commit
<1>2. current' = [current EXCEPT ![txn[w].key] = n]
  BY DEF Commit
<1>3. txn \in [Writers -> Transaction \cup {NoTransaction}] /\ current \in [Keys -> Nat]
  BY DEF IInv, TypeOK
<1>4. SUFFICES ASSUME NEW x \in Writers, InTransaction(x)'
               PROVE  /\ response'[x] # Null
                      /\ txn'[x].base = current'[txn'[x].key]
                      /\ \A y \in Writers : InTransaction(y)' /\ txn'[y].key = txn'[x].key => y = x
  BY DEF TxnInv, InTransaction
<1>5. x # w /\ txn'[x] = txn[x] /\ InTransaction(x)
  BY <1>1, <1>3, <1>4 DEF InTransaction
<1>6. txn[x].key # txn[w].key /\ txn[x].key \in Keys
  BY <1>5, TransactionFacts DEF IInv, TxnInv
<1>7. \A y \in Writers : InTransaction(y)' => y # w /\ txn'[y] = txn[y] /\ InTransaction(y)
  BY <1>1, <1>3 DEF InTransaction
<1>8. QED
  BY <1>1, <1>2, <1>3, <1>5, <1>6, <1>7 DEF IInv, TxnInv

LEMMA CommitOtherKeys ==
    ASSUME IInv, NEW w \in Writers, NEW rows, NEW n, Commit(w, rows, n),
           NEW k \in Keys, k # txn[w].key
    PROVE  (RowsInv(k) /\ CoverInv(k) /\ LineageInv(k))'
<1>1. versions'[k] = versions[k] /\ current'[k] = current[k] /\ lineage'[k] = lineage[k]
  BY DEF Commit, IInv, TypeOK
<1>2. QED
  BY <1>1 DEF IInv, RowsInv, CoverInv, LineageInv, Open, Covers

\* The tables of the key of a committing transaction.
LEMMA CommitOwnKey ==
    ASSUME IInv, NEW w \in Writers, InTransaction(w), NEW rows, NEW n, Commit(w, rows, n)
    PROVE  /\ versions'[txn[w].key] = rows
           /\ current'[txn[w].key] = n
           /\ lineage'[txn[w].key] =
                lineage[txn[w].key] \cup {[number |-> n, run |-> w, at |-> response[w]]}
<1>1. txn[w].key \in Keys
  BY TransactionFacts DEF IInv
<1>2. QED
  BY <1>1 DEF Commit, IInv, TypeOK

LEMMA CommitTypeOK ==
    ASSUME IInv, NEW w \in Writers, InTransaction(w),
           NEW rows \in SUBSET Version, NEW n \in Nat \ {0}, Commit(w, rows, n)
    PROVE  TypeOK'
<1>1. txn[w].key \in Keys /\ response[w] \in Instants
  BY TransactionFacts DEF IInv
<1>2. [number |-> n, run |-> w, at |-> response[w]] \in LineageRow
  BY <1>1 DEF LineageRow
<1>3. lineage' \in [Keys -> SUBSET LineageRow]
  BY <1>1, <1>2 DEF Commit, IInv, TypeOK
<1>4. versions' \in [Keys -> SUBSET Version] /\ current' \in [Keys -> Nat]
  BY <1>1 DEF Commit, IInv, TypeOK
<1>5. QED
  BY <1>3, <1>4 DEF Commit, IInv, TypeOK

-----------------------------------------------------------------------------
LEMMA InsertStep ==
    ASSUME IInv, NEW w \in Writers, Insert(w)
    PROVE  IInv'
<1>0. PICK k \in Keys : k = txn[w].key
  BY TransactionFacts DEF IInv, Insert
<1> DEFINE t == response[w]
           new == NewVersion(1, txn[w].fingerprint, t)
<1>1. /\ InTransaction(w) /\ txn[w].base = Null
      /\ Commit(w, versions[k] \cup {new}, 1)
  BY <1>0 DEF Insert
<1>2. t \in Instants /\ txn[w].fingerprint \in Fingerprints /\ current[k] = Null
  BY <1>0, <1>1, TransactionFacts DEF IInv
<1>3. versions[k] = {}
  BY <1>2 DEF IInv, RowsInv, TypeOK, Version, Null
<1>4. /\ versions'[k] = {new} /\ current'[k] = 1
      /\ lineage'[k] = lineage[k] \cup {[number |-> 1, run |-> w, at |-> t]}
  BY <1>1, <1>3, <1>0, CommitOwnKey
<1>5. /\ new \in Version /\ new.number = 1 /\ new.from = t /\ new.to = Null /\ new.last = t
  BY <1>2 DEF NewVersion, Version, Instants, Null
<1>6. TypeOK'
  BY <1>1, <1>2, <1>3, <1>5, CommitTypeOK
<1>7. TxnInv'
  BY <1>1, CommitTxnInv
<1>8. RowsInv(k)'
  BY <1>4, <1>5, <1>2 DEF RowsInv, Open, Null, Instants
<1>9. CoverInv(k)'
  BY <1>4, <1>5 DEF CoverInv, Covers, Open
<1>10. LineageInv(k)'
  <2>1. lineage[k] = {}
    BY <1>2, <1>3 DEF IInv, LineageInv
  <2>2. QED
    BY <2>1, <1>2, <1>4, <1>5 DEF LineageInv, Instants
<1>11. QED
  BY <1>1, <1>6, <1>7, <1>8, <1>9, <1>10, <1>0, CommitOtherKeys DEF IInv

LEMMA UnchangedStep ==
    ASSUME IInv, NEW w \in Writers, Unchanged(w)
    PROVE  IInv'
<1>0. PICK k \in Keys : k = txn[w].key
  BY TransactionFacts DEF IInv, Unchanged
<1> DEFINE t == response[w]
           v == Base(w)
           again == SeenAgain(v, t)
           rest == versions[k] \ {v}
<1>1. /\ InTransaction(w) /\ txn[w].base # Null
      /\ ~OutOfOrder(v, txn[w].fingerprint, t)
      /\ Commit(w, rest \cup {again}, v.number)
  BY <1>0 DEF Unchanged
<1>2. t \in Instants
  BY <1>1, TransactionFacts DEF IInv
<1>3. v \in versions[k] /\ v \in Version /\ v.number = current[k] /\ v.to = Null
  BY <1>0, <1>1, BaseFacts DEF Open
<1>4. /\ versions'[k] = rest \cup {again} /\ current'[k] = current[k]
      /\ lineage'[k] = lineage[k] \cup {[number |-> v.number, run |-> w, at |-> t]}
  BY <1>1, <1>3, <1>0, CommitOwnKey
<1>5. /\ again \in Version /\ again.number = v.number /\ again.from = v.from
      /\ again.to = Null /\ again.last = Later(v.last, t)
      /\ again.last >= v.last /\ again.last >= t
  BY <1>2, <1>3 DEF SeenAgain, Later, Version, Instants
<1>6. t >= v.from
  BY <1>1, <1>2, <1>3 DEF OutOfOrder, Version, Instants
<1>7. rest \subseteq Version /\ \A u \in rest : u.number # v.number
  BY <1>2, <1>3 DEF IInv, RowsInv, TypeOK
<1>8. TypeOK'
  BY <1>1, <1>3, <1>5, <1>7, CommitTypeOK DEF Version
<1>9. TxnInv'
  BY <1>1, CommitTxnInv
<1>10. RowsInv(k)'
  <2>1. RowsInv(k)
    BY <1>2 DEF IInv
  <2>2. v.last >= v.from
    BY <2>1, <1>3 DEF RowsInv
  <2>3. QED
    BY <1>3, <1>4, <1>5, <1>7, <2>1, <2>2 DEF RowsInv, Open, Version, Instants
<1>11. CoverInv(k)'
  <2>1. \A s \in Instants : Covers(again, s) <=> Covers(v, s)
    BY <1>3, <1>5 DEF Covers, Open
  <2>2. CoverInv(k)
    BY <1>2 DEF IInv
  <2>3. SUFFICES ASSUME NEW s \in Instants, \E u \in versions'[k] : u.from <= s
                 PROVE  \E u \in versions'[k] :
                          Covers(u, s) /\ \A x \in versions'[k] : Covers(x, s) => x = u
    BY DEF CoverInv, Covers, Open
  <2>4. \E u \in versions[k] : u.from <= s
    BY <2>3, <1>3, <1>4, <1>5
  <2>5. PICK u \in versions[k] : Covers(u, s) /\ \A x \in versions[k] : Covers(x, s) => x = u
    BY <2>2, <2>4 DEF CoverInv
  <2>6. CASE u = v
    BY <2>1, <2>5, <2>6, <1>4
  <2>7. CASE u # v
    BY <2>1, <2>5, <2>7, <1>3, <1>4
  <2>8. QED
    BY <2>6, <2>7
<1>12. LineageInv(k)'
  <2>1. LineageInv(k)
    BY <1>2 DEF IInv
  <2>2. \A u \in versions'[k] : \E l \in lineage'[k] : l.number = u.number /\ l.at = u.last
    <3>1. \E l \in lineage'[k] : l.number = again.number /\ l.at = again.last
      <4>1. CASE again.last = t
        <5> DEFINE seen == [number |-> v.number, run |-> w, at |-> t]
        <5>1. seen \in lineage'[k] /\ seen.number = again.number /\ seen.at = again.last
          BY <4>1, <1>4, <1>5
        <5>2. QED
          BY <5>1
      <4>2. CASE again.last = v.last
        BY <4>2, <2>1, <1>3, <1>4, <1>5 DEF LineageInv
      <4>3. QED
        BY <4>1, <4>2, <1>5 DEF Later
    <3>2. QED
      BY <3>1, <2>1, <1>4 DEF LineageInv
  <2>3. ASSUME NEW l \in lineage'[k]
        PROVE  \E u \in versions'[k] : u.number = l.number /\ u.from <= l.at /\ l.at <= u.last
    <3>1. CASE l \in lineage[k]
      <4>1. PICK u \in versions[k] : u.number = l.number /\ u.from <= l.at /\ l.at <= u.last
        BY <2>1, <3>1 DEF LineageInv
      <4>2. CASE u = v
        <5>1. l.at \in Instants
          BY <3>1, <1>2 DEF IInv, TypeOK, LineageRow
        <5>2. l.at <= again.last
          BY <4>1, <4>2, <5>1, <1>3, <1>5 DEF Version, Instants
        <5>3. QED
          BY <4>1, <4>2, <5>2, <1>4, <1>5
      <4>3. CASE u # v
        BY <4>1, <4>3, <1>4
      <4>4. QED
        BY <4>2, <4>3
    <3>2. CASE l = [number |-> v.number, run |-> w, at |-> t]
      BY <3>2, <1>4, <1>5, <1>6
    <3>3. QED
      BY <3>1, <3>2, <1>4
  <2>4. QED
    BY <2>2, <2>3 DEF LineageInv
<1>13. QED
  BY <1>1, <1>8, <1>9, <1>10, <1>11, <1>12, <1>0, CommitOtherKeys DEF IInv

LEMMA ReviseStep ==
    ASSUME IInv, NEW w \in Writers, Revise(w)
    PROVE  IInv'
<1>0. PICK k \in Keys : k = txn[w].key
  BY TransactionFacts DEF IInv, Revise
<1> DEFINE t == response[w]
           v == Base(w)
           n == v.number + 1
           old == Closed(v, t)
           new == NewVersion(n, txn[w].fingerprint, t)
           rest == versions[k] \ {v}
           seen == [number |-> n, run |-> w, at |-> t]
<1>1. /\ InTransaction(w) /\ txn[w].base # Null
      /\ ~OutOfOrder(v, txn[w].fingerprint, t)
      /\ txn[w].fingerprint # v.fingerprint
      /\ Commit(w, rest \cup {old, new}, n)
  BY <1>0 DEF Revise
<1>2. t \in Instants /\ txn[w].fingerprint \in Fingerprints
  BY <1>1, TransactionFacts DEF IInv
<1>3. v \in versions[k] /\ v \in Version /\ v.number = current[k] /\ v.to = Null
  BY <1>0, <1>1, BaseFacts DEF Open
<1>4. /\ versions'[k] = rest \cup {old, new} /\ current'[k] = n
      /\ lineage'[k] = lineage[k] \cup {seen}
  BY <1>1, <1>0, CommitOwnKey
<1>5. /\ old \in Version /\ old.number = v.number /\ old.from = v.from
      /\ old.to = t /\ old.last = v.last
  BY <1>2, <1>3 DEF Closed, Version, Instants
<1>6. /\ new \in Version /\ new.number = n /\ new.from = t /\ new.to = Null /\ new.last = t
  BY <1>2, <1>3 DEF NewVersion, Version, Instants
<1>7. t > v.from /\ t # Null /\ n \in Nat \ {0}
  BY <1>1, <1>2, <1>3 DEF OutOfOrder, Version, Instants, Null
<1>8. RowsInv(k) /\ CoverInv(k) /\ LineageInv(k)
  BY DEF IInv
<1>9. /\ rest \subseteq Version
      /\ \A u \in rest : u.number < v.number /\ ~Open(u) /\ u.to > u.from /\ u.last >= u.from
  <2>1. versions[k] \subseteq Version
    BY DEF IInv, TypeOK
  <2>2. \A u \in rest : u.number # v.number /\ u.number <= v.number
    BY <1>3, <1>8 DEF RowsInv
  <2>3. \A u \in rest : u.number < v.number
    BY <2>1, <2>2, <1>3 DEF Version
  <2>4. QED
    BY <2>1, <2>2, <2>3, <1>3, <1>8 DEF RowsInv
<1>10. TypeOK'
  BY <1>1, <1>5, <1>6, <1>7, <1>9, CommitTypeOK
<1>11. TxnInv'
  BY <1>1, CommitTxnInv
<1>12. RowsInv(k)'
  <2>1. v.last >= v.from
    BY <1>3, <1>8 DEF RowsInv
  <2>2. \A x, y \in versions'[k] : x.number = y.number => x = y
    BY <1>3, <1>4, <1>5, <1>6, <1>8, <1>9 DEF RowsInv, Version
  <2>3. \A x \in versions'[k] :
          /\ x.number <= n
          /\ (x.to = Null) <=> x.number = n
          /\ ~(x.to = Null) => x.to > x.from
          /\ x.last >= x.from
    <3>1. \A x \in rest : x.number < n /\ ~(x.to = Null) /\ x.to > x.from /\ x.last >= x.from
      BY <1>3, <1>9 DEF Version, Open
    <3>2. /\ old.number < n /\ ~(old.to = Null) /\ old.to > old.from /\ old.last >= old.from
          /\ new.last >= new.from
      BY <2>1, <1>2, <1>3, <1>5, <1>6, <1>7 DEF Version, Instants
    <3>3. n \in Int /\ v.number \in Int /\ \A x \in rest : x.number \in Int
      BY <1>3, <1>7, <1>9 DEF Version
    <3> DEFINE Sound(x) == /\ x.number <= n
                           /\ (x.to = Null) <=> x.number = n
                           /\ ~(x.to = Null) => x.to > x.from
                           /\ x.last >= x.from
    <3>4. Sound(old) /\ Sound(new)
      BY <3>2, <3>3, <1>5, <1>6
    <3>5. \A x \in rest : Sound(x)
      BY <3>1, <3>3
    <3>6. QED
      BY <3>4, <3>5, <1>4
  <2>4. QED
    BY <2>2, <2>3, <1>4, <1>6 DEF RowsInv, Open
<1>13. CoverInv(k)'
  <2>1. SUFFICES ASSUME NEW s \in Instants, \E u \in versions'[k] : u.from <= s
                 PROVE  \E u \in versions'[k] :
                          Covers(u, s) /\ \A x \in versions'[k] : Covers(x, s) => x = u
    BY DEF CoverInv, Covers, Open
  <2>2. \E u \in versions[k] : u.from <= s
    BY <2>1, <1>2, <1>3, <1>4, <1>5, <1>6, <1>7 DEF Instants, Version
  <2>3. PICK u \in versions[k] : Covers(u, s) /\ \A x \in versions[k] : Covers(x, s) => x = u
    BY <2>2, <1>8 DEF CoverInv
  <2>4. CASE s < t
    <3>1. ~Covers(new, s)
      BY <2>4, <1>2, <1>6 DEF Covers, Instants
    <3>2. Covers(old, s) <=> Covers(v, s)
      BY <2>4, <1>2, <1>3, <1>5, <1>7 DEF Covers, Open, Instants, Version
    <3>3. CASE u = v
      BY <3>1, <3>2, <3>3, <2>3, <1>4
    <3>4. CASE u # v
      BY <3>1, <3>2, <3>4, <2>3, <1>3, <1>4
    <3>5. QED
      BY <3>3, <3>4
  <2>5. CASE ~(s < t)
    <3>1. Covers(new, s)
      BY <2>5, <1>2, <1>6 DEF Covers, Open, Instants
    <3>2. ~Covers(old, s)
      BY <2>5, <1>2, <1>5, <1>7 DEF Covers, Open, Instants
    <3>3. Covers(v, s)
      BY <2>5, <1>2, <1>3, <1>7 DEF Covers, Open, Instants, Version
    <3>4. \A x \in rest : ~Covers(x, s)
      BY <3>3, <2>3, <1>3
    <3>5. QED
      BY <3>1, <3>2, <3>4, <1>4
  <2>6. QED
    BY <2>4, <2>5
<1>14. LineageInv(k)'
  <2>1. \A u \in versions'[k] : \E l \in lineage'[k] : l.number = u.number /\ l.at = u.last
    <3>1. seen \in lineage'[k] /\ seen.number = new.number /\ seen.at = new.last
      BY <1>4, <1>6
    <3>2. \E l \in lineage'[k] : l.number = old.number /\ l.at = old.last
      BY <1>3, <1>4, <1>5, <1>8 DEF LineageInv
    <3>3. QED
      BY <3>1, <3>2, <1>4, <1>8 DEF LineageInv
  <2>2. ASSUME NEW l \in lineage'[k]
        PROVE  \E u \in versions'[k] : u.number = l.number /\ u.from <= l.at /\ l.at <= u.last
    <3>1. CASE l = seen
      BY <3>1, <1>2, <1>4, <1>6 DEF Instants
    <3>2. CASE l \in lineage[k]
      <4>1. PICK u \in versions[k] : u.number = l.number /\ u.from <= l.at /\ l.at <= u.last
        BY <3>2, <1>8 DEF LineageInv
      <4>2. CASE u = v
        BY <4>1, <4>2, <1>4, <1>5
      <4>3. CASE u # v
        BY <4>1, <4>3, <1>4
      <4>4. QED
        BY <4>2, <4>3
    <3>3. QED
      BY <3>1, <3>2, <1>4
  <2>3. QED
    BY <2>1, <2>2 DEF LineageInv
<1>15. QED
  BY <1>1, <1>10, <1>11, <1>12, <1>13, <1>14, <1>0, CommitOtherKeys DEF IInv

-----------------------------------------------------------------------------
LEMMA LockStep ==
    ASSUME IInv, NEW w \in Writers, NEW k \in Keys, NEW f \in Fingerprints,
           LockOrCreate(w, k, f)
    PROVE  IInv'
<1>1. /\ response[w] # Null /\ txn[w] = NoTransaction /\ ~RowLocked(k)
      /\ txn' = [txn EXCEPT ![w] = [key |-> k, fingerprint |-> f, base |-> current[k]]]
      /\ UNCHANGED <<clock, versions, current, lineage, response>>
  BY DEF LockOrCreate
<1>2. [key |-> k, fingerprint |-> f, base |-> current[k]] \in Transaction
  BY DEF IInv, TypeOK, Transaction
<1>3. TypeOK'
  BY <1>1, <1>2 DEF IInv, TypeOK
<1>4. TxnInv'
  BY <1>1, <1>2 DEF IInv, TypeOK, TxnInv, InTransaction, RowLocked
<1>5. QED
  BY <1>1, <1>3, <1>4, RowsUntouched DEF IInv

\* Steps that only take or drop a response, or end a transaction unsuccessfully.
LEMMA QuietStep ==
    ASSUME IInv, UNCHANGED <<versions, current, lineage>>,
           \/ Tick
           \/ \E w \in Writers : Retrieve(w) \/ RejectOutOfOrder(w) \/ Finish(w) \/ Crash(w)
    PROVE  IInv'
<1>1. TypeOK' /\ TxnInv'
  <2> USE DEF IInv, TypeOK, TxnInv, InTransaction, Instants, Null
  <2>1. CASE Tick
    BY <2>1, ConstantsAssumption DEF Tick
  <2>2. ASSUME NEW w \in Writers, Retrieve(w)
        PROVE  TypeOK' /\ TxnInv'
    BY <2>2 DEF Retrieve
  <2>3. ASSUME NEW w \in Writers, RejectOutOfOrder(w) \/ Crash(w)
        PROVE  TypeOK' /\ TxnInv'
    BY <2>3 DEF RejectOutOfOrder, Crash
  <2>4. ASSUME NEW w \in Writers, Finish(w)
        PROVE  TypeOK' /\ TxnInv'
    BY <2>4 DEF Finish
  <2>5. QED
    BY <2>1, <2>2, <2>3, <2>4
<1>2. QED
  BY <1>1, RowsUntouched DEF IInv

LEMMA NextIInv == IInv /\ [Next]_vars => IInv'
<1> SUFFICES ASSUME IInv, [Next]_vars PROVE IInv'
  OBVIOUS
<1>1. CASE Tick
  BY <1>1, QuietStep DEF Tick
<1>2. ASSUME NEW w \in Writers, Retrieve(w) \/ RejectOutOfOrder(w) \/ Finish(w) \/ Crash(w)
      PROVE  IInv'
  BY <1>2, QuietStep DEF Retrieve, RejectOutOfOrder, Finish, Crash
<1>3. ASSUME NEW w \in Writers, NEW k \in Keys, NEW f \in Fingerprints, LockOrCreate(w, k, f)
      PROVE  IInv'
  BY <1>3, LockStep
<1>4. ASSUME NEW w \in Writers, Insert(w) \/ Unchanged(w) \/ Revise(w)
      PROVE  IInv'
  BY <1>4, InsertStep, UnchangedStep, ReviseStep
<1>5. CASE UNCHANGED vars
  <2>1. TypeOK' /\ TxnInv'
    BY <1>5 DEF vars, IInv, TypeOK, TxnInv, InTransaction
  <2>2. QED
    BY <1>5, <2>1, RowsUntouched DEF vars, IInv
<1>6. QED
  BY <1>1, <1>2, <1>3, <1>4, <1>5 DEF Next

\* Rows, intervals, lineage and locks keep to the invariant, however the
\* transactions of the writers interleave.
THEOREM Invariance == Spec => []IInv
  BY InitIInv, NextIInv, PTL DEF Spec

-----------------------------------------------------------------------------
(***************************************************************************)
(* What readers and the database rely on.                                  *)
(***************************************************************************)

\* Every variable keeps its type: version numbers, instants and pointers are
\* what the columns hold.
THEOREM TypeCorrect == Spec => []TypeOK
  BY Invariance, PTL DEF IInv

\* No transaction of any number of concurrent writers would be refused by the
\* unique and check constraints of the version tables.
THEOREM ConstraintsNeverFire == Spec => []TableConstraints
<1>1. IInv => TableConstraints
  <2> SUFFICES ASSUME IInv, NEW k \in Keys
               PROVE  /\ \A u, v \in OpenVersions(k) : u = v
                      /\ \A v \in versions[k] :
                          /\ v.to = Null \/ v.to > v.from
                          /\ v.last >= v.from
                          /\ \A u \in versions[k] : u.number = v.number => u = v
    BY DEF TableConstraints
  <2>1. RowsInv(k)
    BY DEF IInv
  <2>2. QED
    BY <2>1 DEF RowsInv, OpenVersions, Open
<1>2. QED
  BY <1>1, Invariance, PTL

\* The current-version pointer and the open knowledge interval always name
\* the same row.
THEOREM PointerIsOpenVersion == Spec => []CurrentQueriesAgree
<1>1. IInv => CurrentQueriesAgree
  BY DEF IInv, RowsInv, CurrentQueriesAgree, CurrentVersions, OpenVersions
<1>2. QED
  BY <1>1, Invariance, PTL

\* From the first retrieval on, every instant is covered by exactly one
\* version of the observation.
THEOREM AsOfIsUniqueAndTotal == Spec => []KnowledgeIsGapless
<1>1. IInv => KnowledgeIsGapless
  <2> SUFFICES ASSUME IInv, NEW k \in Keys, NEW t \in Instants,
                      \E v \in versions[k] : v.from <= t
               PROVE  \E v \in versions[k] : KnownAt(k, t) = {v}
    BY DEF KnowledgeIsGapless
  <2>1. PICK v \in versions[k] : Covers(v, t) /\ \A u \in versions[k] : Covers(u, t) => u = v
    BY DEF IInv, CoverInv
  <2>2. KnownAt(k, t) = {v}
    BY <2>1 DEF KnownAt, Covers
  <2>3. QED
    BY <2>2
<1>2. QED
  BY <1>1, Invariance, PTL

\* last_observed_at of every version is the newest retrieval its lineage
\* records.
THEOREM LineageIsComplete == Spec => []LineageExplainsVersions
<1>1. IInv => LineageExplainsVersions
  BY DEF IInv, LineageInv, LineageExplainsVersions
<1>2. QED
  BY <1>1, Invariance, PTL

-----------------------------------------------------------------------------
(***************************************************************************)
(* What one step does to one observation.                                  *)
(***************************************************************************)
\* Writer w commits its response at its instant t to the observation k.
FirstSeen(w, k) ==
    /\ versions[k] = {}
    /\ versions'[k] = {NewVersion(1, txn[w].fingerprint, response[w])}
    /\ lineage'[k] = lineage[k] \cup {[number |-> 1, run |-> w, at |-> response[w]]}

Repeated(w, k) ==
    /\ txn[w].fingerprint = Base(w).fingerprint /\ response[w] >= Base(w).from
    /\ versions'[k] = (versions[k] \ {Base(w)}) \cup {SeenAgain(Base(w), response[w])}
    /\ lineage'[k] = lineage[k] \cup {[number |-> Base(w).number, run |-> w, at |-> response[w]]}

Revised(w, k) ==
    /\ txn[w].fingerprint # Base(w).fingerprint /\ response[w] > Base(w).from
    /\ versions'[k] = (versions[k] \ {Base(w)}) \cup
            {Closed(Base(w), response[w]),
             NewVersion(Base(w).number + 1, txn[w].fingerprint, response[w])}
    /\ lineage'[k] = lineage[k] \cup
            {[number |-> Base(w).number + 1, run |-> w, at |-> response[w]]}

Commits(w, k) ==
    /\ InTransaction(w) /\ txn[w].key = k /\ ~InTransaction(w)'
    /\ \/ FirstSeen(w, k)
       \/ txn[w].base # Null /\ (Repeated(w, k) \/ Revised(w, k))

LEMMA WriterCommits ==
    ASSUME IInv, NEW w \in Writers, Insert(w) \/ Unchanged(w) \/ Revise(w)
    PROVE  Commits(w, txn[w].key)
<1> DEFINE k == txn[w].key
<1>1. PICK rows, n : InTransaction(w) /\ Commit(w, rows, n)
  BY DEF Insert, Unchanged, Revise
<1>2. ~InTransaction(w)' /\ k \in Keys
  BY <1>1, TransactionFacts DEF Commit, InTransaction, IInv, TypeOK
<1>3. ASSUME txn[w].base # Null PROVE Base(w) \in Version /\ response[w] \in Instants
  BY <1>1, <1>3, BaseFacts, TransactionFacts DEF IInv
<1>4. CASE Insert(w)
  <2>1. Commit(w, versions[k] \cup {NewVersion(1, txn[w].fingerprint, response[w])}, 1)
    BY <1>4 DEF Insert
  <2>2. current[k] = Null
    BY <1>1, <1>4, TransactionFacts DEF IInv, Insert
  <2>3. versions[k] = {}
    BY <1>2, <2>2 DEF IInv, RowsInv, TypeOK, Version, Null
  <2>4. FirstSeen(w, k)
    BY <1>1, <2>1, <2>3, CommitOwnKey DEF FirstSeen
  <2> QED
    BY <1>1, <1>2, <2>4 DEF Commits
<1>5. CASE Unchanged(w)
  <2>1. /\ txn[w].base # Null /\ txn[w].fingerprint = Base(w).fingerprint
        /\ ~OutOfOrder(Base(w), txn[w].fingerprint, response[w])
        /\ Commit(w, (versions[k] \ {Base(w)}) \cup {SeenAgain(Base(w), response[w])},
                  Base(w).number)
    BY <1>5 DEF Unchanged
  <2>2. response[w] >= Base(w).from
    BY <1>3, <2>1 DEF OutOfOrder, Version, Instants
  <2>3. Repeated(w, k)
    BY <1>1, <2>1, <2>2, CommitOwnKey DEF Repeated
  <2> QED
    BY <1>1, <1>2, <2>1, <2>3 DEF Commits
<1>6. CASE Revise(w)
  <2>1. /\ txn[w].base # Null /\ txn[w].fingerprint # Base(w).fingerprint
        /\ ~OutOfOrder(Base(w), txn[w].fingerprint, response[w])
        /\ Commit(w, (versions[k] \ {Base(w)}) \cup
                     {Closed(Base(w), response[w]),
                      NewVersion(Base(w).number + 1, txn[w].fingerprint, response[w])},
                  Base(w).number + 1)
    BY <1>6 DEF Revise
  <2>2. response[w] > Base(w).from
    BY <1>3, <2>1 DEF OutOfOrder, Version, Instants
  <2>3. Revised(w, k)
    BY <1>1, <2>1, <2>2, CommitOwnKey DEF Revised
  <2> QED
    BY <1>1, <1>2, <2>1, <2>3 DEF Commits
<1> QED
  BY <1>4, <1>5, <1>6

LEMMA StepOnKey ==
    ASSUME IInv, [Next]_vars, NEW k \in Keys
    PROVE  \/ versions'[k] = versions[k] /\ lineage'[k] = lineage[k]
           \/ \E w \in Writers : Commits(w, k)
<1>1. CASE \/ UNCHANGED vars \/ Tick
           \/ \E w \in Writers :
                \/ Retrieve(w) \/ RejectOutOfOrder(w) \/ Finish(w) \/ Crash(w)
                \/ \E j \in Keys, f \in Fingerprints : LockOrCreate(w, j, f)
  BY <1>1 DEF vars, Tick, Retrieve, RejectOutOfOrder, Finish, Crash, LockOrCreate
<1>2. ASSUME NEW w \in Writers, Insert(w) \/ Unchanged(w) \/ Revise(w)
      PROVE  \/ versions'[k] = versions[k] /\ lineage'[k] = lineage[k]
             \/ Commits(w, k)
  <2>1. PICK rows, n : InTransaction(w) /\ Commit(w, rows, n)
    BY <1>2 DEF Insert, Unchanged, Revise
  <2>2. CASE txn[w].key # k
    BY <2>1, <2>2 DEF Commit, IInv, TypeOK
  <2>3. CASE txn[w].key = k
    BY <1>2, <2>3, WriterCommits
  <2> QED
    BY <2>2, <2>3
<1> QED
  BY <1>1, <1>2 DEF Next

\* Where v was there is still a row with its number, content and first instant.
SameRow(u, v) ==
    /\ u.number = v.number /\ u.fingerprint = v.fingerprint /\ u.from = v.from
    /\ u.last >= v.last
    /\ ~Open(v) => u = v

LEMMA RowsKept ==
    ASSUME IInv, [Next]_vars, NEW k \in Keys, NEW v \in versions[k]
    PROVE  \E u \in versions'[k] : SameRow(u, v)
<1>0. v \in Version
  BY DEF IInv, TypeOK
<1>1. SameRow(v, v)
  BY <1>0 DEF SameRow, Version, Instants
<1>2. CASE versions'[k] = versions[k]
  BY <1>1, <1>2
<1>3. ASSUME NEW w \in Writers, Commits(w, k), versions'[k] # versions[k], v = Base(w),
             txn[w].base # Null
      PROVE  \E u \in versions'[k] : SameRow(u, v)
  <2>1. Open(v) /\ response[w] \in Instants
    BY <1>3, BaseFacts, TransactionFacts DEF Commits, IInv
  <2>2. CASE Repeated(w, k)
    <3>1. SeenAgain(v, response[w]) \in versions'[k]
      BY <2>2, <1>3 DEF Repeated
    <3>2. SameRow(SeenAgain(v, response[w]), v)
      BY <1>0, <2>1 DEF SameRow, SeenAgain, Later, Version, Instants
    <3> QED
      BY <3>1, <3>2
  <2>3. CASE Revised(w, k)
    <3>1. Closed(v, response[w]) \in versions'[k]
      BY <2>3, <1>3 DEF Revised
    <3>2. SameRow(Closed(v, response[w]), v)
      BY <1>0, <2>1 DEF SameRow, Closed, Version, Instants
    <3> QED
      BY <3>1, <3>2
  <2> QED
    BY <1>3, <2>2, <2>3 DEF Commits, FirstSeen
<1>4. ASSUME NEW w \in Writers, Commits(w, k), v # Base(w) \/ txn[w].base = Null
      PROVE  v \in versions'[k]
  BY <1>4 DEF Commits, FirstSeen, Repeated, Revised
<1> QED
  BY <1>1, <1>2, <1>3, <1>4, StepOnKey

\* A lineage row that is new tells of the content its transaction wrote.
LEMMA NewSighting ==
    ASSUME IInv, [Next]_vars, NEW k \in Keys, NEW l \in lineage'[k], l \notin lineage[k]
    PROVE  \E w \in Writers :
                /\ InTransaction(w) /\ txn[w].key = k /\ l.run = w /\ ~InTransaction(w)'
                /\ \E u \in versions'[k] :
                        u.number = l.number /\ u.fingerprint = txn[w].fingerprint
<1>1. PICK w \in Writers : Commits(w, k)
  BY StepOnKey
<1>2. CASE FirstSeen(w, k)
  BY <1>1, <1>2 DEF Commits, FirstSeen, NewVersion
<1>3. CASE txn[w].base # Null /\ Repeated(w, k)
  <2>1. Base(w) \in Version
    BY <1>1, <1>3, BaseFacts DEF Commits
  <2>2. /\ SeenAgain(Base(w), response[w]).number = Base(w).number
        /\ SeenAgain(Base(w), response[w]).fingerprint = txn[w].fingerprint
    BY <1>3, <2>1 DEF SeenAgain, Repeated, Version
  <2> QED
    BY <1>1, <1>3, <2>2 DEF Commits, Repeated
<1>4. CASE txn[w].base # Null /\ Revised(w, k)
  <2> DEFINE new == NewVersion(Base(w).number + 1, txn[w].fingerprint, response[w])
  <2>1. new \in versions'[k] /\ l = [number |-> Base(w).number + 1, run |-> w, at |-> response[w]]
    BY <1>4 DEF Revised
  <2>2. l.run = w /\ new.number = l.number /\ new.fingerprint = txn[w].fingerprint
    BY <2>1 DEF NewVersion
  <2> HIDE DEF new
  <2> QED
    BY <1>1, <2>1, <2>2 DEF Commits
<1> QED
  BY <1>1, <1>2, <1>3, <1>4 DEF Commits

\* No step of any writer alters a superseded version, or anything but the end
\* and the last sighting of the current one.
THEOREM HistoryIsFrozen == Spec => SupersededVersionsFrozen
<1>1. IInv /\ [Next]_vars =>
        [\A k \in Keys : \A v \in versions[k] : \E u \in versions'[k] :
            /\ u.number = v.number /\ u.fingerprint = v.fingerprint /\ u.from = v.from
            /\ u.last >= v.last
            /\ ~Open(v) => u = v]_vars
  BY RowsKept DEF SameRow
<1> QED
  BY <1>1, Invariance, PTL DEF Spec, SupersededVersionsFrozen

-----------------------------------------------------------------------------
(***************************************************************************)
(* As-of answers.                                                          *)
(***************************************************************************)
Content(v) == <<v.number, v.fingerprint>>

\* A commit of a response retrieved after t changes no answer at t.
LEMMA EarlierAnswersKept ==
    ASSUME IInv, [Next]_vars, NEW k \in Keys, NEW t \in Instants,
           NEW w \in Writers, Commits(w, k), response[w] > t
    PROVE  {Content(v) : v \in KnownAt(k, t)'} = {Content(v) : v \in KnownAt(k, t)}
<1>1. response[w] \in Instants
  BY TransactionFacts DEF Commits, IInv
<1>2. CASE FirstSeen(w, k)
  <2>1. KnownAt(k, t) = {}
    BY <1>2 DEF FirstSeen, KnownAt
  <2>2. KnownAt(k, t)' = {}
    BY <1>1, <1>2 DEF FirstSeen, KnownAt, NewVersion, Instants
  <2> QED
    BY <2>1, <2>2
<1>3. ASSUME txn[w].base # Null
      PROVE  Base(w) \in versions[k] /\ Base(w) \in Version /\ Open(Base(w))
  BY <1>3, BaseFacts DEF Commits
<1>4. CASE txn[w].base # Null /\ Repeated(w, k)
  <2> DEFINE b == Base(w)
             c == SeenAgain(Base(w), response[w])
  <2>1. c.from = b.from /\ c.to = b.to /\ Content(c) = Content(b)
    BY <1>3, <1>4 DEF SeenAgain, Version, Content
  <2>2. versions'[k] = (versions[k] \ {b}) \cup {c} /\ b \in versions[k]
    BY <1>3, <1>4 DEF Repeated
  <2> HIDE DEF b, c
  <2>3. KnownAt(k, t)' = IF b \in KnownAt(k, t) THEN (KnownAt(k, t) \ {b}) \cup {c}
                         ELSE KnownAt(k, t)
    BY <2>1, <2>2 DEF KnownAt, Open
  <2> QED
    BY <2>1, <2>3
<1>5. CASE txn[w].base # Null /\ Revised(w, k)
  <2> DEFINE b == Base(w)
             c == Closed(Base(w), response[w])
             n == NewVersion(Base(w).number + 1, txn[w].fingerprint, response[w])
  <2>1. c.from = b.from /\ c.to = response[w] /\ Content(c) = Content(b) /\ b.to = Null
    BY <1>3, <1>5 DEF Closed, Version, Content, Open
  <2>2. n.from = response[w]
    BY DEF NewVersion
  <2>3. versions'[k] = (versions[k] \ {b}) \cup {c, n} /\ b \in versions[k] /\ b.from \in Instants
    BY <1>3, <1>5 DEF Revised, Version
  <2> HIDE DEF b, c, n
  <2>4. n \notin KnownAt(k, t)'
    BY <1>1, <2>2 DEF KnownAt, Instants
  <2>5. KnownAt(k, t)' = IF b \in KnownAt(k, t) THEN (KnownAt(k, t) \ {b}) \cup {c}
                         ELSE KnownAt(k, t)
    BY <1>1, <2>1, <2>3, <2>4 DEF KnownAt, Open, Instants, Null
  <2> QED
    BY <2>1, <2>5
<1> QED
  BY <1>2, <1>4, <1>5 DEF Commits

\* What is settled stays settled: a response still to come is stamped with the
\* clock, which has passed t.
LEMMA SettledStays ==
    ASSUME IInv, [Next]_vars, NEW t \in Instants, Settled(t)
    PROVE  Settled(t)'
<1> USE DEF Settled, IInv, TypeOK, Instants, Null
<1>1. CASE UNCHANGED vars
  BY <1>1 DEF vars
<1>2. CASE Tick
  BY <1>2 DEF Tick
<1>3. ASSUME NEW w \in Writers, Retrieve(w) PROVE Settled(t)'
  BY <1>3 DEF Retrieve
<1>4. ASSUME NEW w \in Writers, Insert(w) \/ Unchanged(w) \/ Revise(w) PROVE Settled(t)'
  BY <1>4 DEF Insert, Unchanged, Revise, Commit
<1>5. ASSUME NEW w \in Writers, RejectOutOfOrder(w) \/ Finish(w) \/ Crash(w) PROVE Settled(t)'
  BY <1>5 DEF RejectOutOfOrder, Finish, Crash
<1>6. ASSUME NEW w \in Writers, NEW k \in Keys, NEW f \in Fingerprints, LockOrCreate(w, k, f)
      PROVE  Settled(t)'
  BY <1>6 DEF LockOrCreate
<1> QED
  BY <1>1, <1>2, <1>3, <1>4, <1>5, <1>6 DEF Next

LEMMA SettledAnswerKept ==
    ASSUME IInv, [Next]_vars, NEW k \in Keys, NEW t \in Instants, Settled(t)
    PROVE  Answer(k, t)' = Answer(k, t)
<1>1. {Content(v) : v \in KnownAt(k, t)'} = {Content(v) : v \in KnownAt(k, t)}
  <2>1. CASE versions'[k] = versions[k]
    BY <2>1 DEF KnownAt
  <2>2. ASSUME NEW w \in Writers, Commits(w, k) PROVE response[w] > t
    BY <2>2 DEF Settled, Commits, IInv, TxnInv
  <2> QED
    BY <2>1, <2>2, StepOnKey, EarlierAnswersKept
<1>2. CASE ObservedOn[k] <= t
  BY <1>1, <1>2 DEF Answer, AsOf, Content
<1>3. CASE ~(ObservedOn[k] <= t)
  BY <1>3 DEF Answer, AsOf
<1> QED
  BY <1>2, <1>3

\* Once every response retrieved up to t has been processed, what an as-of
\* read at t returns is fixed for ever.
THEOREM AsOfIsRepeatable == Spec => SettledAnswersRepeat
<1>1. IInv /\ [Next]_vars =>
        [\A k \in Keys, t \in Instants :
            Settled(t) => Settled(t)' /\ Answer(k, t)' = Answer(k, t)]_vars
  BY SettledAnswerKept, SettledStays
<1> QED
  BY <1>1, Invariance, PTL DEF Spec, SettledAnswersRepeat

-----------------------------------------------------------------------------
(***************************************************************************)
(* The rows implement the abstract timeline.                               *)
(***************************************************************************)
\* The single known row is what is believed.
LEMMA BelievedIs ==
    ASSUME NEW k, NEW t, NEW v, KnownAt(k, t) = {v}
    PROVE  Believed(k, t) = v.fingerprint
  BY DEF Believed

LEMMA BelievedIsPrime ==
    ASSUME NEW k, NEW t, NEW v, KnownAt(k, t)' = {v}
    PROVE  Believed(k, t)' = v.fingerprint
  BY DEF Believed

LEMMA BeliefsUntouched ==
    ASSUME NEW k, NEW t, versions'[k] = versions[k]
    PROVE  Believed(k, t)' = Believed(k, t)
<1>1. KnownAt(k, t)' = KnownAt(k, t)
  BY DEF KnownAt
<1> QED
  BY <1>1 DEF Believed

\* At most one row is known at an instant.
LEMMA KnownIsUnique ==
    ASSUME IInv, NEW k \in Keys, NEW t \in Instants
    PROVE  KnownAt(k, t) = {} \/ \E v \in versions[k] : KnownAt(k, t) = {v}
  BY DEF IInv, CoverInv, Covers, KnownAt

LEMMA KnownIsUniquePrime ==
    ASSUME IInv', NEW k \in Keys, NEW t \in Instants
    PROVE  KnownAt(k, t)' = {} \/ \E v \in versions'[k] : KnownAt(k, t)' = {v}
  BY DEF IInv, CoverInv, Covers, KnownAt

LEMMA EarlierBeliefsKept ==
    ASSUME IInv, IInv', [Next]_vars, NEW k \in Keys, NEW t \in Instants,
           NEW w \in Writers, Commits(w, k), response[w] > t
    PROVE  Believed(k, t)' = Believed(k, t)
<1>1. {Content(v) : v \in KnownAt(k, t)'} = {Content(v) : v \in KnownAt(k, t)}
  BY EarlierAnswersKept
<1>2. CASE KnownAt(k, t) = {}
  <2>1. KnownAt(k, t)' = {}
    BY <1>1, <1>2
  <2> QED
    BY <1>2, <2>1 DEF Believed
<1>3. ASSUME NEW v \in versions[k], KnownAt(k, t) = {v}
      PROVE  Believed(k, t)' = Believed(k, t)
  <2>1. PICK u \in versions'[k] : KnownAt(k, t)' = {u}
    BY <1>1, <1>3, KnownIsUniquePrime
  <2>2. Content(u) = Content(v)
    BY <1>1, <1>3, <2>1
  <2> QED
    BY <1>3, <2>1, <2>2, BelievedIs, BelievedIsPrime DEF Content
<1> QED
  BY <1>2, <1>3, KnownIsUnique

\* From the instant of its retrieval on, a committed content is believed.
LEMMA LaterBeliefsLearnt ==
    ASSUME IInv, IInv', [Next]_vars, NEW k \in Keys, NEW t \in Instants,
           NEW w \in Writers, Commits(w, k), ~(response[w] > t)
    PROVE  Believed(k, t)' = txn[w].fingerprint
<1>0. response[w] \in Instants
  BY TransactionFacts DEF Commits, IInv
<1>1. ASSUME NEW u \in versions'[k], Covers(u, t)', u.fingerprint = txn[w].fingerprint
      PROVE  Believed(k, t)' = txn[w].fingerprint
  <2>1. u \in KnownAt(k, t)'
    BY <1>1 DEF KnownAt, Covers
  <2>2. KnownAt(k, t)' = {u}
    BY <2>1, KnownIsUniquePrime
  <2> QED
    BY <1>1, <2>2, BelievedIsPrime
<1>2. ASSUME NEW n, NewVersion(n, txn[w].fingerprint, response[w]) \in versions'[k]
      PROVE  Believed(k, t)' = txn[w].fingerprint
  <2>1. PICK u \in versions'[k] : u = NewVersion(n, txn[w].fingerprint, response[w])
    BY <1>2
  <2>2. u.from <= t /\ u.to = Null /\ u.fingerprint = txn[w].fingerprint
    BY <1>0, <2>1 DEF NewVersion, Instants
  <2> QED
    BY <1>1, <2>2 DEF Covers, Open
<1>3. CASE FirstSeen(w, k)
  BY <1>2, <1>3 DEF FirstSeen
<1>4. CASE txn[w].base # Null /\ Revised(w, k)
  BY <1>2, <1>4 DEF Revised
<1>5. CASE txn[w].base # Null /\ Repeated(w, k)
  <2> DEFINE c == SeenAgain(Base(w), response[w])
  <2>1. Base(w) \in Version /\ Open(Base(w))
    BY <1>5, BaseFacts DEF Commits
  <2>2. c.from <= t /\ c.to = Null /\ c.fingerprint = txn[w].fingerprint
    BY <1>0, <1>5, <2>1 DEF SeenAgain, Repeated, Version, Open, Instants
  <2>3. c \in versions'[k]
    BY <1>5 DEF Repeated
  <2> HIDE DEF c
  <2> QED
    BY <1>1, <2>2, <2>3 DEF Covers, Open
<1> QED
  BY <1>3, <1>4, <1>5 DEF Commits

\* Nothing was learnt about k at or after the instant of a commit that changes
\* a belief, and what it says is new there.
LEMMA CommitLearns ==
    ASSUME IInv, [Next]_vars, NEW k \in Keys, NEW w \in Writers, Commits(w, k)
    PROVE  \/ /\ \A u \in Instants : u >= response[w] - 1 =>
                        Believed(k, u) = Believed(k, response[w])
              /\ Believed(k, response[w]) # txn[w].fingerprint
           \/ \A u \in Instants : ~(response[w] > u) => Believed(k, u) = txn[w].fingerprint
<1>1. response[w] \in Instants /\ txn[w].fingerprint \in Fingerprints
  BY TransactionFacts DEF Commits, IInv
<1>2. CASE FirstSeen(w, k)
  <2>1. \A u \in Instants : Believed(k, u) = Unknown
    BY <1>2 DEF FirstSeen, Believed, KnownAt
  <2> QED
    BY <1>1, <2>1, ConstantsAssumption
<1>3. ASSUME txn[w].base # Null, NEW u \in Instants, u >= Base(w).from
      PROVE  Believed(k, u) = Base(w).fingerprint
  <2>1. Base(w) \in KnownAt(k, u)
    BY <1>3, BaseFacts DEF Commits, KnownAt, Version, Instants
  <2>2. KnownAt(k, u) = {Base(w)}
    BY <2>1, KnownIsUnique
  <2> QED
    BY <2>2, BelievedIs
<1>4. txn[w].base # Null => Base(w).from \in Instants
  BY BaseFacts DEF Commits, Version
<1>5. CASE txn[w].base # Null /\ Repeated(w, k)
  BY <1>1, <1>3, <1>4, <1>5 DEF Repeated, Instants
<1>6. CASE txn[w].base # Null /\ Revised(w, k)
  BY <1>1, <1>3, <1>4, <1>6 DEF Revised, Instants
<1> QED
  BY <1>2, <1>5, <1>6 DEF Commits

\* A step changes the rows of at most one observation.
LEMMA OneKeyAtATime ==
    ASSUME IInv, [Next]_vars, NEW k \in Keys, NEW w \in Writers, Commits(w, k),
           NEW j \in Keys, j # k
    PROVE  versions'[j] = versions[j]
<1>1. txn # txn'
  BY DEF Commits, InTransaction
<1>2. ASSUME NEW x \in Writers, NEW rows, NEW n, Commit(x, rows, n)
      PROVE  versions'[j] = versions[j]
  <2>1. x = w
    BY <1>2 DEF Commit, Commits, InTransaction, IInv, TypeOK
  <2> QED
    BY <1>2, <2>1 DEF Commit, Commits, IInv, TypeOK
<1>3. UNCHANGED versions \/ \E x \in Writers : Insert(x) \/ Unchanged(x) \/ Revise(x)
  BY DEF Next, vars, Tick, Retrieve, LockOrCreate, RejectOutOfOrder, Finish, Crash
<1> QED
  BY <1>2, <1>3 DEF Insert, Unchanged, Revise

LEMMA StepLearns ==
    IInv /\ IInv' /\ [Next]_vars =>
        [Timeline!TimelineNext]_([k \in Keys |-> [t \in Instants |-> Believed(k, t)]])
<1> DEFINE belief == [k \in Keys |-> [t \in Instants |-> Believed(k, t)]]
           beliefNext == [k \in Keys |-> [t \in Instants |-> Believed(k, t)']]
<1> SUFFICES ASSUME IInv, IInv', [Next]_vars
             PROVE  Timeline!TimelineNext \/ beliefNext = belief
  BY DEF Instants
<1>1. CASE \A k \in Keys : versions'[k] = versions[k]
  BY <1>1, BeliefsUntouched
<1>2. ASSUME NEW k \in Keys, NEW w \in Writers, Commits(w, k)
      PROVE  Timeline!TimelineNext \/ beliefNext = belief
  <2>1. \A j \in Keys \ {k} : \A t \in Instants : Believed(j, t)' = Believed(j, t)
    BY <1>2, OneKeyAtATime, BeliefsUntouched
  <2>2. \A t \in Instants : Believed(k, t)' =
            IF t >= response[w] THEN txn[w].fingerprint ELSE Believed(k, t)
    <3>1. response[w] \in Instants
      BY <1>2, TransactionFacts DEF Commits, IInv
    <3> QED
      BY <1>2, <3>1, EarlierBeliefsKept, LaterBeliefsLearnt DEF Instants
  <2>3. response[w] \in Instants /\ txn[w].fingerprint \in Fingerprints
    BY <1>2, TransactionFacts DEF Commits, IInv
  <2>4. CASE \A u \in Instants : ~(response[w] > u) => Believed(k, u) = txn[w].fingerprint
    <3>1. \A t \in Instants : Believed(k, t)' = Believed(k, t)
      BY <2>2, <2>3, <2>4 DEF Instants
    <3> QED
      BY <2>1, <3>1
  <2>5. CASE /\ \A u \in Instants : u >= response[w] - 1 =>
                        Believed(k, u) = Believed(k, response[w])
             /\ Believed(k, response[w]) # txn[w].fingerprint
    <3>1. Timeline!AfterLatestChange(k, response[w])
      BY <2>3, <2>5 DEF Timeline!AfterLatestChange, Timeline!Instants, Instants
    <3>2. belief[k][response[w]] # txn[w].fingerprint
      BY <2>3, <2>5
    <3>3. beliefNext = [belief EXCEPT ![k] =
            [u \in Instants |-> IF u >= response[w] THEN txn[w].fingerprint ELSE belief[k][u]]]
      BY <2>1, <2>2
    <3>4. Timeline!Learn(k, txn[w].fingerprint, response[w])
      BY <3>1, <3>2, <3>3 DEF Timeline!Learn, Timeline!Instants, Instants
    <3> QED
      BY <2>3, <3>4 DEF Timeline!TimelineNext, Timeline!Instants, Instants
  <2> QED
    BY <1>2, <2>4, <2>5, CommitLearns
<1> QED
  BY <1>1, <1>2, StepOnKey

\* Seen through as-of reads, the tables and the concurrent writers are the
\* abstract timeline, for every number of writers and observations.
THEOREM RowsImplementTimeline == Spec => ImplementsTimeline
<1>1. Init => Timeline!TimelineInit
  BY DEF Init, Timeline!TimelineInit, Timeline!Instants, Instants, Believed, KnownAt
<1> QED
  BY <1>1, StepLearns, Invariance, PTL DEF Spec, ImplementsTimeline, Timeline!TimelineSpec
=============================================================================
