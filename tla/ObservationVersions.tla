------------------------ MODULE ObservationVersions ------------------------
(***************************************************************************)
(* The bitemporal observation store: ObservationRevisionService and the    *)
(* two observation repositories (src/app/repositories/observations.py)     *)
(* over their PostgreSQL tables (src/app/database/models.py).              *)
(*                                                                         *)
(* A writer is an ingestion run that has a provider response in hand.      *)
(* Every record of the response is persisted in a transaction of its own:  *)
(* insert the logical row with ON CONFLICT DO NOTHING, select it FOR       *)
(* UPDATE, read the current version, then insert, touch or supersede it.   *)
(* Several writers may hold responses retrieved at different instants.     *)
(* The FX and the policy-rate tables run the same algorithm, a member of   *)
(* Keys is a row of either.                                                *)
(***************************************************************************)
EXTENDS Integers

CONSTANTS Keys,          \* logical observations: (series, observation date)
          Fingerprints,  \* SHA-256 fingerprints, i.e. distinct contents
          Writers,       \* ingestion runs that persist observations
          ObservedOn,    \* instant at which the observation date of a key begins
          Unknown,       \* the answer of a query that selects no row
          NoTransaction, \* a writer between two transactions
          MaxInstant     \* bound on the clock

Instants == 1..MaxInstant
Null == 0                \* SQL NULL in a timestamp or current_version_id

Transaction == [key : Keys, fingerprint : Fingerprints, base : Nat]

ASSUME ConstantsAssumption ==
    /\ MaxInstant \in Nat \ {0}
    /\ ObservedOn \in [Keys -> Nat]
    /\ Unknown \notin Fingerprints
    /\ NoTransaction \notin Transaction

VARIABLES
    clock,     \* UTC now
    versions,  \* *_observation_version rows of each key
    current,   \* current_version_id of each key, as a version number
    lineage,   \* *_observation_version_run rows of each key
    response,  \* retrieved_at of the response each writer has in hand, or Null
    txn        \* the open transaction of each writer, or NoTransaction

vars == <<clock, versions, current, lineage, response, txn>>

(***************************************************************************)
(* Rows.  first_observed_at always equals valid_from and is not repeated.  *)
(***************************************************************************)
Version == [number : Nat \ {0}, fingerprint : Fingerprints,
            from : Instants, to : Instants \cup {Null}, last : Instants]

LineageRow == [number : Nat \ {0}, run : Writers, at : Instants]

TypeOK ==
    /\ clock \in Instants
    /\ versions \in [Keys -> SUBSET Version]
    /\ current \in [Keys -> Nat]
    /\ lineage \in [Keys -> SUBSET LineageRow]
    /\ response \in [Writers -> Instants \cup {Null}]
    /\ txn \in [Writers -> Transaction \cup {NoTransaction}]

NewVersion(n, f, t) ==
    [number |-> n, fingerprint |-> f, from |-> t, to |-> Null, last |-> t]

\* Faulty variant: the last commit wins instead of the latest retrieval.
LastCommitted(s, t) == t

Later(s, t) == IF s > t THEN s ELSE t

SeenAgain(v, t) == [v EXCEPT !.last = Later(v.last, t)]

\* Faulty variant: valid_to taken as an inclusive bound.
ClosedInclusive(v, t) == [v EXCEPT !.to = t + 1]

Closed(v, t) == [v EXCEPT !.to = t]

\* Faulty variants: a conflicting content may share the first instant; the
\* order of retrievals is not looked at.
OutOfOrderStrictly(v, f, t) == t < v.from
NeverOutOfOrder(v, f, t) == FALSE

\* A retrieval that precedes the current knowledge interval, or a different
\* content that would share its first instant.
OutOfOrder(v, f, t) == t < v.from \/ (t = v.from /\ f # v.fingerprint)

Row(k, n) == CHOOSE v \in versions[k] : v.number = n

(***************************************************************************)
(* Queries.                                                                *)
(***************************************************************************)
Open(v) == v.to = Null

\* Faulty variant: an interval does not contain its first instant.
KnownAtExclusive(k, t) ==
    {v \in versions[k] : v.from < t /\ (Open(v) \/ v.to > t)}

\* Rows whose half-open knowledge interval [valid_from, valid_to) contains t.
KnownAt(k, t) ==
    {v \in versions[k] : v.from <= t /\ (Open(v) \/ v.to > t)}

\* as_of: future observation dates are hidden as well.
AsOf(k, t) == IF ObservedOn[k] <= t THEN KnownAt(k, t) ELSE {}

\* list_history without as_of selects the open rows ...
OpenVersions(k) == {v \in versions[k] : Open(v)}

\* ... and current() follows the current-version pointer.
CurrentVersions(k) == {v \in versions[k] : v.number = current[k]}

-----------------------------------------------------------------------------
Init ==
    /\ clock = 1
    /\ versions = [k \in Keys |-> {}]
    /\ current = [k \in Keys |-> Null]
    /\ lineage = [k \in Keys |-> {}]
    /\ response = [w \in Writers |-> Null]
    /\ txn = [w \in Writers |-> NoTransaction]

Tick ==
    /\ clock < MaxInstant
    /\ clock' = clock + 1
    /\ UNCHANGED <<versions, current, lineage, response, txn>>

\* Faulty variant: an instant before the response arrived is recorded.
RetrieveBackdated(w) ==
    /\ response[w] = Null
    /\ \E t \in 1..clock : response' = [response EXCEPT ![w] = t]
    /\ UNCHANGED <<clock, versions, current, lineage, txn>>

\* The provider response has arrived; its end is the candidates' retrieved_at.
Retrieve(w) ==
    /\ response[w] = Null
    /\ response' = [response EXCEPT ![w] = clock]
    /\ UNCHANGED <<clock, versions, current, lineage, txn>>

\* Faulty variant: SELECT without FOR UPDATE.
NeverLocked(k) == FALSE

RowLocked(k) == \E w \in Writers : txn[w] # NoTransaction /\ txn[w].key = k

\* The next record of the response: the logical row is created if it is
\* missing and locked, and its current version is read under that lock.
LockOrCreate(w, k, f) ==
    /\ response[w] # Null
    /\ txn[w] = NoTransaction
    /\ ~RowLocked(k)
    /\ txn' = [txn EXCEPT ![w] = [key |-> k, fingerprint |-> f, base |-> current[k]]]
    /\ UNCHANGED <<clock, versions, current, lineage, response>>

\* Commit of writer w: the rows of its key become rows, the pointer n, and the
\* version n gains a lineage row.
Commit(w, rows, n) ==
    LET k == txn[w].key
        seen == [number |-> n, run |-> w, at |-> response[w]]
    IN  /\ versions' = [versions EXCEPT ![k] = rows]
        /\ current' = [current EXCEPT ![k] = n]
        /\ lineage' = [lineage EXCEPT ![k] = @ \cup {seen}]
        /\ txn' = [txn EXCEPT ![w] = NoTransaction]
        /\ UNCHANGED <<clock, response>>

InTransaction(w) == txn[w] # NoTransaction

\* The candidate is the first version of its observation.
Insert(w) ==
    /\ InTransaction(w)
    /\ txn[w].base = Null
    /\ Commit(w, versions[txn[w].key] \cup {NewVersion(1, txn[w].fingerprint, response[w])}, 1)

\* The current version as the transaction read it.
Base(w) == Row(txn[w].key, txn[w].base)

\* The candidate repeats the current version: only last_observed_at moves.
Unchanged(w) ==
    /\ InTransaction(w)
    /\ txn[w].base # Null
    /\ ~OutOfOrder(Base(w), txn[w].fingerprint, response[w])
    /\ txn[w].fingerprint = Base(w).fingerprint
    /\ Commit(w, (versions[txn[w].key] \ {Base(w)}) \cup {SeenAgain(Base(w), response[w])},
              Base(w).number)

\* Faulty variant: the current row is rewritten in place.
ReviseInPlace(w) ==
    /\ InTransaction(w)
    /\ txn[w].base # Null
    /\ ~OutOfOrder(Base(w), txn[w].fingerprint, response[w])
    /\ txn[w].fingerprint # Base(w).fingerprint
    /\ Commit(w, (versions[txn[w].key] \ {Base(w)}) \cup
                 {[Base(w) EXCEPT !.fingerprint = txn[w].fingerprint, !.last = response[w]]},
              Base(w).number)

\* The candidate differs and was retrieved later: close the current version
\* and open its successor in the same transaction.
Revise(w) ==
    /\ InTransaction(w)
    /\ txn[w].base # Null
    /\ ~OutOfOrder(Base(w), txn[w].fingerprint, response[w])
    /\ txn[w].fingerprint # Base(w).fingerprint
    /\ LET next == Base(w).number + 1
       IN  Commit(w, (versions[txn[w].key] \ {Base(w)}) \cup
                     {Closed(Base(w), response[w]),
                      NewVersion(next, txn[w].fingerprint, response[w])}, next)

\* OutOfOrderObservationError: the transaction is rolled back and the rest of
\* the response is dropped with the failing scope.
RejectOutOfOrder(w) ==
    /\ InTransaction(w)
    /\ txn[w].base # Null
    /\ OutOfOrder(Base(w), txn[w].fingerprint, response[w])
    /\ txn' = [txn EXCEPT ![w] = NoTransaction]
    /\ response' = [response EXCEPT ![w] = Null]
    /\ UNCHANGED <<clock, versions, current, lineage>>

\* The last record has been processed, or the scope gave up between records.
Finish(w) ==
    /\ response[w] # Null
    /\ ~InTransaction(w)
    /\ response' = [response EXCEPT ![w] = Null]
    /\ UNCHANGED <<clock, versions, current, lineage, txn>>

\* The process or its connection dies inside a transaction: PostgreSQL rolls
\* it back and releases the row lock.
Crash(w) ==
    /\ InTransaction(w)
    /\ txn' = [txn EXCEPT ![w] = NoTransaction]
    /\ response' = [response EXCEPT ![w] = Null]
    /\ UNCHANGED <<clock, versions, current, lineage>>

Next ==
    \/ Tick
    \/ \E w \in Writers :
        \/ Retrieve(w)
        \/ \E k \in Keys, f \in Fingerprints : LockOrCreate(w, k, f)
        \/ Insert(w) \/ Unchanged(w) \/ Revise(w) \/ RejectOutOfOrder(w)
        \/ Finish(w) \/ Crash(w)

Spec == Init /\ [][Next]_vars

-----------------------------------------------------------------------------
(***************************************************************************)
(* Properties.                                                             *)
(***************************************************************************)

\* The constraints the tables declare (unique version_number, at most one open
\* row, valid_to > valid_from, last_observed_at >= first_observed_at) are never
\* what stops a transaction: two writers of one key never produce rows that
\* would be refused, because the row lock orders them.
TableConstraints ==
    \A k \in Keys :
        /\ \A u, v \in OpenVersions(k) : u = v
        /\ \A v \in versions[k] :
            /\ v.to = Null \/ v.to > v.from
            /\ v.last >= v.from
            /\ \A u \in versions[k] : u.number = v.number => u = v

\* The two ways the code reads "the current version", the pointer of the
\* logical row and the open knowledge interval, always select the same row.
CurrentQueriesAgree == \A k \in Keys : CurrentVersions(k) = OpenVersions(k)

\* From the instant an observation was first learnt, an as-of read selects
\* exactly one version at every instant: intervals neither overlap nor leave
\* a gap, however many writers revised the observation.
KnowledgeIsGapless ==
    \A k \in Keys : \A t \in Instants :
        (\E v \in versions[k] : v.from <= t) => \E v \in versions[k] : KnownAt(k, t) = {v}

\* last_observed_at is exactly the latest retrieval recorded in the version's
\* lineage, whatever order the responses of concurrent runs commit in, and no
\* lineage row precedes the version it belongs to.
LineageExplainsVersions ==
    \A k \in Keys :
        /\ \A v \in versions[k] :
            \E l \in lineage[k] : l.number = v.number /\ l.at = v.last
        /\ \A l \in lineage[k] :
            \E v \in versions[k] : v.number = l.number /\ v.from <= l.at /\ l.at <= v.last

\* A superseded version is never altered or deleted, and the current one only
\* has its last_observed_at raised or its interval closed.
SupersededVersionsFrozen ==
    [][\A k \in Keys : \A v \in versions[k] :
        \E u \in versions'[k] :
            /\ u.number = v.number /\ u.fingerprint = v.fingerprint /\ u.from = v.from
            /\ u.last >= v.last
            /\ ~Open(v) => u = v]_vars

\* An as-of answer is repeatable once it is settled: when t has passed and no
\* writer still holds a response retrieved at or before t, t stays settled and
\* no later commit changes what an as-of read at t returns.
Settled(t) == t < clock /\ \A w \in Writers : response[w] = Null \/ response[w] > t

Answer(k, t) == {<<v.number, v.fingerprint>> : v \in AsOf(k, t)}

SettledAnswersRepeat ==
    [][\A k \in Keys, t \in Instants :
        Settled(t) => Settled(t)' /\ Answer(k, t)' = Answer(k, t)]_vars

\* Readers cannot tell the rows, pointers and intervals from the abstract
\* timeline in which learning at t only changes the answers from t on.
Believed(k, t) ==
    IF KnownAt(k, t) = {} THEN Unknown
    ELSE (CHOOSE v \in KnownAt(k, t) : TRUE).fingerprint

Timeline == INSTANCE KnowledgeTimeline
    WITH belief <- [k \in Keys |-> [t \in Instants |-> Believed(k, t)]]

ImplementsTimeline == Timeline!TimelineSpec
=============================================================================
