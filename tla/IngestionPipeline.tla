------------------------- MODULE IngestionPipeline -------------------------
(***************************************************************************)
(* One scope from its fetch to its terminal status: SharedIngestionPipeline*)
(* with the raw-data, quarantine and observation repositories, composed    *)
(* with ObservationVersions.  Every observation transaction below is an    *)
(* action of that module, and the pipeline adds what surrounds it: the     *)
(* durable response, the parsed records, the quarantine, the counters and  *)
(* what happens when a step fails or the process dies.                     *)
(*                                                                         *)
(* The runs are successive attempts over one series, which RunLifecycle    *)
(* keeps apart (NoConcurrentProcessing); they are numbered in order.       *)
(***************************************************************************)
EXTENDS ObservationVersions, Sequences, FiniteSets

CONSTANTS Bodies,   \* what a provider may answer, as sequences of records
          Garbage   \* an answer that is no readable document

\* A record is a value, an explicitly unpublished value, a record that cannot
\* be read, or a value that the mapper cannot place or validation finds invalid.
Record == [kind : {"value", "absence", "malformed", "invalid"},
           key : Keys, fingerprint : Fingerprints]

ASSUME PipelineAssumption ==
    /\ Writers \subseteq Nat
    /\ Bodies \subseteq Seq(Record)
    /\ Garbage \notin Seq(Record)

VARIABLES
    bis,         \* the series is a BIS policy rate and not a Valet FX series
    phase,       \* how far each attempt has come
    body,        \* the response it has fetched
    next,        \* index of the next record to process
    counts,      \* counters in memory
    counters,    \* counters of the scope row
    rawResponses,\* runs whose response is stored
    rawRecords,  \* <<run, index>> of the stored record locators
    quarantine,  \* <<run, index>> of the quarantined records
    origin       \* <<run, key, number>>: originating run of each version

pipelineVars == <<bis, phase, body, next, counts, counters, rawResponses, rawRecords,
                  quarantine, origin>>
allVars == <<vars, pipelineVars>>

Active == {"fetching", "arrived", "stored", "records", "failing", "dead"}
Counter == {"fetched", "inserted", "unchanged", "revised", "quarantined", "failed"}
EmptyCounts == [c \in Counter |-> 0]
FailedCounts == [EmptyCounts EXCEPT !["failed"] = 1]

MaxRecords == 1 + Cardinality(UNION {DOMAIN b : b \in Bodies})

PipelineTypeOK ==
    /\ bis \in BOOLEAN
    /\ phase \in [Writers -> Active \cup {"new", "succeeded", "failed"}]
    /\ body \in [Writers -> Bodies \cup {Garbage}]
    /\ next \in [Writers -> 1..MaxRecords]
    /\ counts \in [Writers -> [Counter -> Nat]]
    /\ counters \in [Writers -> [Counter -> Nat]]
    /\ rawResponses \subseteq Writers
    /\ rawRecords \subseteq rawResponses \X (1..MaxRecords)
    /\ quarantine \subseteq rawRecords
    /\ origin \subseteq Writers \X Keys \X Nat

PipelineInit ==
    /\ Init
    /\ bis \in BOOLEAN
    /\ phase = [w \in Writers |-> "new"]
    /\ body = [w \in Writers |-> Garbage]
    /\ next = [w \in Writers |-> 1]
    /\ counts = [w \in Writers |-> EmptyCounts]
    /\ counters = [w \in Writers |-> EmptyCounts]
    /\ rawResponses = {}
    /\ rawRecords = {}
    /\ quarantine = {}
    /\ origin = {}

Goto(w, where) == phase' = [phase EXCEPT ![w] = where]

-----------------------------------------------------------------------------
(***************************************************************************)
(* Fetching and storing the response.                                      *)
(***************************************************************************)
\* The scope is started, at least one transaction and so an instant after the
\* previous attempt; a BIS binding already stamps the records it will map.
Begin(w) ==
    /\ phase[w] = "new"
    /\ \A v \in Writers : v < w => phase[v] \in {"succeeded", "failed"}
    /\ \A k \in Keys : \A l \in lineage[k] : l.at < clock
    /\ IF bis THEN Retrieve(w) ELSE UNCHANGED vars
    /\ Goto(w, "fetching")
    /\ UNCHANGED <<bis, body, next, counts, counters, rawResponses, rawRecords, quarantine, origin>>

\* A Valet response is stamped when it has arrived.
Arrive(w, b) ==
    /\ phase[w] = "fetching"
    /\ IF bis THEN UNCHANGED vars ELSE Retrieve(w)
    /\ body' = [body EXCEPT ![w] = b]
    /\ Goto(w, "arrived")
    /\ UNCHANGED <<bis, next, counts, counters, rawResponses, rawRecords, quarantine, origin>>

\* The fetch raises, the response is refused as too large, or the database
\* fails between two records.
StepFails(w) ==
    /\ phase[w] \in {"fetching", "arrived", "records"}
    /\ ~InTransaction(w)
    /\ Goto(w, "failing")
    /\ UNCHANGED <<vars, bis, body, next, counts, counters, rawResponses, rawRecords, quarantine,
                   origin>>

\* Faulty variant: the response is only kept in memory until it is parsed.
StoreNothing(w) ==
    /\ phase[w] = "arrived"
    /\ Goto(w, "stored")
    /\ UNCHANGED <<vars, bis, body, next, counts, counters, rawResponses, rawRecords, quarantine,
                   origin>>

\* The response is durable before parsing begins.
StoreResponse(w) ==
    /\ phase[w] = "arrived"
    /\ rawResponses' = rawResponses \cup {w}
    /\ Goto(w, "stored")
    /\ UNCHANGED <<vars, bis, body, next, counts, counters, rawRecords, quarantine, origin>>

Has(b, kind) == \E i \in DOMAIN b : b[i].kind = kind

\* The Valet parser isolates a malformed record, the BIS parser raises.
Parseable(b) == b # Garbage /\ ~(bis /\ Has(b, "malformed"))

Parse(w) ==
    /\ phase[w] = "stored"
    /\ IF Parseable(body[w])
       THEN /\ Goto(w, "records")
            /\ counts' = [counts EXCEPT ![w].fetched = Len(body[w])]
       ELSE /\ Goto(w, "failing")
            /\ UNCHANGED counts
    /\ UNCHANGED <<vars, bis, body, next, counters, rawResponses, rawRecords, quarantine, origin>>

-----------------------------------------------------------------------------
(***************************************************************************)
(* _process_record: one transaction per record.                            *)
(***************************************************************************)
RecordOf(w) == body[w][next[w]]

AtRecord(w) == phase[w] = "records" /\ next[w] \in DOMAIN body[w]

\* The Valet mapper expects a value of every record, and so fails on an explicit
\* absence as well as on what the parser could not read.
Unmappable(r) == r.kind = "malformed" \/ (r.kind = "absence" /\ ~bis)

\* The validation is given neither thresholds nor history: what is left of it
\* are a date beyond tomorrow and a rate that is not positive.  A value that no
\* mapping places has the same end.
Invalid(r) == r.kind = "invalid"

Refused(r) == Unmappable(r) \/ Invalid(r)

\* The locator <<run, index>> is unique, and storing it again changes nothing.
StoreLocator(w) == rawRecords' = rawRecords \cup {<<w, next[w]>>}

\* The record locator is stored, an outcome is counted if there is one, and
\* the next record is due.
RecordDone(w, outcome) ==
    /\ StoreLocator(w)
    /\ next' = [next EXCEPT ![w] = @ + 1]
    /\ counts' = IF outcome \in Counter THEN [counts EXCEPT ![w][outcome] = @ + 1] ELSE counts
    /\ UNCHANGED <<bis, phase, body, counters, rawResponses>>

QuarantineRecord(w) ==
    /\ AtRecord(w)
    /\ Refused(RecordOf(w))
    /\ quarantine' = quarantine \cup {<<w, next[w]>>}
    /\ RecordDone(w, "quarantined")
    /\ UNCHANGED <<vars, origin>>

SkipAbsence(w) ==
    /\ AtRecord(w)
    /\ RecordOf(w).kind = "absence" /\ bis
    /\ RecordDone(w, "absence")
    /\ UNCHANGED <<vars, quarantine, origin>>

\* Faulty variant: what varies between two responses of the same content takes
\* part in the fingerprint.
VolatileFingerprint(w) ==
    IF w % 2 = 0 THEN CHOOSE f \in Fingerprints : f # RecordOf(w).fingerprint
    ELSE RecordOf(w).fingerprint

\* Faulty variant: every record is stamped when it is processed.
LockRecordStamped(w) ==
    /\ AtRecord(w)
    /\ RecordOf(w).kind = "value"
    /\ ~InTransaction(w) /\ ~RowLocked(RecordOf(w).key)
    /\ txn' = [txn EXCEPT ![w] = [key |-> RecordOf(w).key, fingerprint |-> RecordOf(w).fingerprint,
                                 base |-> current[RecordOf(w).key]]]
    /\ response' = [response EXCEPT ![w] = clock]
    /\ UNCHANGED <<clock, versions, current, lineage, pipelineVars>>

\* The fingerprint covers the content of the candidate only.
Fingerprint(w) == RecordOf(w).fingerprint

LockRecord(w) ==
    /\ AtRecord(w)
    /\ RecordOf(w).kind = "value"
    /\ LockOrCreate(w, RecordOf(w).key, Fingerprint(w))
    /\ UNCHANGED pipelineVars

Originates(w, number) == origin' = origin \cup {<<w, txn[w].key, number>>}

\* Faulty variant: the outcome is derived after the pointer has moved.
PersistMiscounted(w) ==
    /\ \/ Insert(w) /\ RecordDone(w, "revised") /\ Originates(w, 1)
       \/ Unchanged(w) /\ RecordDone(w, "unchanged") /\ UNCHANGED origin
       \/ Revise(w) /\ RecordDone(w, "revised") /\ Originates(w, txn[w].base + 1)
    /\ UNCHANGED quarantine

PersistRecord(w) ==
    /\ \/ Insert(w) /\ RecordDone(w, "inserted") /\ Originates(w, 1)
       \/ Unchanged(w) /\ RecordDone(w, "unchanged") /\ UNCHANGED origin
       \/ Revise(w) /\ RecordDone(w, "revised") /\ Originates(w, txn[w].base + 1)
    /\ UNCHANGED quarantine

\* Faulty variant: a record whose transaction failed is passed over.
PassOver(w) ==
    /\ InTransaction(w)
    /\ txn' = [txn EXCEPT ![w] = NoTransaction]
    /\ next' = [next EXCEPT ![w] = @ + 1]
    /\ UNCHANGED <<clock, versions, current, lineage, response, bis, phase, body, counts, counters,
                   rawResponses, rawRecords, quarantine, origin>>

\* The transaction of the record is rolled back with its locator, and the
\* scope fails: an out-of-order candidate, or a database error.
RejectRecord(w) ==
    /\ RejectOutOfOrder(w) \/ Crash(w)
    /\ Goto(w, "failing")
    /\ UNCHANGED <<bis, body, next, counts, counters, rawResponses, rawRecords, quarantine, origin>>

-----------------------------------------------------------------------------
(***************************************************************************)
(* The end of the scope.                                                   *)
(***************************************************************************)
\* Whatever the attempt still holds in memory is gone.
Forget(w) ==
    \/ InTransaction(w) /\ Crash(w)
    \/ ~InTransaction(w) /\ response[w] # Null /\ Finish(w)
    \/ ~InTransaction(w) /\ response[w] = Null /\ UNCHANGED vars

End(w, status, total) ==
    /\ Goto(w, status)
    /\ counters' = [counters EXCEPT ![w] = total]
    /\ Forget(w)
    /\ UNCHANGED <<bis, body, next, counts, rawResponses, rawRecords, quarantine, origin>>

CompleteScope(w) ==
    /\ phase[w] = "records"
    /\ next[w] = Len(body[w]) + 1
    /\ End(w, "succeeded", counts[w])

\* The exception handler, or recovery after the worker died, fails the scope:
\* what the attempt had counted is lost.
FailScope(w) ==
    /\ phase[w] \in {"failing", "dead"}
    /\ End(w, "failed", FailedCounts)

Die(w) ==
    /\ phase[w] \in Active \ {"dead"}
    /\ Goto(w, "dead")
    /\ Forget(w)
    /\ UNCHANGED <<bis, body, next, counts, counters, rawResponses, rawRecords, quarantine, origin>>

Attempt(w) ==
    \/ Begin(w)
    \/ \E b \in Bodies \cup {Garbage} : Arrive(w, b)
    \/ StepFails(w) \/ StoreResponse(w) \/ Parse(w)
    \/ QuarantineRecord(w) \/ SkipAbsence(w)
    \/ LockRecord(w) \/ PersistRecord(w) \/ RejectRecord(w)
    \/ CompleteScope(w) \/ FailScope(w) \/ Die(w)

PipelineNext ==
    \/ Tick /\ UNCHANGED pipelineVars
    \/ \E w \in Writers : Attempt(w)

PipelineSpec == PipelineInit /\ [][PipelineNext]_allVars

-----------------------------------------------------------------------------
(***************************************************************************)
(* Properties.                                                             *)
(***************************************************************************)
Ended(w) == phase[w] \in {"succeeded", "failed"}

ValuesOf(w, k) == {i \in DOMAIN body[w] : body[w][i].kind = "value" /\ body[w][i].key = k}

\* Two values of one observation in one response.
ContradictsItself(w) ==
    \E k \in Keys : \E i, j \in ValuesOf(w, k) : body[w][i].fingerprint # body[w][j].fingerprint

\* Every version and every sighting of it can be traced to evidence that is
\* durable: a stored record, of a stored response of that run, that says
\* exactly this content of this observation.
EffectsHaveEvidence ==
    \A k \in Keys : \A l \in lineage[k] :
        \E i \in ValuesOf(l.run, k) :
            /\ <<l.run, i>> \in rawRecords /\ l.run \in rawResponses
            /\ body[l.run][i].fingerprint = Row(k, l.number).fingerprint

\* The counters of a succeeded scope are what happened in the database.
CountersMatchEffects ==
    \A w \in Writers : phase[w] = "succeeded" =>
        LET mine == {o \in origin : o[1] = w}
            kept == {i \in DOMAIN body[w] : body[w][i].kind = "value"}
        IN  /\ counters[w]["inserted"] = Cardinality({o \in mine : o[3] = 1})
            /\ counters[w]["revised"] = Cardinality({o \in mine : o[3] > 1})
            /\ counters[w]["unchanged"] = Cardinality(kept) - Cardinality(mine)
            /\ counters[w]["quarantined"] = Cardinality({q \in quarantine : q[1] = w})
            /\ counters[w]["fetched"] = Cardinality({x \in rawRecords : x[1] = w})

\* What a succeeded scope fetched is what an as-of read answers for the instant
\* of its retrieval, however many earlier attempts failed half way or died,
\* unless its response contradicts itself.
SucceededScopeIsAuthoritative ==
    \A w \in Writers : phase[w] = "succeeded" /\ ~ContradictsItself(w) =>
        \A k \in Keys : \A i \in ValuesOf(w, k) :
            \E l \in lineage[k] :
                l.run = w /\ {v.fingerprint : v \in KnownAt(k, l.at)} = {body[w][i].fingerprint}

\* Retrying unchanged data adds lineage but no canonical version.
RetriesAddNoVersions ==
    \A w \in Writers :
        (/\ w - 1 \in Writers /\ phase[w - 1] = "succeeded"
         /\ phase[w] # "new" /\ body[w] = body[w - 1] /\ ~ContradictsItself(w))
            => \A o \in origin : o[1] # w

\* The pipeline uses the observation store only in the ways that its
\* correctness was established for.
ImplementsObservationVersions == Spec

(***************************************************************************)
(* What the documentation says, and the code does not do.                  *)
(***************************************************************************)
\* "Duplicate candidate in the same input: process once when identical;
\* quarantine or fail the scope when conflicting."
ContradictionsAreRefused ==
    \A w \in Writers : phase[w] = "succeeded" /\ ContradictsItself(w) =>
        \E x \in quarantine : x[1] = w
=============================================================================
