---------------------- MODULE IngestionPipelineProofs ----------------------
(***************************************************************************)
(* Proofs about IngestionPipeline, for every set of keys, contents, runs   *)
(* and provider responses: the pipeline uses the observation store as      *)
(* ObservationVersions allows, and so inherits what is proved there.       *)
(***************************************************************************)
EXTENDS IngestionPipeline, ObservationVersionsProofs

-----------------------------------------------------------------------------
\* What a run processes record by record is a response that was parsed.
ParsedInv ==
    /\ phase \in [Writers -> Active \cup {"new", "succeeded", "failed"}]
    /\ body \in [Writers -> Bodies \cup {Garbage}]
    /\ \A w \in Writers : phase[w] = "records" => body[w] \in Bodies

LEMMA InitParsed == PipelineInit => ParsedInv
  BY DEF PipelineInit, ParsedInv, Active

\* A step that leaves the bodies alone and moves one run to a phase that is
\* not "records".
LEMMA GotoParsed ==
    ASSUME ParsedInv, NEW w \in Writers, UNCHANGED body,
           NEW p \in Active \cup {"new", "succeeded", "failed"}, Goto(w, p),
           p = "records" => body[w] \in Bodies
    PROVE  ParsedInv'
  BY DEF ParsedInv, Goto, Active

LEMMA NextParsed == ParsedInv /\ [PipelineNext]_allVars => ParsedInv'
<1> SUFFICES ASSUME ParsedInv, [PipelineNext]_allVars PROVE ParsedInv'
  OBVIOUS
<1>1. ASSUME UNCHANGED <<phase, body>> PROVE ParsedInv'
  BY <1>1 DEF ParsedInv
<1>2. CASE UNCHANGED allVars
  BY <1>1, <1>2 DEF allVars, pipelineVars
<1>3. CASE Tick /\ UNCHANGED pipelineVars
  BY <1>1, <1>3 DEF pipelineVars
<1>4. ASSUME NEW w \in Writers, Attempt(w) PROVE ParsedInv'
  <2>1. CASE Begin(w)
    BY <2>1, GotoParsed DEF Begin, Active
  <2>2. ASSUME NEW b \in Bodies \cup {Garbage}, Arrive(w, b) PROVE ParsedInv'
    BY <2>2 DEF Arrive, Goto, ParsedInv, Active
  <2>3. CASE StepFails(w)
    BY <2>3, GotoParsed DEF StepFails, Active
  <2>4. CASE StoreResponse(w)
    BY <2>4, GotoParsed DEF StoreResponse, Active
  <2>5. CASE Parse(w)
    <3>1. Parseable(body[w]) => body[w] \in Bodies
      BY DEF ParsedInv, Parseable
    <3>2. UNCHANGED body
      BY <2>5 DEF Parse
    <3>3. \/ Goto(w, "records") /\ Parseable(body[w])
          \/ Goto(w, "failing")
      BY <2>5 DEF Parse
    <3> QED
      BY <3>1, <3>2, <3>3, GotoParsed DEF Active
  <2>6. CASE QuarantineRecord(w) \/ SkipAbsence(w) \/ LockRecord(w) \/ PersistRecord(w)
    BY <2>6, <1>1 DEF QuarantineRecord, SkipAbsence, LockRecord, PersistRecord,
                      RecordDone, StoreLocator, pipelineVars
  <2>7. CASE RejectRecord(w)
    BY <2>7, GotoParsed DEF RejectRecord, Active
  <2>8. CASE CompleteScope(w) \/ FailScope(w)
    BY <2>8, GotoParsed DEF CompleteScope, FailScope, End, Active
  <2>9. CASE Die(w)
    BY <2>9, GotoParsed DEF Die, Active
  <2> QED
    BY <1>4, <2>1, <2>2, <2>3, <2>4, <2>5, <2>6, <2>7, <2>8, <2>9 DEF Attempt
<1> QED
  BY <1>2, <1>3, <1>4 DEF PipelineNext

-----------------------------------------------------------------------------
(***************************************************************************)
(* The refinement.                                                         *)
(***************************************************************************)
\* The record that is due names a key and a content.
LEMMA RecordIsTyped ==
    ASSUME ParsedInv, NEW w \in Writers, AtRecord(w)
    PROVE  RecordOf(w) \in Record
<1>1. body[w] \in Seq(Record)
  BY PipelineAssumption DEF ParsedInv, AtRecord
<1> QED
  BY <1>1 DEF AtRecord, RecordOf

\* What an attempt forgets when it ends, it forgets as a writer may.
LEMMA ForgetIsStep ==
    ASSUME NEW w \in Writers, Forget(w)
    PROVE  [Next]_vars
  BY DEF Forget, Next

\* Every step of the pipeline is a step of the observation store or leaves it
\* alone.
LEMMA PipelineStepRefines == ParsedInv /\ [PipelineNext]_allVars => [Next]_vars
<1> SUFFICES ASSUME ParsedInv, [PipelineNext]_allVars PROVE [Next]_vars
  OBVIOUS
<1>1. CASE UNCHANGED allVars
  BY <1>1 DEF allVars
<1>2. CASE Tick /\ UNCHANGED pipelineVars
  BY <1>2 DEF Next
<1>3. ASSUME NEW w \in Writers, Attempt(w) PROVE [Next]_vars
  <2>1. CASE Begin(w)
    BY <2>1 DEF Begin, Next
  <2>2. ASSUME NEW b \in Bodies \cup {Garbage}, Arrive(w, b) PROVE [Next]_vars
    BY <2>2 DEF Arrive, Next
  <2>3. CASE StepFails(w) \/ StoreResponse(w) \/ Parse(w) \/ QuarantineRecord(w) \/ SkipAbsence(w)
    BY <2>3 DEF StepFails, StoreResponse, Parse, QuarantineRecord, SkipAbsence
  <2>4. CASE LockRecord(w)
    <3>1. RecordOf(w) \in Record
      BY <2>4, RecordIsTyped DEF LockRecord
    <3>2. RecordOf(w).key \in Keys /\ Fingerprint(w) \in Fingerprints
      BY <3>1 DEF Record, Fingerprint
    <3> QED
      BY <2>4, <3>2 DEF LockRecord, Next
  <2>5. CASE PersistRecord(w)
    BY <2>5 DEF PersistRecord, Next
  <2>6. CASE RejectRecord(w)
    BY <2>6 DEF RejectRecord, Next
  <2>7. CASE CompleteScope(w) \/ FailScope(w) \/ Die(w)
    BY <2>7, ForgetIsStep DEF CompleteScope, FailScope, End, Die
  <2> QED
    BY <1>3, <2>1, <2>2, <2>3, <2>4, <2>5, <2>6, <2>7 DEF Attempt
<1> QED
  BY <1>1, <1>2, <1>3 DEF PipelineNext

\* Only what the parser has accepted is processed record by record.
THEOREM ParsedInvariance == PipelineSpec => []ParsedInv
  BY InitParsed, NextParsed, PTL DEF PipelineSpec

\* Every behaviour of the pipeline is, as far as the observation tables are
\* concerned, a behaviour of ObservationVersions: SharedIngestionPipeline calls
\* ObservationRevisionService only in the order and the states it allows.
THEOREM PipelineImplements == PipelineSpec => ImplementsObservationVersions
<1>1. PipelineInit => Init
  BY DEF PipelineInit
<1> QED
  BY <1>1, PipelineStepRefines, ParsedInvariance, PTL
     DEF PipelineSpec, ImplementsObservationVersions, Spec

\* Hence the tables stay consistent and readers get exactly one answer for
\* every instant while scopes are fetched, retried, rejected and crash.
THEOREM PipelineKeepsHistory ==
    PipelineSpec => [](TableConstraints /\ CurrentQueriesAgree /\ KnowledgeIsGapless)
  BY PipelineImplements, ConstraintsNeverFire, PointerIsOpenVersion, AsOfIsUniqueAndTotal, PTL
     DEF ImplementsObservationVersions

-----------------------------------------------------------------------------
(***************************************************************************)
(* Every effect has durable evidence.                                      *)
(***************************************************************************)
LEMMA PipelineIInv == PipelineSpec => []IInv
  BY PipelineImplements, Invariance, PTL DEF ImplementsObservationVersions

Evidence(k, l) ==
    \E i \in ValuesOf(l.run, k) :
        /\ <<l.run, i>> \in rawRecords /\ l.run \in rawResponses
        /\ body[l.run][i].fingerprint = Row(k, l.number).fingerprint

\* An open transaction persists the record that is due, of a stored response,
\* and a run without a response has written nothing.
EvidenceInv ==
    /\ ParsedInv
    /\ \A w \in Writers :
        /\ InTransaction(w) =>
                /\ AtRecord(w) /\ RecordOf(w).kind = "value"
                /\ txn[w].key = RecordOf(w).key
                /\ txn[w].fingerprint = RecordOf(w).fingerprint
        /\ phase[w] \in {"stored", "records"} => w \in rawResponses
        /\ phase[w] \in {"new", "fetching"} => \A k \in Keys : \A l \in lineage[k] : l.run # w
    /\ \A k \in Keys : \A l \in lineage[k] : Evidence(k, l)

LEMMA InitEvidence == PipelineInit => EvidenceInv
<1> SUFFICES ASSUME PipelineInit PROVE EvidenceInv
  OBVIOUS
<1>1. ParsedInv
  BY InitParsed
<1> QED
  BY <1>1 DEF PipelineInit, Init, EvidenceInv, InTransaction

\* A number that a lineage row names goes on naming the same content.
LEMMA RowContentKept ==
    ASSUME IInv, IInv', [Next]_vars, NEW k \in Keys, NEW l \in lineage[k]
    PROVE  Row(k, l.number)'.fingerprint = Row(k, l.number).fingerprint
<1>1. PICK v \in versions[k] : v.number = l.number
  BY DEF IInv, LineageInv
<1>2. Row(k, l.number) = v
  BY <1>1 DEF Row, IInv, RowsInv
<1>3. PICK u \in versions'[k] : SameRow(u, v)
  BY RowsKept
<1>4. Row(k, l.number)' = u
  BY <1>1, <1>3 DEF Row, IInv, RowsInv, SameRow
<1> QED
  BY <1>2, <1>3, <1>4 DEF SameRow

\* Evidence that a run has is never withdrawn.
LEMMA EvidenceKept ==
    ASSUME EvidenceInv, IInv, IInv', [Next]_vars,
           rawRecords \subseteq rawRecords', rawResponses \subseteq rawResponses',
           \A w \in Writers : phase[w] \notin {"new", "fetching"} => body'[w] = body[w],
           NEW k \in Keys, NEW l \in lineage[k]
    PROVE  Evidence(k, l)'
<1>1. l.run \in Writers
  BY DEF IInv, TypeOK, LineageRow
<1>2. body'[l.run] = body[l.run]
  BY <1>1 DEF EvidenceInv
<1>3. PICK i \in ValuesOf(l.run, k) :
        /\ <<l.run, i>> \in rawRecords /\ l.run \in rawResponses
        /\ body[l.run][i].fingerprint = Row(k, l.number).fingerprint
  BY DEF EvidenceInv, Evidence
<1>4. i \in ValuesOf(l.run, k)'
  BY <1>2 DEF ValuesOf
<1> QED
  BY <1>2, <1>3, <1>4, RowContentKept DEF Evidence

\* A step that writes no lineage and moves run w only.
LEMMA NoNewEvidence ==
    ASSUME EvidenceInv, IInv, IInv', [Next]_vars, ParsedInv', UNCHANGED lineage,
           rawRecords \subseteq rawRecords', rawResponses \subseteq rawResponses',
           NEW w \in Writers,
           \A x \in Writers \ {w} :
                /\ phase'[x] = phase[x] /\ body'[x] = body[x] /\ next'[x] = next[x]
                /\ txn'[x] = txn[x],
           body'[w] = body[w] \/ phase[w] \in {"new", "fetching"},
           InTransaction(w)' =>
                /\ AtRecord(w)' /\ RecordOf(w)'.kind = "value"
                /\ txn'[w].key = RecordOf(w)'.key
                /\ txn'[w].fingerprint = RecordOf(w)'.fingerprint,
           phase'[w] \in {"stored", "records"} => w \in rawResponses',
           phase'[w] \in {"new", "fetching"} => phase[w] \in {"new", "fetching"}
    PROVE  EvidenceInv'
<1>1. ASSUME NEW k \in Keys, NEW l \in lineage'[k] PROVE Evidence(k, l)'
  BY <1>1, EvidenceKept
<1>2. ASSUME NEW x \in Writers \ {w}, InTransaction(x)'
      PROVE  /\ AtRecord(x)' /\ RecordOf(x)'.kind = "value"
             /\ txn'[x].key = RecordOf(x)'.key
             /\ txn'[x].fingerprint = RecordOf(x)'.fingerprint
  BY <1>2 DEF EvidenceInv, InTransaction, AtRecord, RecordOf
<1> QED
  BY <1>1, <1>2 DEF EvidenceInv

\* The commit of a record: the locator and the lineage row appear together.
LEMMA PersistEvidence ==
    ASSUME EvidenceInv, IInv, IInv', [Next]_vars, ParsedInv', NEW w \in Writers, PersistRecord(w)
    PROVE  EvidenceInv'
<1>1. PICK rows, n : InTransaction(w) /\ Commit(w, rows, n)
  BY DEF PersistRecord, Insert, Unchanged, Revise
<1>2. /\ rawRecords' = rawRecords \cup {<<w, next[w]>>}
      /\ next' = [next EXCEPT ![w] = @ + 1]
      /\ UNCHANGED <<phase, body, rawResponses>>
  BY DEF PersistRecord, RecordDone, StoreLocator
<1>3. ASSUME NEW x \in Writers, InTransaction(x)' PROVE x # w /\ InTransaction(x) /\ txn'[x] = txn[x]
  BY <1>1, <1>3 DEF Commit, InTransaction, IInv, TypeOK
<1>4. ASSUME NEW x \in Writers, x # w PROVE next'[x] = next[x] /\ txn'[x] = txn[x]
  BY <1>1, <1>2, <1>4 DEF Commit
<1>5. ASSUME NEW k \in Keys, NEW l \in lineage'[k], l \notin lineage[k]
      PROVE  Evidence(k, l)' /\ l.run = w
  <2>1. PICK x \in Writers :
            /\ InTransaction(x) /\ txn[x].key = k /\ l.run = x /\ ~InTransaction(x)'
            /\ \E u \in versions'[k] : u.number = l.number /\ u.fingerprint = txn[x].fingerprint
    BY <1>5, NewSighting
  <2>2. x = w
    BY <1>4, <2>1 DEF InTransaction
  <2>3. Row(k, l.number)'.fingerprint = txn[w].fingerprint
    BY <2>1, <2>2 DEF Row, IInv, RowsInv
  <2>4. next[w] \in ValuesOf(w, k)'
    BY <1>1, <1>2, <2>1, <2>2 DEF EvidenceInv, AtRecord, RecordOf, ValuesOf
  <2>5. body'[w][next[w]].fingerprint = txn[w].fingerprint /\ w \in rawResponses'
    BY <1>1, <1>2 DEF EvidenceInv, AtRecord, RecordOf
  <2> QED
    BY <1>2, <2>1, <2>2, <2>3, <2>4, <2>5 DEF Evidence
<1>6. ASSUME NEW k \in Keys, NEW l \in lineage'[k] PROVE Evidence(k, l)'
  BY <1>2, <1>5, <1>6, EvidenceKept
<1>7. phase[w] = "records"
  BY <1>1 DEF EvidenceInv, AtRecord
<1>8. ASSUME NEW x \in Writers, phase'[x] \in {"new", "fetching"}, NEW k \in Keys, NEW l \in lineage'[k]
      PROVE  l.run # x
  BY <1>2, <1>5, <1>7, <1>8 DEF EvidenceInv
<1>9. ASSUME NEW x \in Writers, InTransaction(x)'
      PROVE  /\ AtRecord(x)' /\ RecordOf(x)'.kind = "value"
             /\ txn'[x].key = RecordOf(x)'.key
             /\ txn'[x].fingerprint = RecordOf(x)'.fingerprint
  BY <1>2, <1>3, <1>4, <1>9 DEF EvidenceInv, AtRecord, RecordOf
<1> QED
  BY <1>2, <1>6, <1>8, <1>9 DEF EvidenceInv

\* What is forgotten leaves the other runs and the tables alone.
LEMMA ForgetFacts ==
    ASSUME IInv, NEW w \in Writers, Forget(w)
    PROVE  /\ UNCHANGED lineage
           /\ ~InTransaction(w)'
           /\ \A x \in Writers \ {w} : txn'[x] = txn[x]
  BY DEF Forget, Crash, Finish, InTransaction, IInv, TypeOK, vars

LEMMA NextEvidence ==
    EvidenceInv /\ IInv /\ IInv' /\ [PipelineNext]_allVars => EvidenceInv'
<1> SUFFICES ASSUME EvidenceInv, IInv, IInv', [PipelineNext]_allVars PROVE EvidenceInv'
  OBVIOUS
<1>1. ParsedInv' /\ [Next]_vars
  BY NextParsed, PipelineStepRefines DEF EvidenceInv
<1>2. CASE (Tick /\ UNCHANGED pipelineVars) \/ UNCHANGED allVars
  <2>1. UNCHANGED <<versions, lineage, txn, phase, body, next, rawResponses, rawRecords>>
    BY <1>2 DEF Tick, allVars, vars, pipelineVars
  <2>2. \A k \in Keys : \A l \in lineage'[k] : Evidence(k, l)'
    BY <1>1, <2>1, EvidenceKept
  <2> QED
    BY <1>1, <2>1, <2>2 DEF EvidenceInv, InTransaction, AtRecord, RecordOf
<1>3. ASSUME NEW w \in Writers, Attempt(w) PROVE EvidenceInv'
  <2> DEFINE Others == \A x \in Writers \ {w} :
                            /\ phase'[x] = phase[x] /\ body'[x] = body[x] /\ next'[x] = next[x]
                            /\ txn'[x] = txn[x]
  <2>0. phase \in [Writers -> Active \cup {"new", "succeeded", "failed"}]
    BY DEF EvidenceInv, ParsedInv
  <2>1. CASE Begin(w)
    <3>1. UNCHANGED <<lineage, txn, body, next, rawRecords, rawResponses>>
      BY <2>1 DEF Begin, Retrieve, vars
    <3>2. Others /\ phase[w] = "new" /\ phase'[w] = "fetching"
      BY <2>0, <2>1, <3>1 DEF Begin, Goto
    <3>3. ~InTransaction(w)'
      BY <3>1, <3>2 DEF EvidenceInv, InTransaction, AtRecord
    <3> QED
      BY <1>1, <3>1, <3>2, <3>3, NoNewEvidence
  <2>2. ASSUME NEW b \in Bodies \cup {Garbage}, Arrive(w, b) PROVE EvidenceInv'
    <3>1. UNCHANGED <<lineage, txn, next, rawRecords, rawResponses>>
      BY <2>2 DEF Arrive, Retrieve, vars
    <3>2. Others /\ phase[w] = "fetching" /\ phase'[w] = "arrived"
      BY <2>0, <2>2, <3>1 DEF Arrive, Goto
    <3>3. ~InTransaction(w)'
      BY <3>1, <3>2 DEF EvidenceInv, InTransaction, AtRecord
    <3> QED
      BY <1>1, <3>1, <3>2, <3>3, NoNewEvidence
  <2>3. CASE StepFails(w)
    <3>1. /\ UNCHANGED <<lineage, txn, body, next, rawRecords, rawResponses>>
          /\ ~InTransaction(w)
      BY <2>3 DEF StepFails, vars
    <3>2. Others /\ phase'[w] = "failing"
      BY <2>0, <2>3, <3>1 DEF StepFails, Goto
    <3>3. ~InTransaction(w)'
      BY <3>1 DEF InTransaction
    <3> QED
      BY <1>1, <3>1, <3>2, <3>3, NoNewEvidence
  <2>4. CASE StoreResponse(w)
    <3>1. /\ UNCHANGED <<lineage, txn, body, next, rawRecords>>
          /\ rawResponses' = rawResponses \cup {w}
      BY <2>4 DEF StoreResponse, vars
    <3>2. Others /\ phase[w] = "arrived" /\ phase'[w] = "stored"
      BY <2>0, <2>4, <3>1 DEF StoreResponse, Goto
    <3>3. ~InTransaction(w)'
      BY <3>1, <3>2 DEF EvidenceInv, InTransaction, AtRecord
    <3> QED
      BY <1>1, <3>1, <3>2, <3>3, NoNewEvidence
  <2>5. CASE Parse(w)
    <3>1. UNCHANGED <<lineage, txn, body, next, rawRecords, rawResponses>>
      BY <2>5 DEF Parse, vars
    <3>2. Others /\ phase[w] = "stored" /\ phase'[w] \in {"records", "failing"}
      BY <2>0, <2>5, <3>1 DEF Parse, Goto
    <3>3. ~InTransaction(w)' /\ w \in rawResponses'
      BY <3>1, <3>2 DEF EvidenceInv, InTransaction, AtRecord
    <3> QED
      BY <1>1, <3>1, <3>2, <3>3, NoNewEvidence
  <2>6. CASE QuarantineRecord(w) \/ SkipAbsence(w)
    <3>1. /\ UNCHANGED <<lineage, txn, body, phase, rawResponses>>
          /\ next' = [next EXCEPT ![w] = @ + 1]
          /\ rawRecords \subseteq rawRecords'
          /\ AtRecord(w) /\ RecordOf(w).kind # "value"
      BY <2>6 DEF QuarantineRecord, SkipAbsence, RecordDone, StoreLocator, Refused,
        Unmappable, Invalid, vars
    <3>2. Others /\ phase'[w] = "records" /\ w \in rawResponses'
      BY <3>1 DEF AtRecord, EvidenceInv
    <3>3. ~InTransaction(w)'
      BY <3>1 DEF EvidenceInv, InTransaction
    <3> QED
      BY <1>1, <3>1, <3>2, <3>3, NoNewEvidence
  <2>7. CASE LockRecord(w)
    <3>1. /\ UNCHANGED <<lineage, body, phase, next, rawResponses, rawRecords>>
          /\ txn' = [txn EXCEPT ![w] = [key |-> RecordOf(w).key, fingerprint |-> Fingerprint(w),
                                       base |-> current[RecordOf(w).key]]]
          /\ AtRecord(w) /\ RecordOf(w).kind = "value"
      BY <2>7 DEF LockRecord, LockOrCreate, pipelineVars
    <3>2. Others /\ phase'[w] = "records" /\ w \in rawResponses'
      BY <3>1 DEF AtRecord, EvidenceInv
    <3>3. /\ AtRecord(w)' /\ RecordOf(w)' = RecordOf(w)
          /\ txn'[w].key = RecordOf(w).key /\ txn'[w].fingerprint = RecordOf(w).fingerprint
      BY <3>1 DEF AtRecord, RecordOf, Fingerprint, IInv, TypeOK
    <3> QED
      BY <1>1, <3>1, <3>2, <3>3, NoNewEvidence
  <2>8. CASE PersistRecord(w)
    BY <1>1, <2>8, PersistEvidence
  <2>9. CASE RejectRecord(w)
    <3>1. UNCHANGED <<lineage, body, next, rawRecords, rawResponses>>
          /\ txn' = [txn EXCEPT ![w] = NoTransaction]
      BY <2>9 DEF RejectRecord, RejectOutOfOrder, Crash
    <3>2. Others /\ phase'[w] = "failing"
      BY <2>0, <2>9, <3>1 DEF RejectRecord, Goto
    <3>3. ~InTransaction(w)'
      BY <3>1 DEF InTransaction, IInv, TypeOK
    <3> QED
      BY <1>1, <3>1, <3>2, <3>3, NoNewEvidence
  <2>10. CASE CompleteScope(w) \/ FailScope(w) \/ Die(w)
    <3>1. UNCHANGED <<body, next, rawRecords, rawResponses>> /\ Forget(w)
      BY <2>10 DEF CompleteScope, FailScope, End, Die
    <3>2. Others /\ phase'[w] \in {"succeeded", "failed", "dead"}
      BY <2>0, <2>10, <3>1, ForgetFacts DEF CompleteScope, FailScope, End, Die, Goto
    <3> QED
      BY <1>1, <3>1, <3>2, ForgetFacts, NoNewEvidence
  <2> QED
    BY <1>3, <2>1, <2>2, <2>3, <2>4, <2>5, <2>6, <2>7, <2>8, <2>9, <2>10 DEF Attempt
<1> QED
  BY <1>2, <1>3 DEF PipelineNext

\* No version and no sighting of one, of any run, in any interleaving, is ever
\* in the tables without the stored response and the stored record that say it.
THEOREM EffectsAreEvidenced == PipelineSpec => []EffectsHaveEvidence
<1>1. EvidenceInv => EffectsHaveEvidence
  BY DEF EvidenceInv, Evidence, EffectsHaveEvidence
<1> QED
  BY <1>1, InitEvidence, NextEvidence, PipelineIInv, PTL DEF PipelineSpec
=============================================================================
