----------------------- MODULE PipelineAttemptsProofs -----------------------
(***************************************************************************)
(* Proofs about successive attempts of IngestionPipeline at one series,    *)
(* for every number of them and every provider response: what their        *)
(* counters say, what a succeeded scope can be relied on for, and that     *)
(* retrying unchanged data revises nothing.                                *)
(***************************************************************************)
EXTENDS IngestionPipelineProofs, FiniteSetTheorems

-----------------------------------------------------------------------------
(***************************************************************************)
(* What one step of one attempt does.                                      *)
(***************************************************************************)
OriginOf(w) == {o \in origin : o[1] = w}

RawOf(w) == {x \in rawRecords : x[1] = w}

QuarantineOf(w) == {q \in quarantine : q[1] = w}

BookTypes ==
    /\ next \in [Writers -> Nat \ {0}]
    /\ counts \in [Writers -> [Counter -> Nat]]
    /\ counters \in [Writers -> [Counter -> Nat]]

Typed == IInv /\ EvidenceInv /\ BookTypes

LEMMA TypedFacts ==
    ASSUME Typed
    PROVE  /\ phase \in [Writers -> Active \cup {"new", "succeeded", "failed"}]
           /\ body \in [Writers -> Bodies \cup {Garbage}]
           /\ response \in [Writers -> Instants \cup {Null}]
           /\ txn \in [Writers -> Transaction \cup {NoTransaction}]
           /\ clock \in Instants
           /\ next \in [Writers -> Nat \ {0}]
           /\ counts \in [Writers -> [Counter -> Nat]]
           /\ counters \in [Writers -> [Counter -> Nat]]
  BY DEF Typed, IInv, TypeOK, EvidenceInv, ParsedInv, BookTypes

\* The transaction of an attempt belongs to the record that is due.
LEMMA DueRecord ==
    ASSUME Typed, NEW w \in Writers, InTransaction(w)
    PROVE  /\ phase[w] = "records" /\ next[w] \in DOMAIN body[w]
           /\ RecordOf(w).kind = "value"
           /\ txn[w].key = RecordOf(w).key /\ txn[w].fingerprint = RecordOf(w).fingerprint
  BY DEF Typed, EvidenceInv, AtRecord

OthersKept(w) ==
    \A x \in Writers \ {w} :
        /\ phase'[x] = phase[x] /\ body'[x] = body[x] /\ next'[x] = next[x]
        /\ counts'[x] = counts[x] /\ counters'[x] = counters[x]
        /\ response'[x] = response[x]
        /\ OriginOf(x)' = OriginOf(x) /\ RawOf(x)' = RawOf(x)
        /\ QuarantineOf(x)' = QuarantineOf(x)

StoreQuiet == UNCHANGED <<versions, current, lineage, origin>>

\* How an attempt moves through its phases.
Moves(w) ==
    /\ phase[w] \in Active \cup {"new"} /\ phase'[w] \in Active \cup {"succeeded", "failed"}
    /\ phase[w] = "new" <=> phase'[w] = "fetching"
    /\ phase[w] = "new" => /\ \A v \in Writers : v < w => Ended(v)
                           /\ \A k \in Keys : \A l \in lineage[k] : l.at < clock
    /\ phase'[w] = "arrived" => phase[w] = "fetching"
    /\ phase'[w] = "stored" => phase[w] = "arrived"
    /\ phase'[w] = "records" => phase[w] \in {"stored", "records"}
    /\ phase'[w] = "succeeded" => phase[w] = "records" /\ next[w] = Len(body[w]) + 1
    /\ body'[w] = body[w] \/ (phase[w] = "fetching" /\ phase'[w] = "arrived")
    /\ \/ next'[w] = next[w]
       \/ /\ phase[w] = "records" /\ phase'[w] = "records"
          /\ next'[w] = next[w] + 1 /\ next[w] \in DOMAIN body[w]
          /\ RecordOf(w).kind = "value" => PersistRecord(w)

\* How it holds a response.
Holds(w) ==
    /\ UNCHANGED clock
    /\ \/ response'[w] = response[w] \/ response'[w] = Null
       \/ phase[w] \in {"new", "fetching"} /\ response'[w] = clock
    /\ phase'[w] \in {"succeeded", "failed"} => response'[w] = Null

Writes(w) ==
    \/ StoreQuiet
    \/ PersistRecord(w) /\ phase[w] = "records" /\ phase'[w] = "records" /\ UNCHANGED response

LEMMA ForgetKeeps ==
    ASSUME Typed, NEW w \in Writers, Forget(w)
    PROVE  /\ UNCHANGED <<clock, versions, current, lineage>>
           /\ response'[w] = Null
           /\ \A x \in Writers \ {w} : response'[x] = response[x]
<1> USE TypedFacts DEF InTransaction
<1>1. CASE Crash(w)
  BY <1>1 DEF Crash
<1>2. CASE Finish(w)
  BY <1>2 DEF Finish
<1>3. CASE response[w] = Null /\ UNCHANGED vars
  BY <1>3 DEF vars
<1> QED
  BY <1>1, <1>2, <1>3 DEF Forget

LEMMA AttemptFacts ==
    ASSUME Typed, NEW w \in Writers, Attempt(w)
    PROVE  OthersKept(w) /\ Moves(w) /\ Holds(w) /\ Writes(w)
<1> USE TypedFacts
<1> USE DEF Active, OriginOf, RawOf, QuarantineOf, StoreQuiet
<1>1. CASE Begin(w)
  <2>1. /\ UNCHANGED <<clock, versions, current, lineage>>
        /\ response'[w] = response[w] \/ response'[w] = clock
        /\ \A x \in Writers \ {w} : response'[x] = response[x]
    BY <1>1 DEF Begin, Retrieve, vars
  <2> QED
    BY <1>1, <2>1 DEF Begin, Goto, OthersKept, Moves, Holds, Writes, Ended
<1>2. ASSUME NEW b \in Bodies \cup {Garbage}, Arrive(w, b)
      PROVE  OthersKept(w) /\ Moves(w) /\ Holds(w) /\ Writes(w)
  <2>1. /\ UNCHANGED <<clock, versions, current, lineage>>
        /\ response'[w] = response[w] \/ response'[w] = clock
        /\ \A x \in Writers \ {w} : response'[x] = response[x]
    BY <1>2 DEF Arrive, Retrieve, vars
  <2> QED
    BY <1>2, <2>1 DEF Arrive, Goto, OthersKept, Moves, Holds, Writes
<1>3. CASE StepFails(w)
  BY <1>3 DEF StepFails, Goto, OthersKept, Moves, Holds, Writes, vars
<1>4. CASE StoreResponse(w)
  BY <1>4 DEF StoreResponse, Goto, OthersKept, Moves, Holds, Writes, vars
<1>5. CASE Parse(w)
  BY <1>5 DEF Parse, Goto, OthersKept, Moves, Holds, Writes, vars
<1>6. CASE QuarantineRecord(w) \/ SkipAbsence(w)
  <2>1. /\ AtRecord(w) /\ RecordOf(w).kind # "value"
        /\ rawRecords' = rawRecords \cup {<<w, next[w]>>}
        /\ quarantine' = quarantine \/ quarantine' = quarantine \cup {<<w, next[w]>>}
        /\ next' = [next EXCEPT ![w] = next[w] + 1]
        /\ UNCHANGED <<vars, origin, phase, body, counters>>
    BY <1>6 DEF QuarantineRecord, SkipAbsence, RecordDone, StoreLocator, Refused, Unmappable,
                Invalid
  <2>2. \A x \in Writers \ {w} : counts'[x] = counts[x]
    BY <1>6 DEF QuarantineRecord, SkipAbsence, RecordDone
  <2>3. \A x \in Writers \ {w} : RawOf(x)' = RawOf(x) /\ QuarantineOf(x)' = QuarantineOf(x)
    BY <2>1
  <2> QED
    BY <2>1, <2>2, <2>3 DEF AtRecord, OthersKept, Moves, Holds, Writes, vars
<1>7. CASE LockRecord(w)
  <2>1. UNCHANGED <<clock, versions, current, lineage, response, pipelineVars>> /\ AtRecord(w)
    BY <1>7 DEF LockRecord, LockOrCreate
  <2> QED
    BY <2>1 DEF pipelineVars, AtRecord, OthersKept, Moves, Holds, Writes
<1>8. CASE PersistRecord(w)
  <2>1. PICK rows, n : InTransaction(w) /\ Commit(w, rows, n)
    BY <1>8 DEF PersistRecord, Insert, Unchanged, Revise
  <2>2. UNCHANGED <<clock, response>>
    BY <2>1 DEF Commit
  <2>3. /\ rawRecords' = rawRecords \cup {<<w, next[w]>>}
        /\ next' = [next EXCEPT ![w] = next[w] + 1]
        /\ UNCHANGED <<phase, body, counters, quarantine>>
        /\ \A x \in Writers \ {w} : counts'[x] = counts[x]
    BY <1>8 DEF PersistRecord, RecordDone, StoreLocator
  <2>4. origin' = origin \/ \E n1 : origin' = origin \cup {<<w, txn[w].key, n1>>}
    BY <1>8 DEF PersistRecord, Originates
  <2>5. \A x \in Writers \ {w} : RawOf(x)' = RawOf(x) /\ OriginOf(x)' = OriginOf(x)
    BY <2>3, <2>4
  <2>6. phase[w] = "records" /\ next[w] \in DOMAIN body[w] /\ RecordOf(w).kind = "value"
    BY <2>1, DueRecord
  <2> QED
    BY <1>8, <2>2, <2>3, <2>5, <2>6 DEF OthersKept, Moves, Holds, Writes
<1>9. CASE RejectRecord(w)
  <2>1. /\ UNCHANGED <<clock, versions, current, lineage>> /\ InTransaction(w)
        /\ response' = [response EXCEPT ![w] = Null]
    BY <1>9 DEF RejectRecord, RejectOutOfOrder, Crash
  <2>2. phase[w] = "records"
    BY <2>1, DueRecord
  <2> QED
    BY <1>9, <2>1, <2>2 DEF RejectRecord, Goto, OthersKept, Moves, Holds, Writes
<1>10. CASE CompleteScope(w)
  <2>1. /\ UNCHANGED <<clock, versions, current, lineage>> /\ response'[w] = Null
        /\ \A x \in Writers \ {w} : response'[x] = response[x]
    BY <1>10, ForgetKeeps DEF CompleteScope, End
  <2> QED
    BY <1>10, <2>1 DEF CompleteScope, End, Goto, OthersKept, Moves, Holds, Writes
<1>11. CASE FailScope(w)
  <2>1. /\ UNCHANGED <<clock, versions, current, lineage>> /\ response'[w] = Null
        /\ \A x \in Writers \ {w} : response'[x] = response[x]
    BY <1>11, ForgetKeeps DEF FailScope, End
  <2> QED
    BY <1>11, <2>1 DEF FailScope, End, Goto, OthersKept, Moves, Holds, Writes
<1>12. CASE Die(w)
  <2>1. /\ UNCHANGED <<clock, versions, current, lineage>> /\ response'[w] = Null
        /\ \A x \in Writers \ {w} : response'[x] = response[x]
    BY <1>12, ForgetKeeps DEF Die
  <2> QED
    BY <1>12, <2>1 DEF Die, Goto, OthersKept, Moves, Holds, Writes
<1> QED
  BY <1>1, <1>2, <1>3, <1>4, <1>5, <1>6, <1>7, <1>8, <1>9, <1>10, <1>11, <1>12 DEF Attempt

-----------------------------------------------------------------------------
(***************************************************************************)
(* Counting.                                                               *)
(***************************************************************************)
\* The values among the records of response b before the n-th.
ValuesBefore(b, n) == {i \in 1..(n - 1) : b[i].kind = "value"}

\* The counters c tell what has become of these records: the locators raw, the
\* quarantined ones, and the versions they originated.
Agrees(b, n, raw, quarantined, originated, c) ==
    /\ IsFiniteSet(raw) /\ IsFiniteSet(quarantined) /\ IsFiniteSet(originated)
    /\ \A x \in raw \cup quarantined : x[2] \in 1..(n - 1)
    /\ Cardinality(raw) = n - 1
    /\ c["fetched"] = Len(b)
    /\ c["inserted"] = Cardinality({o \in originated : o[3] = 1})
    /\ c["revised"] = Cardinality({o \in originated : o[3] > 1})
    /\ c["unchanged"] = Cardinality(ValuesBefore(b, n)) - Cardinality(originated)
    /\ c["quarantined"] = Cardinality(quarantined)

LEMMA ValuesGrow ==
    ASSUME NEW b, NEW n \in Nat \ {0}
    PROVE  /\ Cardinality(ValuesBefore(b, n)) \in Nat
           /\ Cardinality(ValuesBefore(b, n + 1))
                = Cardinality(ValuesBefore(b, n)) + (IF b[n].kind = "value" THEN 1 ELSE 0)
<1> DEFINE V == ValuesBefore(b, n)
<1>1. IsFiniteSet(1..(n - 1))
  BY FS_Interval
<1>2. V \in SUBSET (1..(n - 1)) /\ n \notin V
  BY DEF ValuesBefore
<1>3. IsFiniteSet(V)
  BY <1>1, <1>2, FS_Subset
<1>4. Cardinality(V) \in Nat /\ Cardinality(V \cup {n}) = Cardinality(V) + 1
  BY <1>2, <1>3, FS_CardinalityType, FS_AddElement
<1>5. ValuesBefore(b, n + 1) = IF b[n].kind = "value" THEN V \cup {n} ELSE V
  <2>1. 1..((n + 1) - 1) = (1..(n - 1)) \cup {n}
    OBVIOUS
  <2> QED
    BY <2>1 DEF ValuesBefore
<1> QED
  BY <1>4, <1>5

LEMMA FreshElement ==
    ASSUME NEW S, IsFiniteSet(S), NEW x, x \notin S
    PROVE  IsFiniteSet(S \cup {x}) /\ Cardinality(S) \in Nat
           /\ Cardinality(S \cup {x}) = Cardinality(S) + 1
  BY FS_AddElement, FS_CardinalityType

\* A record that is no value only adds its locator, and is quarantined or not.
LEMMA AgreesPassing ==
    ASSUME NEW b, NEW n \in Nat \ {0}, NEW raw, NEW quarantined, NEW originated,
           NEW c \in [Counter -> Nat], Agrees(b, n, raw, quarantined, originated, c),
           b[n].kind # "value", NEW w
    PROVE  /\ Agrees(b, n + 1, raw \cup {<<w, n>>}, quarantined, originated, c)
           /\ Agrees(b, n + 1, raw \cup {<<w, n>>}, quarantined \cup {<<w, n>>}, originated,
                     [c EXCEPT !["quarantined"] = c["quarantined"] + 1])
<1> DEFINE x == <<w, n>>
<1>1. x \notin raw /\ x \notin quarantined /\ x[2] = n
  BY DEF Agrees
<1> HIDE DEF x
<1>2. /\ IsFiniteSet(raw \cup {x}) /\ Cardinality(raw \cup {x}) = (n + 1) - 1
  BY <1>1, FreshElement DEF Agrees
<1>3. /\ IsFiniteSet(quarantined \cup {x})
      /\ Cardinality(quarantined \cup {x}) = Cardinality(quarantined) + 1
  BY <1>1, FreshElement DEF Agrees
<1>4. Cardinality(ValuesBefore(b, n + 1)) = Cardinality(ValuesBefore(b, n))
  BY ValuesGrow
<1>5. \A y \in (raw \cup {x}) \cup (quarantined \cup {x}) : y[2] \in 1..((n + 1) - 1)
  BY <1>1 DEF Agrees
<1>6. Agrees(b, n + 1, raw \cup {x}, quarantined, originated, c)
  BY <1>2, <1>4, <1>5 DEF Agrees
<1> DEFINE d == [c EXCEPT !["quarantined"] = c["quarantined"] + 1]
<1>7. /\ d["quarantined"] = c["quarantined"] + 1 /\ d["fetched"] = c["fetched"]
      /\ d["inserted"] = c["inserted"] /\ d["revised"] = c["revised"]
      /\ d["unchanged"] = c["unchanged"]
  BY DEF Counter
<1> HIDE DEF d
<1>8. Agrees(b, n + 1, raw \cup {x}, quarantined \cup {x}, originated, d)
  BY <1>2, <1>3, <1>4, <1>5, <1>7 DEF Agrees
<1> QED
  BY <1>6, <1>8 DEF x, d

\* A value that repeats the current version originates nothing.
LEMMA AgreesUnchanged ==
    ASSUME NEW b, NEW n \in Nat \ {0}, NEW raw, NEW quarantined, NEW originated,
           NEW c \in [Counter -> Nat], Agrees(b, n, raw, quarantined, originated, c),
           b[n].kind = "value", NEW w
    PROVE  Agrees(b, n + 1, raw \cup {<<w, n>>}, quarantined, originated,
                  [c EXCEPT !["unchanged"] = c["unchanged"] + 1])
<1> DEFINE x == <<w, n>>
           d == [c EXCEPT !["unchanged"] = c["unchanged"] + 1]
<1>1. x \notin raw /\ x[2] = n
  BY DEF Agrees
<1>2. /\ d["unchanged"] = c["unchanged"] + 1 /\ d["fetched"] = c["fetched"]
      /\ d["inserted"] = c["inserted"] /\ d["revised"] = c["revised"]
      /\ d["quarantined"] = c["quarantined"]
  BY DEF Counter
<1> HIDE DEF x, d
<1>3. /\ IsFiniteSet(raw \cup {x}) /\ Cardinality(raw \cup {x}) = (n + 1) - 1
  BY <1>1, FreshElement DEF Agrees
<1>4. /\ Cardinality(ValuesBefore(b, n + 1)) = Cardinality(ValuesBefore(b, n)) + 1
      /\ Cardinality(ValuesBefore(b, n)) \in Nat
  BY ValuesGrow
<1>5. \A y \in (raw \cup {x}) \cup quarantined : y[2] \in 1..((n + 1) - 1)
  BY <1>1 DEF Agrees
<1>6. Cardinality(originated) \in Nat
  BY FS_CardinalityType DEF Agrees
<1>7. Agrees(b, n + 1, raw \cup {x}, quarantined, originated, d)
  BY <1>2, <1>3, <1>4, <1>5, <1>6 DEF Agrees
<1> QED
  BY <1>7 DEF x, d

\* A value that is new originates a version: its number tells whether it is
\* the first of its observation.
LEMMA AgreesOriginated ==
    ASSUME NEW b, NEW n \in Nat \ {0}, NEW raw, NEW quarantined, NEW originated,
           NEW c \in [Counter -> Nat], Agrees(b, n, raw, quarantined, originated, c),
           b[n].kind = "value", NEW w, NEW o, o \notin originated, o[3] \in Nat \ {0}
    PROVE  /\ o[3] = 1 =>
                Agrees(b, n + 1, raw \cup {<<w, n>>}, quarantined, originated \cup {o},
                       [c EXCEPT !["inserted"] = c["inserted"] + 1])
           /\ o[3] > 1 =>
                Agrees(b, n + 1, raw \cup {<<w, n>>}, quarantined, originated \cup {o},
                       [c EXCEPT !["revised"] = c["revised"] + 1])
<1> DEFINE x == <<w, n>>
           d == [c EXCEPT !["inserted"] = c["inserted"] + 1]
           e == [c EXCEPT !["revised"] = c["revised"] + 1]
           First(S) == {p \in S : p[3] = 1}
           Further(S) == {p \in S : p[3] > 1}
<1>1. x \notin raw /\ x[2] = n
  BY DEF Agrees
<1>2. /\ d["inserted"] = c["inserted"] + 1 /\ d["fetched"] = c["fetched"]
      /\ d["unchanged"] = c["unchanged"] /\ d["revised"] = c["revised"]
      /\ d["quarantined"] = c["quarantined"]
      /\ e["revised"] = c["revised"] + 1 /\ e["fetched"] = c["fetched"]
      /\ e["unchanged"] = c["unchanged"] /\ e["inserted"] = c["inserted"]
      /\ e["quarantined"] = c["quarantined"]
  BY DEF Counter
<1> HIDE DEF x, d, e
<1>3. /\ IsFiniteSet(raw \cup {x}) /\ Cardinality(raw \cup {x}) = (n + 1) - 1
  BY <1>1, FreshElement DEF Agrees
<1>4. /\ Cardinality(ValuesBefore(b, n + 1)) = Cardinality(ValuesBefore(b, n)) + 1
      /\ Cardinality(ValuesBefore(b, n)) \in Nat
  BY ValuesGrow
<1>5. \A y \in (raw \cup {x}) \cup quarantined : y[2] \in 1..((n + 1) - 1)
  BY <1>1 DEF Agrees
<1>6. /\ IsFiniteSet(originated \cup {o}) /\ Cardinality(originated) \in Nat
      /\ Cardinality(originated \cup {o}) = Cardinality(originated) + 1
  BY FreshElement DEF Agrees
<1>7. /\ IsFiniteSet(First(originated)) /\ IsFiniteSet(Further(originated))
      /\ o \notin First(originated) /\ o \notin Further(originated)
  <2>1. First(originated) \in SUBSET originated /\ Further(originated) \in SUBSET originated
    OBVIOUS
  <2> QED
    BY <2>1, FS_Subset DEF Agrees
<1>8. /\ First(originated \cup {o}) = IF o[3] = 1 THEN First(originated) \cup {o}
                                      ELSE First(originated)
      /\ Further(originated \cup {o}) = IF o[3] > 1 THEN Further(originated) \cup {o}
                                        ELSE Further(originated)
  OBVIOUS
<1>9. /\ c["inserted"] = Cardinality(First(originated))
      /\ c["revised"] = Cardinality(Further(originated))
  BY DEF Agrees
<1> DEFINE A(f) == Agrees(b, n + 1, raw \cup {x}, quarantined, originated \cup {o}, f)
<1>10. ASSUME NEW f, /\ f["inserted"] = Cardinality(First(originated \cup {o}))
                     /\ f["revised"] = Cardinality(Further(originated \cup {o}))
                     /\ f["fetched"] = c["fetched"] /\ f["unchanged"] = c["unchanged"]
                     /\ f["quarantined"] = c["quarantined"]
       PROVE  A(f)
  BY <1>3, <1>4, <1>5, <1>6, <1>10 DEF Agrees
<1> HIDE DEF A, First, Further
<1>11. /\ Cardinality(First(originated) \cup {o}) = Cardinality(First(originated)) + 1
       /\ Cardinality(Further(originated) \cup {o}) = Cardinality(Further(originated)) + 1
  BY <1>7, FreshElement
<1>12. o[3] = 1 => A(d)
  BY <1>2, <1>8, <1>9, <1>10, <1>11
<1>13. o[3] > 1 => A(e)
  <2> SUFFICES ASSUME o[3] > 1 PROVE A(e)
    OBVIOUS
  <2>1. o[3] # 1
    OBVIOUS
  <2>2. /\ e["revised"] = Cardinality(Further(originated \cup {o}))
        /\ e["inserted"] = Cardinality(First(originated \cup {o}))
    BY <1>2, <1>8, <1>9, <1>11, <2>1
  <2> QED
    BY <1>2, <1>10, <2>2
<1> QED
  BY <1>12, <1>13 DEF A, x, d, e


LEMMA AgreesAtFirst ==
    ASSUME NEW b, NEW c \in [Counter -> Nat],
           \A x \in Counter : c[x] = IF x = "fetched" THEN Len(b) ELSE 0
    PROVE  Agrees(b, 1, {}, {}, {}, c)
<1>1. ValuesBefore(b, 1) = {}
  BY DEF ValuesBefore
<1>2. {o \in {} : o[3] = 1} = {} /\ {o \in {} : o[3] > 1} = {} /\ {} \cup {} = {}
  OBVIOUS
<1>3. /\ c["fetched"] = Len(b) /\ c["inserted"] = 0 /\ c["revised"] = 0
      /\ c["unchanged"] = 0 /\ c["quarantined"] = 0
  BY DEF Counter
<1>4. IsFiniteSet({}) /\ Cardinality({}) = 0
  BY FS_EmptySet
<1> QED
  BY <1>1, <1>2, <1>3, <1>4 DEF Agrees

-----------------------------------------------------------------------------
(***************************************************************************)
(* The counters of an attempt agree with what it has written so far.       *)
(***************************************************************************)
\* An originating run is recorded once for each version.
OriginInv ==
    \A o \in origin : /\ o[2] \in Keys /\ o[3] \in Nat \ {0}
                      /\ o[3] <= current[o[2]]

\* Before the first record nothing has been written, then every record is
\* accounted for.
Book(w) ==
    /\ phase[w] \in {"new", "fetching", "arrived", "stored"} =>
            /\ OriginOf(w) = {} /\ RawOf(w) = {} /\ QuarantineOf(w) = {}
            /\ next[w] = 1 /\ counts[w] = EmptyCounts
    /\ phase[w] = "records" =>
            /\ next[w] \in 1..(Len(body[w]) + 1)
            /\ Agrees(body[w], next[w], RawOf(w), QuarantineOf(w), OriginOf(w), counts[w])
    /\ phase[w] = "succeeded" =>
            /\ body[w] \in Bodies /\ next[w] = Len(body[w]) + 1
            /\ Agrees(body[w], next[w], RawOf(w), QuarantineOf(w), OriginOf(w), counters[w])

BookInv == BookTypes /\ OriginInv /\ \A w \in Writers : Book(w)

LEMMA BookKept ==
    ASSUME NEW w \in Writers, OthersKept(w), NEW x \in Writers \ {w}, Book(x)
    PROVE  Book(x)'
  BY DEF OthersKept, Book

LEMMA ResponseIsSequence ==
    ASSUME Typed, NEW w \in Writers, body[w] \in Bodies
    PROVE  /\ body[w] \in Seq(Record) /\ Len(body[w]) \in Nat
           /\ DOMAIN body[w] = 1..Len(body[w])
  BY PipelineAssumption

LEMMA EmptyIsTyped ==
    /\ EmptyCounts \in [Counter -> Nat] /\ FailedCounts \in [Counter -> Nat]
    /\ \A c \in Counter : EmptyCounts[c] = 0
  BY DEF EmptyCounts, FailedCounts, Counter

\* Parsing starts the tally.
LEMMA ParseBook ==
    ASSUME Typed, NEW w \in Writers, Book(w), Parse(w)
    PROVE  BookTypes' /\ Book(w)'
<1> USE TypedFacts
<1>1. /\ UNCHANGED <<origin, rawRecords, quarantine, next, body, counters>>
      /\ phase[w] = "stored"
  BY DEF Parse
<1>2. /\ OriginOf(w)' = {} /\ RawOf(w)' = {} /\ QuarantineOf(w)' = {} /\ next'[w] = 1
      /\ counts[w] = EmptyCounts
  BY <1>1 DEF Book, OriginOf, RawOf, QuarantineOf
<1>3. CASE ~Parseable(body[w])
  <2>1. UNCHANGED counts /\ phase'[w] = "failing"
    BY <1>3 DEF Parse, Goto
  <2> QED
    BY <1>1, <1>2, <2>1 DEF BookTypes, Book
<1>4. CASE Parseable(body[w])
  <2>1. /\ counts' = [counts EXCEPT ![w] = [counts[w] EXCEPT !["fetched"] = Len(body[w])]]
        /\ phase'[w] = "records" /\ body[w] \in Bodies
    BY <1>4 DEF Parse, Goto, Parseable
  <2>2. Len(body[w]) \in Nat
    BY <2>1, ResponseIsSequence
  <2>3. /\ counts'[w] \in [Counter -> Nat] /\ counts' \in [Writers -> [Counter -> Nat]]
        /\ \A x \in Counter : counts'[w][x] = IF x = "fetched" THEN Len(body[w]) ELSE 0
    BY <1>2, <2>1, <2>2, EmptyIsTyped
  <2>4. Agrees(body[w], 1, {}, {}, {}, counts'[w])
    BY <2>3, AgreesAtFirst
  <2> QED
    BY <1>1, <1>2, <2>1, <2>2, <2>3, <2>4 DEF BookTypes, Book
<1> QED
  BY <1>3, <1>4

\* Each record, value or not, is counted as what was done with it.
LEMMA PassingBook ==
    ASSUME Typed, NEW w \in Writers, Book(w), QuarantineRecord(w) \/ SkipAbsence(w)
    PROVE  BookTypes' /\ Book(w)'
<1> USE TypedFacts
<1> DEFINE n == next[w]
           b == body[w]
           x == <<w, n>>
<1>1. /\ AtRecord(w) /\ RecordOf(w).kind # "value"
      /\ rawRecords' = rawRecords \cup {x}
      /\ next' = [next EXCEPT ![w] = n + 1]
      /\ UNCHANGED <<origin, phase, body, counters>>
  BY DEF QuarantineRecord, SkipAbsence, RecordDone, StoreLocator, Refused, Unmappable, Invalid
<1>2. /\ phase[w] = "records" /\ n \in DOMAIN b /\ b[n].kind # "value" /\ b \in Bodies
  BY <1>1 DEF AtRecord, RecordOf, Typed, EvidenceInv, ParsedInv
<1>3. n \in 1..Len(b) /\ Len(b) \in Nat
  BY <1>2, ResponseIsSequence
<1>4. RawOf(w)' = RawOf(w) \cup {x} /\ OriginOf(w)' = OriginOf(w)
  BY <1>1 DEF RawOf, OriginOf
<1>5. Agrees(b, n, RawOf(w), QuarantineOf(w), OriginOf(w), counts[w]) /\ counts[w] \in [Counter -> Nat]
  BY <1>2 DEF Book
<1>6. n \in Nat \ {0}
  BY <1>3
<1> DEFINE d == [counts[w] EXCEPT !["quarantined"] = counts[w]["quarantined"] + 1]
<1>7. /\ Agrees(b, n + 1, RawOf(w) \cup {x}, QuarantineOf(w), OriginOf(w), counts[w])
      /\ Agrees(b, n + 1, RawOf(w) \cup {x}, QuarantineOf(w) \cup {x}, OriginOf(w), d)
  BY <1>2, <1>5, <1>6, AgreesPassing
<1>8. d \in [Counter -> Nat]
  BY DEF Counter
<1>9. next' \in [Writers -> Nat \ {0}] /\ next'[w] = n + 1 /\ n + 1 \in 1..(Len(b) + 1)
  BY <1>1, <1>3
<1>10. \/ QuarantineOf(w)' = QuarantineOf(w) \cup {x} /\ counts' = [counts EXCEPT ![w] = d]
       \/ QuarantineOf(w)' = QuarantineOf(w) /\ counts' = counts
  <2>1. CASE QuarantineRecord(w)
    <3>1. quarantine' = quarantine \cup {x} /\ counts' = [counts EXCEPT ![w] = d]
      BY <2>1 DEF QuarantineRecord, RecordDone, Counter
    <3> QED
      BY <3>1 DEF QuarantineOf
  <2>2. CASE SkipAbsence(w)
    <3>1. quarantine' = quarantine /\ counts' = counts
      BY <2>2 DEF SkipAbsence, RecordDone, Counter
    <3> QED
      BY <3>1 DEF QuarantineOf
  <2> QED
    BY <2>1, <2>2
<1> HIDE DEF n, x, d
<1>11. BookTypes'
  BY <1>1, <1>8, <1>9, <1>10 DEF BookTypes
<1>12. Agrees(b, n + 1, RawOf(w)', QuarantineOf(w)', OriginOf(w)', counts'[w])
  BY <1>4, <1>7, <1>10
<1> QED
  BY <1>1, <1>2, <1>9, <1>11, <1>12 DEF Book


\* A new version has a number that no version of its observation had.
LEMMA PersistBook ==
    ASSUME Typed, OriginInv, NEW w \in Writers, Book(w), PersistRecord(w)
    PROVE  BookTypes' /\ Book(w)' /\ OriginInv'
<1> USE TypedFacts
<1> DEFINE n == next[w]
           b == body[w]
           k == txn[w].key
           x == <<w, n>>
           c == counts[w]
<1>1. PICK rows, m : InTransaction(w) /\ Commit(w, rows, m)
  BY DEF PersistRecord, Insert, Unchanged, Revise
<1>2. /\ rawRecords' = rawRecords \cup {x}
      /\ next' = [next EXCEPT ![w] = n + 1]
      /\ UNCHANGED <<phase, body, counters, quarantine>>
  BY DEF PersistRecord, RecordDone, StoreLocator
<1>3. phase[w] = "records" /\ n \in DOMAIN b /\ b[n].kind = "value" /\ b \in Bodies
  BY <1>1, DueRecord DEF RecordOf, Typed, EvidenceInv, ParsedInv
<1>4. n \in 1..Len(b) /\ Len(b) \in Nat
  BY <1>3, ResponseIsSequence
<1>5. RawOf(w)' = RawOf(w) \cup {x} /\ QuarantineOf(w)' = QuarantineOf(w)
  BY <1>2 DEF RawOf, QuarantineOf
<1>6. Agrees(b, n, RawOf(w), QuarantineOf(w), OriginOf(w), c) /\ c \in [Counter -> Nat]
  BY <1>3 DEF Book
<1>7. /\ k \in Keys /\ txn[w].base = current[k] /\ current[k] \in Nat
      /\ current \in [Keys -> Nat]
  BY <1>1, TransactionFacts DEF Typed, IInv, TypeOK, TxnInv
<1>8. next' \in [Writers -> Nat \ {0}] /\ next'[w] = n + 1 /\ n + 1 \in 1..(Len(b) + 1)
      /\ n \in Nat \ {0}
  BY <1>2, <1>4
<1> DEFINE Counted(f) == counts' = [counts EXCEPT ![w] = [c EXCEPT ![f] = c[f] + 1]]
           Rest(f) == Agrees(b, n + 1, RawOf(w) \cup {x}, QuarantineOf(w), OriginOf(w)',
                             [c EXCEPT ![f] = c[f] + 1])
<1>9. ASSUME NEW f \in Counter, Counted(f), Rest(f) PROVE BookTypes' /\ Book(w)'
  <2>1. [c EXCEPT ![f] = c[f] + 1] \in [Counter -> Nat]
    BY <1>6, <1>9
  <2>2. counts' \in [Writers -> [Counter -> Nat]] /\ counts'[w] = [c EXCEPT ![f] = c[f] + 1]
    BY <1>9, <2>1
  <2>3. Agrees(b, n + 1, RawOf(w)', QuarantineOf(w)', OriginOf(w)', counts'[w])
    BY <1>5, <1>9, <2>2
  <2>4. BookTypes'
    BY <1>2, <1>8, <2>2 DEF BookTypes
  <2> HIDE DEF n, x, c
  <2> QED
    BY <1>2, <1>3, <1>8, <2>3, <2>4 DEF Book
\* A version that is added.
<1>10. ASSUME NEW number \in Nat \ {0}, number > current[k],
              origin' = origin \cup {<<w, k, number>>}, current' = [current EXCEPT ![k] = number]
       PROVE  /\ OriginInv'
              /\ number = 1 => Rest("inserted")
              /\ number > 1 => Rest("revised")
  <2> DEFINE o == <<w, k, number>>
  <2>1. o \notin origin
    BY <1>7, <1>10 DEF OriginInv
  <2>2. OriginOf(w)' = OriginOf(w) \cup {o} /\ o \notin OriginOf(w) /\ o[3] = number
    BY <1>10, <2>1 DEF OriginOf
  <2>3. OriginInv'
    BY <1>7, <1>10 DEF OriginInv
  <2> HIDE DEF o, n, x, b, c
  <2>4. /\ number = 1 => Agrees(b, n + 1, RawOf(w) \cup {<<w, n>>}, QuarantineOf(w),
                                OriginOf(w) \cup {o}, [c EXCEPT !["inserted"] = c["inserted"] + 1])
        /\ number > 1 => Agrees(b, n + 1, RawOf(w) \cup {<<w, n>>}, QuarantineOf(w),
                                OriginOf(w) \cup {o}, [c EXCEPT !["revised"] = c["revised"] + 1])
    <3>1. b[n].kind = "value"
      BY <1>3
    <3> QED
      BY <1>6, <1>8, <1>10, <2>2, <3>1, AgreesOriginated
  <2> QED
    BY <2>2, <2>3, <2>4 DEF x
<1> HIDE DEF Rest
<1>11. CASE Insert(w)
  <2>1. PICK r : Commit(w, r, 1) /\ txn[w].base = Null
    BY <1>11 DEF Insert
  <2>2. RecordDone(w, "inserted") /\ Originates(w, 1)
    BY <1>11 DEF PersistRecord, Insert, Unchanged, Revise, Null
  <2>3. current' = [current EXCEPT ![k] = 1] /\ origin' = origin \cup {<<w, k, 1>>}
    BY <2>1, <2>2 DEF Commit, Originates
  <2>4. Counted("inserted")
    BY <2>2 DEF RecordDone, Counter
  <2>5. current[k] = 0
    BY <1>7, <2>1 DEF Null
  <2> HIDE DEF Counted, k, n, b, x, c
  <2>6. 1 \in Nat \ {0} /\ 1 > current[k]
    BY <2>5
  <2>7. OriginInv' /\ Rest("inserted")
    BY ONLY <1>10, <2>3, <2>6
  <2> QED
    BY <1>9, <2>4, <2>7 DEF Counter
<1>12. CASE Revise(w)
  <2>1. /\ txn[w].base # Null /\ txn[w].fingerprint # Base(w).fingerprint
        /\ \E r : Commit(w, r, Base(w).number + 1)
    BY <1>12 DEF Revise
  <2>2. RecordDone(w, "revised") /\ Originates(w, txn[w].base + 1)
    BY <1>12, <2>1 DEF PersistRecord, Insert, Unchanged
  <2>3. Base(w).number = current[k]
    BY <1>1, <1>7, <2>1, BaseFacts DEF Typed, IInv
  <2>4. /\ current' = [current EXCEPT ![k] = current[k] + 1]
        /\ origin' = origin \cup {<<w, k, current[k] + 1>>}
    BY <1>7, <2>1, <2>2, <2>3 DEF Commit, Originates
  <2>5. Counted("revised")
    BY <2>2 DEF RecordDone, Counter
  <2>6. current[k] \in Nat /\ current[k] # 0
    BY <1>7, <2>1 DEF Null
  <2> HIDE DEF Counted, k, n, b, x, c
  <2>7. current[k] + 1 \in Nat \ {0} /\ current[k] + 1 > current[k] /\ current[k] + 1 > 1
    BY ONLY <2>6
  <2>8. OriginInv' /\ Rest("revised")
    BY ONLY <1>10, <2>4, <2>7
  <2> QED
    BY <1>9, <2>5, <2>8 DEF Counter
<1>13. CASE Unchanged(w)
  <2>1. /\ txn[w].base # Null /\ txn[w].fingerprint = Base(w).fingerprint
        /\ \E r : Commit(w, r, Base(w).number)
    BY <1>13 DEF Unchanged
  <2>2. RecordDone(w, "unchanged") /\ UNCHANGED origin
    BY <1>13, <2>1 DEF PersistRecord, Insert, Revise
  <2>3. Base(w).number = current[k]
    BY <1>1, <1>7, <2>1, BaseFacts DEF Typed, IInv
  <2>4. current' = current
    BY <1>7, <2>1, <2>3 DEF Commit
  <2>5. OriginInv' /\ OriginOf(w)' = OriginOf(w)
    BY <2>2, <2>4 DEF OriginInv, OriginOf
  <2>6. Counted("unchanged")
    BY <2>2 DEF RecordDone, Counter
  <2>7. Rest("unchanged")
    <3> HIDE DEF n, b, c
    <3>1. b[n].kind = "value"
      BY <1>3
    <3> QED
      BY <1>6, <1>8, <2>5, <3>1, AgreesUnchanged DEF Rest
  <2> HIDE DEF Counted
  <2> QED
    BY <1>9, <2>5, <2>6, <2>7 DEF Counter
<1> QED
  BY <1>11, <1>12, <1>13 DEF PersistRecord

LEMMA AttemptBook ==
    ASSUME Typed, OriginInv, NEW w \in Writers, Book(w), Attempt(w)
    PROVE  BookTypes' /\ Book(w)' /\ OriginInv'
<1> USE TypedFacts, AttemptFacts, EmptyIsTyped
<1>1. CASE PersistRecord(w)
  BY <1>1, PersistBook
<1>2. CASE ~PersistRecord(w)
  <2>1. UNCHANGED <<origin, current>>
    BY <1>2 DEF Writes, StoreQuiet
  <2>2. OriginInv' /\ OriginOf(w)' = OriginOf(w)
    BY <2>1 DEF OriginInv, OriginOf
  <2>3. CASE Parse(w)
    BY <2>2, <2>3, ParseBook
  <2>4. CASE QuarantineRecord(w) \/ SkipAbsence(w)
    BY <2>2, <2>4, PassingBook
  <2>5. CASE \/ Begin(w) \/ StepFails(w) \/ StoreResponse(w) \/ LockRecord(w)
             \/ RejectRecord(w) \/ Die(w) \/ \E b \in Bodies \cup {Garbage} : Arrive(w, b)
    <3>1. UNCHANGED <<rawRecords, quarantine, next, counts, counters>>
      BY <2>5 DEF Begin, StepFails, StoreResponse, LockRecord, RejectRecord, Die, Arrive,
                  pipelineVars
    <3>2. \/ phase[w] \in {"new", "fetching", "arrived"} /\ phase'[w] \in {"fetching", "arrived", "stored"}
          \/ phase'[w] \in {"failing", "dead"}
          \/ phase'[w] = phase[w] /\ body'[w] = body[w]
      BY <2>5 DEF Begin, StepFails, StoreResponse, LockRecord, RejectRecord, Die, Arrive,
                  pipelineVars, Goto, Active
    <3>3. RawOf(w)' = RawOf(w) /\ QuarantineOf(w)' = QuarantineOf(w)
      BY <3>1 DEF RawOf, QuarantineOf
    <3>4. BookTypes'
      BY <3>1 DEF BookTypes
    <3>5. Book(w)'
      BY <2>2, <3>1, <3>2, <3>3 DEF Book
    <3> QED
      BY <2>2, <3>4, <3>5
  <2>6. CASE CompleteScope(w)
    <3>1. /\ UNCHANGED <<rawRecords, quarantine, next, counts, body>>
          /\ counters' = [counters EXCEPT ![w] = counts[w]] /\ phase'[w] = "succeeded"
          /\ phase[w] = "records" /\ next[w] = Len(body[w]) + 1
      BY <2>6 DEF CompleteScope, End, Goto
    <3>2. RawOf(w)' = RawOf(w) /\ QuarantineOf(w)' = QuarantineOf(w)
      BY <3>1 DEF RawOf, QuarantineOf
    <3>3. body[w] \in Bodies
      BY <3>1 DEF Typed, EvidenceInv, ParsedInv
    <3>4. BookTypes' /\ counters'[w] = counts[w]
      BY <3>1 DEF BookTypes
    <3>5. Book(w)'
      BY <2>2, <3>1, <3>2, <3>3, <3>4 DEF Book
    <3> QED
      BY <2>2, <3>4, <3>5
  <2>7. CASE FailScope(w)
    <3>1. /\ UNCHANGED <<next, counts>> /\ counters' = [counters EXCEPT ![w] = FailedCounts]
          /\ phase'[w] = "failed"
      BY <2>7 DEF FailScope, End, Goto
    <3> QED
      BY <2>2, <3>1 DEF BookTypes, Book
  <2> QED
    BY <1>2, <2>3, <2>4, <2>5, <2>6, <2>7 DEF Attempt
<1> QED
  BY <1>1, <1>2

LEMMA InitBook == PipelineInit => BookInv
<1> SUFFICES ASSUME PipelineInit PROVE BookInv
  OBVIOUS
<1>1. BookTypes
  BY EmptyIsTyped DEF PipelineInit, BookTypes
<1>2. OriginInv
  BY DEF PipelineInit, OriginInv
<1>3. ASSUME NEW w \in Writers PROVE Book(w)
  BY DEF PipelineInit, Book, OriginOf, RawOf, QuarantineOf
<1> QED
  BY <1>1, <1>2, <1>3 DEF BookInv

LEMMA NextBook ==
    BookInv /\ IInv /\ EvidenceInv /\ [PipelineNext]_allVars => BookInv'
<1> SUFFICES ASSUME BookInv, IInv, EvidenceInv, [PipelineNext]_allVars PROVE BookInv'
  OBVIOUS
<1>0. Typed
  BY DEF Typed, BookInv
<1>1. CASE UNCHANGED pipelineVars /\ UNCHANGED current
  BY <1>1 DEF pipelineVars, BookInv, BookTypes, OriginInv, Book, OriginOf, RawOf, QuarantineOf
<1>2. ASSUME NEW w \in Writers, Attempt(w) PROVE BookInv'
  <2>1. BookTypes' /\ Book(w)' /\ OriginInv'
    BY <1>0, <1>2, AttemptBook DEF BookInv
  <2>2. \A x \in Writers \ {w} : Book(x)'
    BY <1>0, <1>2, AttemptFacts, BookKept DEF BookInv
  <2> QED
    BY <2>1, <2>2 DEF BookInv
<1> QED
  BY <1>1, <1>2 DEF PipelineNext, allVars, vars, Tick

\* What is being persisted, and what has been, is backed by stored records.
THEOREM PipelineEvidence == PipelineSpec => []EvidenceInv
  BY InitEvidence, NextEvidence, PipelineIInv, PTL DEF PipelineSpec

\* At every record, the counts in memory are what the attempt has written.
THEOREM BookInvariance == PipelineSpec => []BookInv
  BY InitBook, NextBook, PipelineIInv, PipelineEvidence, PTL DEF PipelineSpec

\* What a succeeded scope reports to the operator, inserted, revised, unchanged
\* and quarantined, is what its transactions left in the tables.
THEOREM CountersAreEffects == PipelineSpec => []CountersMatchEffects
<1>1. ASSUME BookInv, NEW w \in Writers, phase[w] = "succeeded"
      PROVE  LET mine == {o \in origin : o[1] = w}
                 kept == {i \in DOMAIN body[w] : body[w][i].kind = "value"}
             IN  /\ counters[w]["inserted"] = Cardinality({o \in mine : o[3] = 1})
                 /\ counters[w]["revised"] = Cardinality({o \in mine : o[3] > 1})
                 /\ counters[w]["unchanged"] = Cardinality(kept) - Cardinality(mine)
                 /\ counters[w]["quarantined"] = Cardinality({q \in quarantine : q[1] = w})
                 /\ counters[w]["fetched"] = Cardinality({x \in rawRecords : x[1] = w})
  <2>1. /\ body[w] \in Bodies /\ next[w] = Len(body[w]) + 1
        /\ Agrees(body[w], next[w], RawOf(w), QuarantineOf(w), OriginOf(w), counters[w])
    BY <1>1 DEF BookInv, Book
  <2>2. DOMAIN body[w] = 1..Len(body[w]) /\ Len(body[w]) \in Nat
    BY <2>1, PipelineAssumption
  <2>3. next[w] - 1 = Len(body[w])
    BY <2>1, <2>2
  <2>4. ValuesBefore(body[w], next[w]) = {i \in DOMAIN body[w] : body[w][i].kind = "value"}
    BY <2>2, <2>3 DEF ValuesBefore
  <2> QED
    BY <2>1, <2>3, <2>4 DEF Agrees, RawOf, QuarantineOf, OriginOf
<1>2. BookInv => CountersMatchEffects
  BY <1>1 DEF CountersMatchEffects
<1> QED
  BY <1>2, BookInvariance, PTL


-----------------------------------------------------------------------------
(***************************************************************************)
(* One attempt at a time, each with a later response than the ones before. *)
(***************************************************************************)
SoloInv == \A v, w \in Writers : v < w /\ phase[w] # "new" => Ended(v)

\* Only an attempt that is under way holds a response; it is later than what
\* the attempts before it have seen, and stamps all that it sees itself.
ResponseInv ==
    \A w \in Writers :
        /\ response[w] # Null => phase[w] \in Active
        /\ phase[w] = "fetching" => \A k \in Keys : \A l \in lineage[k] : l.at < clock
        /\ response[w] # Null => \A k \in Keys : \A l \in lineage[k] :
                IF l.run = w THEN l.at = response[w] ELSE l.at < response[w]

OneAttemptInv == SoloInv /\ ResponseInv

\* Of two attempts that have begun and have not ended there is only one.
LEMMA OnlyOneActive ==
    ASSUME Typed, SoloInv, NEW v \in Writers, NEW w \in Writers,
           phase[v] \in Active, phase[w] \in Active
    PROVE  v = w
<1>1. v \in Nat /\ w \in Nat
  BY PipelineAssumption
<1>2. phase[v] # "new" /\ phase[w] # "new" /\ ~Ended(v) /\ ~Ended(w)
  BY DEF Active, Ended
<1>3. ~(v < w) /\ ~(w < v)
  BY <1>2 DEF SoloInv
<1> QED
  BY <1>1, <1>3

LEMMA LineageTypes ==
    ASSUME Typed, NEW k \in Keys, NEW l \in lineage[k]
    PROVE  l.run \in Writers /\ l.at \in Instants
  BY DEF Typed, IInv, TypeOK, LineageRow

\* A step of the store adds at most one sighting to an observation.
LEMMA CommitSighting ==
    ASSUME IInv, [Next]_vars, NEW k \in Keys, NEW w \in Writers, Commits(w, k)
    PROVE  \E l : /\ lineage'[k] = lineage[k] \cup {l}
                  /\ l.run = w /\ l.at = response[w]
<1> DEFINE Seen(n) == [number |-> n, run |-> w, at |-> response[w]]
<1>1. \E n : lineage'[k] = lineage[k] \cup {Seen(n)}
  BY DEF Commits, FirstSeen, Repeated, Revised
<1>2. \A n : Seen(n).run = w /\ Seen(n).at = response[w]
  OBVIOUS
<1> QED
  BY <1>1, <1>2

\* What the pipeline's steps mean for the sightings of one observation.
LEMMA LineageStep ==
    ASSUME Typed, NEW w \in Writers, Attempt(w), [Next]_vars, NEW k \in Keys
    PROVE  \/ lineage'[k] = lineage[k] /\ versions'[k] = versions[k]
           \/ /\ Commits(w, k) /\ PersistRecord(w)
              /\ phase[w] = "records" /\ phase'[w] = "records" /\ UNCHANGED response
<1>1. CASE StoreQuiet
  BY <1>1 DEF StoreQuiet
<1>2. CASE PersistRecord(w) /\ phase[w] = "records" /\ phase'[w] = "records" /\ UNCHANGED response
  <2>1. \A x \in Writers : Commits(x, k) => x = w
    <3>1. PICK rows, n : InTransaction(w) /\ Commit(w, rows, n)
      BY <1>2 DEF PersistRecord, Insert, Unchanged, Revise
    <3> QED
      BY <3>1, TypedFacts DEF Commit, Commits, InTransaction
  <2> QED
    BY <1>2, <2>1, StepOnKey DEF Typed
<1> QED
  BY <1>1, <1>2, AttemptFacts DEF Writes

LEMMA SoloStep ==
    ASSUME Typed, SoloInv, NEW w \in Writers, Attempt(w)
    PROVE  SoloInv'
<1> SUFFICES ASSUME NEW u \in Writers, NEW v \in Writers, u < v, phase'[v] # "new"
             PROVE  Ended(u)'
  BY DEF SoloInv
<1> USE TypedFacts
<1>1. OthersKept(w) /\ Moves(w)
  BY AttemptFacts
<1>2. u \in Nat /\ v \in Nat
  BY PipelineAssumption
<1>3. CASE v = w
  <2>1. Ended(u)
    BY <1>1, <1>3 DEF Moves, SoloInv
  <2>2. u # w
    BY <1>2, <1>3
  <2> QED
    BY <1>1, <2>1, <2>2 DEF OthersKept, Ended
<1>4. CASE v # w
  <2>1. Ended(u)
    BY <1>1, <1>4 DEF OthersKept, SoloInv
  <2>2. u # w
    BY <1>1, <2>1 DEF Moves, Ended, Active
  <2> QED
    BY <1>1, <2>1, <2>2 DEF OthersKept, Ended
<1> QED
  BY <1>3, <1>4

LEMMA ResponseStep ==
    ASSUME Typed, OneAttemptInv, NEW w \in Writers, Attempt(w), [Next]_vars
    PROVE  ResponseInv'
<1> SUFFICES ASSUME NEW x \in Writers
             PROVE  /\ response'[x] # Null => phase'[x] \in Active
                    /\ phase'[x] = "fetching" =>
                            \A k \in Keys : \A l \in lineage'[k] : l.at < clock'
                    /\ response'[x] # Null => \A k \in Keys : \A l \in lineage'[k] :
                            IF l.run = x THEN l.at = response'[x] ELSE l.at < response'[x]
  BY DEF ResponseInv
<1> USE DEF OneAttemptInv
<1>1. OthersKept(w) /\ Moves(w) /\ Holds(w) /\ UNCHANGED clock
  BY AttemptFacts DEF Holds
<1>2. CASE x = w
  <2>1. response'[x] # Null => phase'[x] \in Active
    BY <1>1, <1>2 DEF Holds, Moves
  <2>2. \/ \A k \in Keys : lineage'[k] = lineage[k]
        \/ phase[w] = "records" /\ phase'[w] = "records" /\ UNCHANGED response
    BY LineageStep
  <2>3. ASSUME phase'[x] = "fetching", NEW k \in Keys, NEW l \in lineage'[k]
        PROVE  l.at < clock'
    <3>1. lineage'[k] = lineage[k] /\ phase[w] = "new"
      BY <1>1, <1>2, <2>2, <2>3 DEF Moves
    <3> QED
      BY <1>1, <2>3, <3>1 DEF Moves
  <2>4. ASSUME response'[x] # Null, NEW k \in Keys, NEW l \in lineage'[k]
        PROVE  IF l.run = x THEN l.at = response'[x] ELSE l.at < response'[x]
    <3>1. CASE response'[w] = response[w]
      <4>1. CASE lineage'[k] = lineage[k]
        BY <1>2, <2>4, <3>1, <4>1 DEF ResponseInv
      <4>2. CASE Commits(w, k)
        <5>1. l \in lineage[k] \/ (l.run = w /\ l.at = response[w])
          BY <2>4, <4>2, CommitSighting DEF Typed
        <5> QED
          BY <1>2, <2>4, <3>1, <5>1 DEF ResponseInv
      <4> QED
        BY <4>1, <4>2, LineageStep
    <3>2. CASE phase[w] \in {"new", "fetching"} /\ response'[w] = clock
      <4>1. lineage'[k] = lineage[k]
        BY <2>2, <3>2
      <4>2. l.at < clock
        BY <1>1, <2>4, <3>2, <4>1 DEF Moves, ResponseInv
      <4>3. l.run # w
        BY <2>4, <3>2, <4>1 DEF Typed, EvidenceInv
      <4> QED
        BY <1>2, <3>2, <4>2, <4>3
    <3> QED
      BY <1>1, <1>2, <2>4, <3>1, <3>2 DEF Holds
  <2> QED
    BY <2>1, <2>3, <2>4
<1>3. CASE x # w
  <2>1. phase'[x] = phase[x] /\ response'[x] = response[x]
    BY <1>1, <1>3 DEF OthersKept
  <2>2. response'[x] # Null => phase'[x] \in Active
    BY <2>1 DEF ResponseInv
  <2>3. ASSUME phase[x] \in Active, NEW k \in Keys PROVE lineage'[k] = lineage[k]
    <3>1. phase[w] # "records"
      BY <1>3, <2>3, OnlyOneActive DEF Active
    <3> QED
      BY <3>1, LineageStep
  <2>4. phase'[x] = "fetching" => \A k \in Keys : \A l \in lineage'[k] : l.at < clock'
    BY <1>1, <2>1, <2>3 DEF ResponseInv, Active
  <2>5. response'[x] # Null => \A k \in Keys : \A l \in lineage'[k] :
            IF l.run = x THEN l.at = response'[x] ELSE l.at < response'[x]
    BY <2>1, <2>2, <2>3 DEF ResponseInv
  <2> QED
    BY <2>2, <2>4, <2>5
<1> QED
  BY <1>2, <1>3

LEMMA InitOneAttempt == PipelineInit => OneAttemptInv
  BY DEF PipelineInit, Init, OneAttemptInv, SoloInv, ResponseInv

LEMMA NextOneAttempt ==
    OneAttemptInv /\ BookInv /\ IInv /\ EvidenceInv /\ [PipelineNext]_allVars => OneAttemptInv'
<1> SUFFICES ASSUME OneAttemptInv, BookInv, IInv, EvidenceInv, [PipelineNext]_allVars
             PROVE  OneAttemptInv'
  OBVIOUS
<1>0. Typed /\ [Next]_vars
  BY PipelineStepRefines DEF Typed, BookInv, EvidenceInv
<1>1. CASE UNCHANGED allVars
  BY <1>1 DEF allVars, vars, pipelineVars, OneAttemptInv, SoloInv, ResponseInv, Ended
<1>2. CASE Tick /\ UNCHANGED pipelineVars
  <2>1. /\ clock' = clock + 1 /\ clock \in Nat
        /\ UNCHANGED <<lineage, response, phase>>
    BY <1>0, <1>2, TypedFacts DEF Tick, pipelineVars, Instants
  <2>2. \A k \in Keys : \A l \in lineage[k] : l.at < clock => l.at < clock'
    BY <1>0, <2>1, LineageTypes DEF Instants
  <2> QED
    BY <2>1, <2>2 DEF OneAttemptInv, SoloInv, ResponseInv, Ended
<1>3. ASSUME NEW w \in Writers, Attempt(w) PROVE OneAttemptInv'
  BY <1>0, <1>3, SoloStep, ResponseStep DEF OneAttemptInv
<1> QED
  BY <1>1, <1>2, <1>3 DEF PipelineNext

\* However its predecessors ended, an attempt has the series to itself, and its
\* response is later than everything they have recorded.
THEOREM OneAttemptAtATime == PipelineSpec => []OneAttemptInv
  BY InitOneAttempt, NextOneAttempt, BookInvariance, PipelineIInv, PipelineEvidence, PTL
     DEF PipelineSpec


-----------------------------------------------------------------------------
(***************************************************************************)
(* What a succeeded scope can be relied on for.                            *)
(***************************************************************************)
\* Whatever value an attempt has processed is believed as of its retrieval.
AuthorityInv ==
    \A w \in Writers : phase[w] \in {"records", "succeeded"} /\ ~ContradictsItself(w) =>
        \A k \in Keys : \A i \in ValuesOf(w, k) : i < next[w] =>
            \E l \in lineage[k] :
                l.run = w /\ Believed(k, l.at) = body[w][i].fingerprint

\* The record an attempt has just persisted.
LEMMA PersistFacts ==
    ASSUME Typed, NEW w \in Writers, PersistRecord(w)
    PROVE  /\ Commits(w, txn[w].key) /\ txn[w].key \in Keys
           /\ response[w] # Null /\ response[w] \in Instants
           /\ next[w] \in ValuesOf(w, txn[w].key)
           /\ body[w][next[w]].fingerprint = txn[w].fingerprint
<1>1. Insert(w) \/ Unchanged(w) \/ Revise(w)
  BY DEF PersistRecord
<1>2. InTransaction(w)
  BY <1>1 DEF Insert, Unchanged, Revise
<1>3. Commits(w, txn[w].key)
  BY <1>1, WriterCommits DEF Typed
<1>4. response[w] # Null /\ response[w] \in Instants /\ txn[w].key \in Keys
  BY <1>2, TransactionFacts DEF Typed, IInv, TxnInv
<1>5. /\ next[w] \in ValuesOf(w, txn[w].key)
      /\ body[w][next[w]].fingerprint = txn[w].fingerprint
  BY <1>2, DueRecord DEF ValuesOf, RecordOf
<1> QED
  BY <1>3, <1>4, <1>5

\* What has been processed after a step that persists nothing of an observation
\* had been processed before it.
LEMMA ProcessedBefore ==
    ASSUME Typed, NEW w \in Writers, Attempt(w), phase[w] = "records",
           NEW k \in Keys, NEW i \in ValuesOf(w, k), i < next'[w],
           ~(PersistRecord(w) /\ Commits(w, k))
    PROVE  i < next[w]
<1>1. Moves(w)
  BY AttemptFacts
<1>2. CASE next'[w] # next[w]
  <2>1. next'[w] = next[w] + 1 /\ (RecordOf(w).kind = "value" => PersistRecord(w))
    BY <1>1, <1>2 DEF Moves
  <2>2. i # next[w]
    <3> SUFFICES ASSUME i = next[w] PROVE FALSE
      OBVIOUS
    <3>1. RecordOf(w).kind = "value" /\ RecordOf(w).key = k
      BY DEF ValuesOf, RecordOf
    <3>2. PersistRecord(w)
      BY <2>1, <3>1
    <3>3. InTransaction(w)
      BY <3>2 DEF PersistRecord, Insert, Unchanged, Revise
    <3>4. txn[w].key = k
      BY <3>1, <3>3, DueRecord
    <3> QED
      BY <3>2, <3>4, PersistFacts
  <2>3. i \in Nat /\ next[w] \in Nat
    <3>1. body[w] \in Bodies
      BY DEF Typed, EvidenceInv, ParsedInv
    <3> QED
      BY <3>1, ResponseIsSequence, TypedFacts DEF ValuesOf
  <2>4. i < next[w] + 1
    BY <2>1
  <2> QED
    BY ONLY <2>2, <2>3, <2>4
<1> QED
  BY <1>2

\* What an attempt has seen keeps being believed while a later one commits.
LEMMA EarlierAuthorityKept ==
    ASSUME Typed, IInv', OneAttemptInv, [Next]_vars, NEW w \in Writers, Attempt(w),
           NEW k \in Keys, NEW l \in lineage[k], l.run # w
    PROVE  l \in lineage'[k] /\ Believed(k, l.at)' = Believed(k, l.at)
<1>1. l.at \in Instants
  BY LineageTypes
<1>2. CASE lineage'[k] = lineage[k] /\ versions'[k] = versions[k]
  <2>1. \A t : Believed(k, t)' = Believed(k, t)
    BY <1>2, BeliefsUntouched
  <2>2. l \in lineage'[k]
    BY <1>2
  <2> QED
    BY <2>1, <2>2
<1>3. CASE Commits(w, k) /\ PersistRecord(w)
  <2>1. response[w] # Null /\ response[w] \in Instants
    BY <1>3, PersistFacts
  <2>2. response[w] > l.at
    BY <1>1, <2>1 DEF OneAttemptInv, ResponseInv, Instants
  <2>3. \A t \in Instants : response[w] > t => Believed(k, t)' = Believed(k, t)
    BY <1>3, EarlierBeliefsKept DEF Typed
  <2>4. l \in lineage'[k]
    BY <1>3, CommitSighting DEF Typed
  <2> QED
    BY <1>1, <2>2, <2>3, <2>4
<1> QED
  BY <1>2, <1>3, LineageStep

\* From the commit of a record on, its content is believed as of the response.
LEMMA OwnAuthority ==
    ASSUME Typed, IInv', [Next]_vars, NEW w \in Writers, PersistRecord(w),
           NEW k \in Keys, Commits(w, k)
    PROVE  /\ \E l \in lineage'[k] : l.run = w /\ l.at = response[w]
           /\ Believed(k, response[w])' = body[w][next[w]].fingerprint
           /\ next[w] \in ValuesOf(w, k)
<1>1. txn[w].key = k
  BY DEF Commits
<1>2. response[w] \in Instants /\ next[w] \in ValuesOf(w, k)
  BY <1>1, PersistFacts
<1>3. \A t \in Instants : ~(response[w] > t) => Believed(k, t)' = txn[w].fingerprint
  BY LaterBeliefsLearnt DEF Typed
<1>4. UNCHANGED response
  <2>1. \E rows, n : Commit(w, rows, n)
    BY DEF PersistRecord, Insert, Unchanged, Revise
  <2> QED
    BY <2>1 DEF Commit
<1>5. ~(response[w] > response[w])
  BY <1>2 DEF Instants
<1>6. Believed(k, response[w])' = txn[w].fingerprint
  BY <1>2, <1>3, <1>4, <1>5 DEF Believed, KnownAt
<1>7. \E l \in lineage'[k] : l.run = w /\ l.at = response[w]
  BY CommitSighting DEF Typed
<1> QED
  BY <1>2, <1>6, <1>7, PersistFacts

LEMMA AuthorityStep ==
    ASSUME Typed, IInv', ParsedInv', BookInv, OneAttemptInv, AuthorityInv, [Next]_vars,
           NEW w \in Writers, Attempt(w)
    PROVE  AuthorityInv'
<1> SUFFICES ASSUME NEW x \in Writers, phase'[x] \in {"records", "succeeded"},
                    ~ContradictsItself(x)', NEW k \in Keys, NEW i \in ValuesOf(x, k)',
                    i < next'[x]
             PROVE  \E l \in lineage'[k] :
                        l.run = x /\ Believed(k, l.at)' = body'[x][i].fingerprint
  BY DEF AuthorityInv
<1> USE TypedFacts
<1>1. OthersKept(w) /\ Moves(w)
  BY AttemptFacts
<1>2. CASE x # w
  <2>1. phase'[x] = phase[x] /\ body'[x] = body[x] /\ next'[x] = next[x]
    BY <1>1, <1>2 DEF OthersKept
  <2>2. i \in ValuesOf(x, k) /\ ~ContradictsItself(x)
    BY <2>1 DEF ValuesOf, ContradictsItself
  <2>3. PICK l \in lineage[k] : l.run = x /\ Believed(k, l.at) = body[x][i].fingerprint
    BY <2>1, <2>2 DEF AuthorityInv
  <2> QED
    BY <1>2, <2>1, <2>3, EarlierAuthorityKept
<1>3. CASE x = w /\ phase[w] = "stored"
  <2>1. next'[w] = 1 /\ body'[w] = body[w] /\ phase'[w] = "records"
    BY <1>1, <1>3 DEF Moves, BookInv, Book
  <2>2. body'[w] \in Bodies
    BY <2>1 DEF ParsedInv
  <2>3. i \in 1..Len(body[w])
    BY <1>3, <2>1, <2>2, ResponseIsSequence DEF ValuesOf
  <2> QED
    BY <1>3, <2>1, <2>3
<1>4. CASE x = w /\ phase[w] = "records"
  <2>1. body'[w] = body[w]
    BY <1>1, <1>4 DEF Moves
  <2>2. i \in ValuesOf(w, k) /\ ~ContradictsItself(w)
    BY <1>4, <2>1 DEF ValuesOf, ContradictsItself
  <2>3. CASE PersistRecord(w) /\ Commits(w, k)
    <3>1. PICK l \in lineage'[k] : l.run = w /\ l.at = response[w]
      BY <2>3, OwnAuthority
    <3>2. UNCHANGED response
      <4>1. \E rows, n : Commit(w, rows, n)
        BY <2>3 DEF PersistRecord, Insert, Unchanged, Revise
      <4> QED
        BY <4>1 DEF Commit
    <3>3. /\ Believed(k, response[w])' = body[w][next[w]].fingerprint
          /\ next[w] \in ValuesOf(w, k)
      BY <2>3, OwnAuthority
    <3>4. body[w][next[w]].fingerprint = body[w][i].fingerprint
      BY <2>2, <3>3 DEF ContradictsItself
    <3>5. Believed(k, l.at)' = body'[w][i].fingerprint
      BY <2>1, <3>1, <3>2, <3>3, <3>4 DEF Believed, KnownAt
    <3> QED
      BY <1>4, <3>1, <3>5
  <2>4. CASE ~(PersistRecord(w) /\ Commits(w, k))
    <3>1. lineage'[k] = lineage[k] /\ versions'[k] = versions[k]
      BY <2>4, LineageStep
    <3>2. i < next[w]
      BY <1>4, <2>2, <2>4, ProcessedBefore
    <3>3. PICK l \in lineage[k] : l.run = w /\ Believed(k, l.at) = body[w][i].fingerprint
      BY <1>4, <2>2, <3>2 DEF AuthorityInv
    <3>4. \A t : Believed(k, t)' = Believed(k, t)
      BY <3>1, BeliefsUntouched
    <3> QED
      BY <1>4, <2>1, <3>1, <3>3, <3>4
  <2> QED
    BY <2>3, <2>4
<1>5. x = w => phase[w] \in {"stored", "records"}
  BY <1>1 DEF Moves
<1> QED
  BY <1>2, <1>3, <1>4, <1>5

\* At every record, what the attempt has processed is believed as of its
\* retrieval, also while later attempts write.
THEOREM AuthorityInvariance == PipelineSpec => []AuthorityInv
<1>1. PipelineInit => AuthorityInv
  BY DEF PipelineInit, AuthorityInv
<1>2. ASSUME AuthorityInv, OneAttemptInv, BookInv, IInv, IInv', EvidenceInv, EvidenceInv',
             [PipelineNext]_allVars
      PROVE  AuthorityInv'
  <2>0. Typed /\ [Next]_vars /\ ParsedInv'
    BY <1>2, PipelineStepRefines DEF Typed, BookInv, EvidenceInv
  <2>1. CASE UNCHANGED <<versions, lineage, phase, body, next>>
    BY <1>2, <2>1 DEF AuthorityInv, ContradictsItself, ValuesOf, Believed, KnownAt
  <2>2. CASE UNCHANGED allVars \/ (Tick /\ UNCHANGED pipelineVars)
    BY <2>1, <2>2 DEF allVars, vars, pipelineVars, Tick
  <2>3. ASSUME NEW w \in Writers, Attempt(w) PROVE AuthorityInv'
    BY <1>2, <2>0, <2>3, AuthorityStep
  <2> QED
    BY <1>2, <2>2, <2>3 DEF PipelineNext
<1> QED
  BY <1>1, <1>2, BookInvariance, OneAttemptAtATime, PipelineIInv, PipelineEvidence, PTL
     DEF PipelineSpec

\* What a succeeded scope fetched is the as-of answer for the instant of its
\* retrieval, and remains so: no attempt before or after it, failed, dead or
\* succeeded, changes that.
THEOREM SucceededIsBelieved == PipelineSpec => []SucceededScopeIsAuthoritative
<1>1. ASSUME AuthorityInv, BookInv, Typed, NEW w \in Writers, phase[w] = "succeeded",
             ~ContradictsItself(w), NEW k \in Keys, NEW i \in ValuesOf(w, k)
      PROVE  \E l \in lineage[k] :
                l.run = w /\ {v.fingerprint : v \in KnownAt(k, l.at)} = {body[w][i].fingerprint}
  <2>1. body[w] \in Bodies /\ next[w] = Len(body[w]) + 1
    BY <1>1 DEF BookInv, Book
  <2>2. /\ body[w] \in Seq(Record) /\ Len(body[w]) \in Nat
        /\ DOMAIN body[w] = 1..Len(body[w])
    BY <1>1, <2>1, ResponseIsSequence
  <2>3. i < next[w] /\ body[w][i] \in Record
    BY <2>1, <2>2 DEF ValuesOf
  <2>4. PICK l \in lineage[k] : l.run = w /\ Believed(k, l.at) = body[w][i].fingerprint
    BY <1>1, <2>3 DEF AuthorityInv
  <2>5. Believed(k, l.at) # Unknown
    BY <2>3, <2>4, ConstantsAssumption DEF Record
  <2>6. PICK v : KnownAt(k, l.at) = {v}
    BY <1>1, <2>5, LineageTypes, KnownIsUnique DEF Believed, Typed
  <2>7. v.fingerprint = body[w][i].fingerprint
    BY <2>4, <2>6, BelievedIs
  <2> QED
    BY <2>4, <2>6, <2>7
<1>2. AuthorityInv /\ BookInv /\ IInv /\ EvidenceInv => SucceededScopeIsAuthoritative
  BY <1>1 DEF SucceededScopeIsAuthoritative, Typed, BookInv
<1> QED
  BY <1>2, AuthorityInvariance, BookInvariance, PipelineIInv, PipelineEvidence, PTL

-----------------------------------------------------------------------------
(***************************************************************************)
(* Retrying unchanged data.                                                *)
(***************************************************************************)
\* Whoever had a response after attempt p had the same one.
Undisturbed(p) ==
    \A x \in Writers : x > p => phase[x] \in {"new", "fetching"} \/ body[x] = body[p]

\* Until a different response arrives, every value an attempt has processed is
\* the content of the open version of its observation.
StillCurrentInv ==
    \A p \in Writers :
        phase[p] \in {"records", "succeeded"} /\ ~ContradictsItself(p) /\ Undisturbed(p) =>
            \A k \in Keys : \A i \in ValuesOf(p, k) : i < next[p] =>
                \E v \in versions[k] : Open(v) /\ v.fingerprint = body[p][i].fingerprint

\* The open version after a commit has the content that was committed.
LEMMA CommitOpens ==
    ASSUME IInv, NEW w \in Writers, NEW k \in Keys, Commits(w, k)
    PROVE  \E u \in versions'[k] : Open(u) /\ u.fingerprint = txn[w].fingerprint
<1>1. \A n : /\ Open(NewVersion(n, txn[w].fingerprint, response[w]))
             /\ NewVersion(n, txn[w].fingerprint, response[w]).fingerprint = txn[w].fingerprint
  BY DEF Open, NewVersion
<1>2. CASE FirstSeen(w, k)
  BY <1>1, <1>2 DEF FirstSeen
<1>3. CASE Revised(w, k)
  BY <1>1, <1>3 DEF Revised
<1>4. CASE txn[w].base # Null /\ Repeated(w, k)
  <2>1. Base(w) \in Version /\ Open(Base(w))
    BY <1>4, BaseFacts DEF Commits
  <2> DEFINE u == SeenAgain(Base(w), response[w])
  <2>2. Open(u) /\ u.fingerprint = Base(w).fingerprint
    BY <2>1 DEF SeenAgain, Open, Version
  <2>3. u \in versions'[k] /\ txn[w].fingerprint = Base(w).fingerprint
    BY <1>4 DEF Repeated
  <2> QED
    BY <2>2, <2>3
<1> QED
  BY <1>2, <1>3, <1>4 DEF Commits

\* The open version after an attempt has persisted a record of a response that
\* does not contradict itself, whichever of its records one asks for.
LEMMA PersistOpens ==
    ASSUME Typed, NEW w \in Writers, PersistRecord(w), ~ContradictsItself(w),
           NEW k \in Keys, Commits(w, k), NEW i \in ValuesOf(w, k)
    PROVE  \E v \in versions'[k] : Open(v) /\ v.fingerprint = body[w][i].fingerprint
<1>1. txn[w].key = k
  BY DEF Commits
<1>2. next[w] \in ValuesOf(w, k) /\ body[w][next[w]].fingerprint = txn[w].fingerprint
  BY <1>1, PersistFacts
<1>3. body[w][i].fingerprint = txn[w].fingerprint
  BY <1>2 DEF ContradictsItself
<1> QED
  BY <1>3, CommitOpens DEF Typed

LEMMA StillCurrentStep ==
    ASSUME Typed, ParsedInv', BookInv, OneAttemptInv, StillCurrentInv, [Next]_vars,
           NEW w \in Writers, Attempt(w)
    PROVE  StillCurrentInv'
<1> SUFFICES ASSUME NEW p \in Writers, phase'[p] \in {"records", "succeeded"},
                    ~ContradictsItself(p)', Undisturbed(p)',
                    NEW k \in Keys, NEW i \in ValuesOf(p, k)', i < next'[p]
             PROVE  \E v \in versions'[k] : Open(v) /\ v.fingerprint = body'[p][i].fingerprint
  BY DEF StillCurrentInv, Open
<1> USE TypedFacts
<1>1. OthersKept(w) /\ Moves(w)
  BY AttemptFacts
<1>2. phase[w] \in {"new", "fetching"} \/ body'[w] = body[w]
  BY <1>1 DEF Moves
<1>3. phase'[w] \in {"new", "fetching"} => phase[w] = "new"
  BY <1>1 DEF Moves, Active
<1>4. CASE p # w
  <2>1. phase'[p] = phase[p] /\ body'[p] = body[p] /\ next'[p] = next[p]
    BY <1>1, <1>4 DEF OthersKept
  <2>2. i \in ValuesOf(p, k) /\ ~ContradictsItself(p)
    BY <2>1 DEF ValuesOf, ContradictsItself
  <2>3. Undisturbed(p)
    <3> SUFFICES ASSUME NEW x \in Writers, x > p, phase[x] \notin {"new", "fetching"}
                 PROVE  body[x] = body[p]
      BY DEF Undisturbed
    <3>1. phase'[x] \notin {"new", "fetching"} /\ body'[x] = body[x]
      BY <1>1, <1>2, <1>3 DEF OthersKept
    <3> QED
      BY <2>1, <3>1 DEF Undisturbed
  <2>4. CASE versions'[k] = versions[k]
    BY <2>1, <2>2, <2>3, <2>4 DEF StillCurrentInv
  <2>5. CASE Commits(w, k) /\ PersistRecord(w) /\ phase[w] = "records"
    <3>1. w > p
      <4>1. ~(w < p)
        BY <2>1, <2>5 DEF OneAttemptInv, SoloInv, Ended
      <4> QED
        BY <1>4, <4>1, PipelineAssumption
    <3>2. body[w] = body[p]
      BY <2>3, <2>5, <3>1 DEF Undisturbed
    <3>3. i \in ValuesOf(w, k) /\ ~ContradictsItself(w)
      BY <2>2, <3>2 DEF ValuesOf, ContradictsItself
    <3> QED
      BY <2>1, <2>5, <3>2, <3>3, PersistOpens
  <2> QED
    BY <2>4, <2>5, LineageStep
<1>5. CASE p = w /\ phase[w] = "stored"
  <2>1. next'[w] = 1 /\ body'[w] = body[w] /\ phase'[w] = "records"
    BY <1>1, <1>5 DEF Moves, BookInv, Book
  <2>2. body'[w] \in Bodies
    BY <2>1 DEF ParsedInv
  <2>3. i \in 1..Len(body[w])
    BY <1>5, <2>1, <2>2, ResponseIsSequence DEF ValuesOf
  <2> QED
    BY <1>5, <2>1, <2>3
<1>6. CASE p = w /\ phase[w] = "records"
  <2>1. body'[w] = body[w]
    BY <1>2, <1>6
  <2>2. i \in ValuesOf(w, k) /\ ~ContradictsItself(w)
    BY <1>6, <2>1 DEF ValuesOf, ContradictsItself
  <2>3. Undisturbed(w)
    <3> SUFFICES ASSUME NEW x \in Writers, x > w, phase[x] \notin {"new", "fetching"}
                 PROVE  body[x] = body[w]
      BY DEF Undisturbed
    <3>1. x # w
      BY PipelineAssumption
    <3>2. phase'[x] = phase[x] /\ body'[x] = body[x]
      BY <1>1, <3>1 DEF OthersKept
    <3> QED
      BY <1>6, <2>1, <3>2 DEF Undisturbed
  <2>4. CASE PersistRecord(w) /\ Commits(w, k)
    BY <1>6, <2>1, <2>2, <2>4, PersistOpens
  <2>5. CASE ~(PersistRecord(w) /\ Commits(w, k))
    <3>1. versions'[k] = versions[k]
      BY <2>5, LineageStep
    <3>2. i < next[w]
      BY <1>6, <2>2, <2>5, ProcessedBefore
    <3> QED
      BY <1>6, <2>1, <2>2, <2>3, <3>1, <3>2 DEF StillCurrentInv
  <2> QED
    BY <2>4, <2>5
<1>7. p = w => phase[w] \in {"stored", "records"}
  BY <1>1 DEF Moves
<1> QED
  BY <1>4, <1>5, <1>6, <1>7

\* An attempt that repeats the response of a succeeded predecessor finds every
\* one of its records current.
LEMMA RepetitionIsUnchanged ==
    ASSUME Typed, BookInv, OneAttemptInv, StillCurrentInv,
           NEW w \in Writers, NEW p \in Writers, p = w - 1, phase[p] = "succeeded",
           body[w] = body[p], ~ContradictsItself(w),
           PersistRecord(w), phase[w] = "records"
    PROVE  UNCHANGED origin
<1> DEFINE k == txn[w].key
           i == next[w]
<1> USE TypedFacts
<1>1. p \in Nat /\ w \in Nat
  BY PipelineAssumption
<1>2. /\ i \in ValuesOf(w, k) /\ k \in Keys
      /\ body[w][i].fingerprint = txn[w].fingerprint
      /\ InTransaction(w)
  BY PersistFacts DEF Commits
<1>3. Undisturbed(p)
  <2> SUFFICES ASSUME NEW x \in Writers, x > p, phase[x] \notin {"new", "fetching"}
               PROVE  body[x] = body[p]
    BY DEF Undisturbed
  <2>1. x \in Nat
    BY PipelineAssumption
  <2>2. ~(w < x)
    BY DEF OneAttemptInv, SoloInv, Ended
  <2>3. x = w
    BY <1>1, <2>1, <2>2
  <2> QED
    BY <2>3
<1>4. i \in ValuesOf(p, k) /\ ~ContradictsItself(p)
  BY <1>2 DEF ValuesOf, ContradictsItself
<1>5. i < next[p]
  <2>1. body[p] \in Bodies /\ next[p] = Len(body[p]) + 1
    BY DEF BookInv, Book
  <2>2. i \in 1..Len(body[p]) /\ Len(body[p]) \in Nat
    BY <1>4, <2>1, ResponseIsSequence DEF ValuesOf
  <2> HIDE DEF i
  <2> QED
    BY <2>1, <2>2
<1>6. PICK v \in versions[k] : Open(v) /\ v.fingerprint = txn[w].fingerprint
  BY <1>2, <1>3, <1>4, <1>5 DEF StillCurrentInv
<1>7. v.number = current[k] /\ v.number # Null
  BY <1>2, <1>6 DEF Typed, IInv, RowsInv, TypeOK, Version, Null
<1>8. txn[w].base = current[k]
  BY <1>2, TransactionFacts DEF Typed, IInv
<1>9. Base(w) = v
  <2>1. Base(w) \in versions[k] /\ Base(w).number = current[k]
    BY <1>2, <1>7, <1>8, BaseFacts DEF Typed
  <2> QED
    BY <1>2, <1>7, <2>1 DEF Typed, IInv, RowsInv
<1>10. ~Insert(w) /\ ~Revise(w)
  BY <1>6, <1>7, <1>8, <1>9 DEF Insert, Revise
<1> QED
  BY <1>10 DEF PersistRecord

LEMMA RetryStep ==
    ASSUME Typed, BookInv, OneAttemptInv, StillCurrentInv, RetriesAddNoVersions,
           NEW x \in Writers, Attempt(x)
    PROVE  RetriesAddNoVersions'
<1> SUFFICES ASSUME NEW w \in Writers, w - 1 \in Writers, phase'[w - 1] = "succeeded",
                    phase'[w] # "new", body'[w] = body'[w - 1], ~ContradictsItself(w)'
             PROVE  \A o \in origin' : o[1] # w
  BY DEF RetriesAddNoVersions
<1> DEFINE p == w - 1
<1> USE TypedFacts
<1>1. OthersKept(x) /\ Moves(x) /\ Writes(x)
  BY AttemptFacts
<1>2. p \in Nat /\ w \in Nat /\ p < w /\ p # w /\ p \in Writers
  BY PipelineAssumption
<1>3. SUFFICES OriginOf(w)' = {}
  BY DEF OriginOf
<1> HIDE DEF p
<1>4. phase'[p] = "succeeded" /\ body'[w] = body'[p]
  BY DEF p
<1>5. ASSUME phase[p] = "succeeded", phase[w] # "new", body[w] = body[p], body'[w] = body[w]
      PROVE  OriginOf(w) = {} /\ ~ContradictsItself(w)
  <2>1. ~ContradictsItself(w)
    BY <1>5 DEF ContradictsItself, ValuesOf
  <2> QED
    BY <1>2, <1>5, <2>1 DEF RetriesAddNoVersions, OriginOf, p
<1>6. CASE x = p
  <2>1. phase[w] # "new"
    BY <1>1, <1>2, <1>6 DEF OthersKept
  <2>2. Ended(p)
    BY <1>2, <2>1 DEF OneAttemptInv, SoloInv
  <2> QED
    BY <1>1, <1>6, <2>2 DEF Moves, Ended, Active
<1>7. CASE x # p /\ x # w
  <2>1. /\ phase'[w] = phase[w] /\ body'[w] = body[w] /\ OriginOf(w)' = OriginOf(w)
        /\ phase'[p] = phase[p] /\ body'[p] = body[p]
    BY <1>1, <1>2, <1>7 DEF OthersKept
  <2> QED
    BY <1>4, <1>5, <2>1
<1>8. CASE x = w
  <2>1. phase'[p] = phase[p] /\ body'[p] = body[p]
    BY <1>1, <1>2, <1>8 DEF OthersKept
  <2>2. CASE phase[w] \in {"new", "fetching"}
    <3>1. OriginOf(w) = {}
      BY <2>2 DEF BookInv, Book
    <3>2. UNCHANGED origin
      BY <1>1, <1>8, <2>2 DEF Writes, StoreQuiet
    <3> QED
      BY <3>1, <3>2 DEF OriginOf
  <2>3. CASE phase[w] \notin {"new", "fetching"}
    <3>1. body'[w] = body[w] /\ body[w] = body[p] /\ phase[p] = "succeeded"
      BY <1>1, <1>4, <1>8, <2>1, <2>3 DEF Moves
    <3>2. OriginOf(w) = {} /\ ~ContradictsItself(w)
      BY <1>5, <2>3, <3>1
    <3>3. UNCHANGED origin
      BY <1>1, <1>2, <1>8, <3>1, <3>2, RepetitionIsUnchanged DEF Writes, StoreQuiet, p
    <3> QED
      BY <3>2, <3>3 DEF OriginOf
  <2> QED
    BY <2>2, <2>3
<1> QED
  BY <1>6, <1>7, <1>8

\* What an attempt has processed stays current until a different response is
\* processed, through failed and dead attempts.
THEOREM StillCurrentInvariance == PipelineSpec => []StillCurrentInv
<1>1. PipelineInit => StillCurrentInv
  BY DEF PipelineInit, StillCurrentInv
<1>2. ASSUME StillCurrentInv, OneAttemptInv, BookInv, IInv, EvidenceInv, EvidenceInv',
             [PipelineNext]_allVars
      PROVE  StillCurrentInv'
  <2>0. Typed /\ [Next]_vars /\ ParsedInv'
    BY <1>2, PipelineStepRefines DEF Typed, BookInv, EvidenceInv
  <2>1. CASE UNCHANGED <<versions, phase, body, next>>
    BY <1>2, <2>1 DEF StillCurrentInv, ContradictsItself, ValuesOf, Undisturbed
  <2>2. CASE UNCHANGED allVars \/ (Tick /\ UNCHANGED pipelineVars)
    BY <2>1, <2>2 DEF allVars, vars, pipelineVars, Tick
  <2>3. ASSUME NEW w \in Writers, Attempt(w) PROVE StillCurrentInv'
    BY <1>2, <2>0, <2>3, StillCurrentStep
  <2> QED
    BY <1>2, <2>2, <2>3 DEF PipelineNext
<1> QED
  BY <1>1, <1>2, BookInvariance, OneAttemptAtATime, PipelineIInv, PipelineEvidence, PTL
     DEF PipelineSpec

\* An attempt that is answered what a succeeded predecessor was answered
\* inserts and revises nothing, at whichever record it stops.
THEOREM RetriesReviseNothing == PipelineSpec => []RetriesAddNoVersions
<1>1. PipelineInit => RetriesAddNoVersions
  BY DEF PipelineInit, RetriesAddNoVersions
<1>2. ASSUME RetriesAddNoVersions, StillCurrentInv, OneAttemptInv, BookInv, IInv, EvidenceInv,
             [PipelineNext]_allVars
      PROVE  RetriesAddNoVersions'
  <2>0. Typed
    BY <1>2 DEF Typed, BookInv
  <2>1. CASE UNCHANGED <<origin, phase, body>>
    BY <1>2, <2>1 DEF RetriesAddNoVersions, ContradictsItself, ValuesOf
  <2>2. CASE UNCHANGED allVars \/ (Tick /\ UNCHANGED pipelineVars)
    BY <2>1, <2>2 DEF allVars, pipelineVars
  <2>3. ASSUME NEW x \in Writers, Attempt(x) PROVE RetriesAddNoVersions'
    BY <1>2, <2>0, <2>3, RetryStep
  <2> QED
    BY <1>2, <2>2, <2>3 DEF PipelineNext
<1> QED
  BY <1>1, <1>2, StillCurrentInvariance, OneAttemptAtATime, BookInvariance, PipelineIInv,
     PipelineEvidence, PTL DEF PipelineSpec

=============================================================================
