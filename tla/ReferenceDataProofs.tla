------------------------- MODULE ReferenceDataProofs -------------------------
(***************************************************************************)
(* Reference data stay usable and runs stay executable, for every set of   *)
(* configurations, processes and commands.                                 *)
(***************************************************************************)
EXTENDS ReferenceData, FiniteSetTheorems, TLAPS

\* What processes have loaded was accepted by the validation, and so was the
\* command of an open transaction, under the configuration of its process.
LoadedInv ==
    /\ file \in Configurations
    /\ \A p \in Processes :
        loaded[p] # NotLoaded => loaded[p] \in Configurations /\ Valid(loaded[p])
    /\ loaded \in [Processes -> Configurations \cup {NotLoaded}]
    /\ creating \in [Enqueuers -> Commands \cup {NoCommand}]
    /\ \A p \in Enqueuers : creating[p] # NoCommand =>
        loaded[p] # NotLoaded /\ Accepted(loaded[p], creating[p])

\* Every row has a state, so that it can be disabled.
RowsInv ==
    \A t \in Tables : \A k \in DOMAIN database[t] : "enabled" \in DOMAIN database[t][k]

LEMMA InitLoaded == Init => LoadedInv /\ RowsInv
<1> SUFFICES ASSUME Init PROVE LoadedInv /\ RowsInv
  OBVIOUS
<1>1. LoadedInv
  BY ReferenceAssumption DEF Init, LoadedInv, Processes
<1>2. ASSUME NEW t \in Tables PROVE database[t] = << >>
  BY DEF Init, Tables
<1>3. RowsInv
  BY <1>2 DEF RowsInv
<1> QED
  BY <1>1, <1>3

-----------------------------------------------------------------------------
(***************************************************************************)
(* Rows after a synchronization.                                           *)
(***************************************************************************)
\* Active rows are those of the entries that are enabled: whatever was active
\* before and is not configured has been disabled.
LEMMA ReconcileActive ==
    ASSUME NEW rows, NEW wanted,
           \A k \in DOMAIN rows : "enabled" \in DOMAIN rows[k]
    PROVE  /\ Active(Reconcile(rows, wanted)) = Enabled(wanted)
           /\ \A k \in DOMAIN wanted : Reconcile(rows, wanted)[k] = wanted[k]
           /\ DOMAIN Reconcile(rows, wanted) = DOMAIN rows \cup DOMAIN wanted
<1> DEFINE upserted == Upsert(rows, wanted)
<1>1. /\ DOMAIN upserted = DOMAIN rows \cup DOMAIN wanted
      /\ \A k \in DOMAIN wanted : upserted[k] = wanted[k]
      /\ \A k \in DOMAIN rows \ DOMAIN wanted : upserted[k] = rows[k]
  BY DEF Upsert
<1> HIDE DEF upserted
<1> DEFINE result == Disable(upserted, DOMAIN wanted)
<1>2. /\ DOMAIN result = DOMAIN upserted
      /\ \A k \in DOMAIN wanted : result[k] = wanted[k]
      /\ \A k \in DOMAIN rows \ DOMAIN wanted : result[k] = [rows[k] EXCEPT !.enabled = FALSE]
  BY <1>1 DEF Disable
<1>3. \A k \in DOMAIN rows \ DOMAIN wanted : result[k].enabled = FALSE
  BY <1>2
<1>4. result = Reconcile(rows, wanted)
  BY DEF Reconcile, upserted, result
<1> HIDE DEF result
<1> QED
  BY <1>1, <1>2, <1>3, <1>4 DEF Active, Enabled

\* A row of a series is one of its entries, and each entry has its row.
LEMMA SeriesRowsFacts ==
    ASSUME NEW items
    PROVE  /\ DOMAIN SeriesRows(items) = {SeriesKey(items[s]) : s \in DOMAIN items}
           /\ \A k \in DOMAIN SeriesRows(items) : \E s \in DOMAIN items :
                SeriesKey(items[s]) = k /\ SeriesRows(items)[k] = items[s]
<1>1. DOMAIN SeriesRows(items) = {SeriesKey(items[s]) : s \in DOMAIN items}
  BY DEF SeriesRows
<1>2. ASSUME NEW k \in DOMAIN SeriesRows(items)
      PROVE  \E s \in DOMAIN items : SeriesKey(items[s]) = k /\ SeriesRows(items)[k] = items[s]
  <2>1. \E s \in DOMAIN items : SeriesKey(items[s]) = k
    BY <1>1
  <2> DEFINE chosen == CHOOSE s \in DOMAIN items : SeriesKey(items[s]) = k
  <2>2. chosen \in DOMAIN items /\ SeriesKey(items[chosen]) = k
    BY <2>1
  <2>3. SeriesRows(items)[k] = items[chosen]
    BY <1>1 DEF SeriesRows
  <2> QED
    BY <2>2, <2>3
<1> QED
  BY <1>1, <1>2

LEMMA SynchronizedTables ==
    ASSUME NEW c, NEW t \in Tables
    PROVE  Synchronized(c)[t] = Reconcile(database[t], Wanted(c, t))
  BY DEF Synchronized, Tables

LEMMA WantedEntries ==
    ASSUME NEW c \in Configurations, NEW t \in Tables
    PROVE  \A k \in DOMAIN Wanted(c, t) : "enabled" \in DOMAIN Wanted(c, t)[k]
<1>1. \A k \in DOMAIN c[t] : "enabled" \in DOMAIN c[t][k]
  BY ConfigurationShape
<1>2. CASE t \in {"fx", "rates"}
  BY <1>1, <1>2, SeriesRowsFacts DEF Wanted
<1>3. CASE t \notin {"fx", "rates"}
  BY <1>1, <1>3 DEF Wanted
<1> QED
  BY <1>2, <1>3

LEMMA SynchronizeRows == LoadedInv /\ RowsInv /\ Synchronize => RowsInv'
<1> SUFFICES ASSUME LoadedInv, RowsInv, Synchronize, NEW t \in Tables,
                    NEW k \in DOMAIN database'[t]
             PROVE  "enabled" \in DOMAIN database'[t][k]
  BY DEF RowsInv
<1> DEFINE rows == database[t]
           wanted == Wanted(file, t)
<1>1. database'[t] = Disable(Upsert(rows, wanted), DOMAIN wanted)
  BY SynchronizedTables DEF Synchronize, Reconcile
<1>2. \A j \in DOMAIN rows : "enabled" \in DOMAIN rows[j]
  BY DEF RowsInv
<1>3. \A j \in DOMAIN wanted : "enabled" \in DOMAIN wanted[j]
  BY WantedEntries DEF LoadedInv
<1> HIDE DEF rows, wanted
<1> DEFINE upserted == Upsert(rows, wanted)
<1>4. \A j \in DOMAIN upserted : "enabled" \in DOMAIN upserted[j]
  BY <1>2, <1>3 DEF Upsert
<1> HIDE DEF upserted
<1>5. \A j \in DOMAIN Disable(upserted, DOMAIN wanted) :
        "enabled" \in DOMAIN Disable(upserted, DOMAIN wanted)[j]
  BY <1>4 DEF Disable
<1> QED
  BY <1>1, <1>5 DEF upserted

-----------------------------------------------------------------------------
LEMMA NextLoaded == LoadedInv /\ RowsInv /\ [Next]_vars => LoadedInv' /\ RowsInv'
<1> SUFFICES ASSUME LoadedInv, RowsInv, [Next]_vars PROVE LoadedInv' /\ RowsInv'
  OBVIOUS
<1> USE ReferenceAssumption
<1>1. ASSUME NEW c \in Configurations, Edit(c) PROVE LoadedInv' /\ RowsInv'
  BY <1>1 DEF Edit, LoadedInv, RowsInv
<1>2. ASSUME NEW p \in Processes, Start(p) PROVE LoadedInv' /\ RowsInv'
  <2>1. \A e \in Enqueuers : creating[e] # NoCommand => e # p
    BY <1>2 DEF Start, LoadedInv, Processes
  <2>2. RowsInv'
    BY <1>2 DEF Start, RowsInv
  <2>3. LoadedInv'
    BY <1>2, <2>1 DEF Start, LoadedInv, Processes
  <2> QED
    BY <2>2, <2>3
<1>3. ASSUME NEW p \in Processes, Stop(p) PROVE LoadedInv' /\ RowsInv'
  BY <1>3 DEF Stop, LoadedInv, RowsInv, Processes
<1>4. CASE Synchronize
  BY <1>4, SynchronizeRows DEF Synchronize, LoadedInv
<1>5. ASSUME NEW p \in Enqueuers, CommitRun(p) PROVE LoadedInv' /\ RowsInv'
  BY <1>5 DEF CommitRun, LoadedInv, RowsInv
<1>6. ASSUME NEW p \in Enqueuers, NEW m \in Commands, CheckCommand(p, m)
      PROVE  LoadedInv' /\ RowsInv'
  BY <1>6 DEF CheckCommand, LoadedInv, RowsInv
<1>7. ASSUME NEW w \in Workers, NEW r \in DOMAIN runs, NEW k \in DOMAIN runs[r].scopes,
             FetchScope(w, r, k) \/ FetchFails(w, r, k) \/ BindingFails(w, r, k)
      PROVE  LoadedInv' /\ RowsInv'
  BY <1>7 DEF FetchScope, FetchFails, BindingFails, EndScope, LoadedInv, RowsInv
<1>8. CASE UNCHANGED vars
  BY <1>8 DEF vars, LoadedInv, RowsInv
<1> QED
  BY <1>1, <1>2, <1>3, <1>4, <1>5, <1>6, <1>7, <1>8 DEF Next

\* Processes only work with configurations that were validated, and rows have
\* a state, whatever is edited and synchronized.
THEOREM LoadedInvariance == Spec => [](LoadedInv /\ RowsInv)
  BY InitLoaded, NextLoaded, PTL DEF Spec

-----------------------------------------------------------------------------
(***************************************************************************)
(* Validation and synchronization.                                         *)
(***************************************************************************)
\* Whatever is in the database, each reference of an accepted file is found and
\* no row is inserted twice.
LEMMA ValidResolves ==
    ASSUME NEW c, Valid(c)
    PROVE  ~SynchronizeRaises(c)
<1> USE DEF Valid
<1>1. \A t : DOMAIN c[t] \subseteq Known(c, t)
  BY DEF Known
<1>2. \A s \in DOMAIN c.pairs : {c.pairs[s].base, c.pairs[s].quote} \subseteq Known(c, "currencies")
  BY <1>1 DEF ValidPairs
<1>3. \A x \in c.relationships :
        x.economy \in Known(c, "economies") /\ x.currency \in Known(c, "currencies")
  BY <1>1 DEF ValidRelationships
<1>4. \A s \in DOMAIN c.fx :
        c.fx[s].dataset \in Known(c, "datasets") /\ c.fx[s].pair \in Known(c, "pairs")
  BY <1>1 DEF ValidFx
<1>5. \A s \in DOMAIN c.rates :
        /\ c.rates[s].dataset \in Known(c, "datasets")
        /\ c.rates[s].economy \in Known(c, "economies")
        /\ c.rates[s].currency \in Known(c, "currencies")
  BY <1>1 DEF ValidRates
<1>6. \A t \in {"fx", "rates"} : \A s, u \in DOMAIN c[t] :
        SeriesKey(c[t][s]) = SeriesKey(c[t][u]) => s = u
  BY DEF ValidFx, ValidRates, DistinctKeys
<1> QED
  BY <1>2, <1>3, <1>4, <1>5, <1>6 DEF SynchronizeRaises

\* Validation refuses whatever synchronization could not resolve.
THEOREM ValidationSuffices == Spec => []ValidatedSynchronizes
<1>1. ValidatedSynchronizes
  BY ValidResolves DEF ValidatedSynchronizes
<1> QED
  BY <1>1, PTL

\* After a synchronization the active rows of a table are the enabled entries.
LEMMA SynchronizeActive ==
    ASSUME RowsInv, Synchronize, NEW t \in Tables
    PROVE  /\ Active(database'[t]) = Enabled(Wanted(file, t))
           /\ \A k \in DOMAIN Wanted(file, t) : database'[t][k] = Wanted(file, t)[k]
<1> DEFINE rows == database[t]
           wanted == Wanted(file, t)
<1>1. database'[t] = Reconcile(rows, wanted)
  BY SynchronizedTables DEF Synchronize
<1>2. \A k \in DOMAIN rows : "enabled" \in DOMAIN rows[k]
  BY DEF RowsInv
<1> HIDE DEF rows, wanted
<1>3. Active(Reconcile(rows, wanted)) = Enabled(wanted)
  BY <1>2, ReconcileActive
<1>4. \A k \in DOMAIN wanted : Reconcile(rows, wanted)[k] = wanted[k]
  BY <1>2, ReconcileActive
<1> QED
  BY <1>1, <1>3, <1>4 DEF wanted

LEMMA EnabledSeries ==
    ASSUME NEW c, NEW t \in {"fx", "rates"}, NEW k \in Enabled(Wanted(c, t))
    PROVE  \E s \in DOMAIN c[t] :
                SeriesKey(c[t][s]) = k /\ Wanted(c, t)[k] = c[t][s] /\ c[t][s].enabled
  BY SeriesRowsFacts DEF Wanted, Enabled

LEMMA SynchronizeUsable == RowsInv /\ Synchronize => ActiveSeriesUsable'
<1> SUFFICES ASSUME RowsInv, Synchronize PROVE ActiveSeriesUsable'
  OBVIOUS
<1>1. /\ Active(database'["datasets"]) = Enabled(file.datasets)
      /\ Active(database'["pairs"]) = Enabled(file.pairs)
      /\ Active(database'["economies"]) = Enabled(file.economies)
      /\ Active(database'["currencies"]) = Enabled(file.currencies)
  BY SynchronizeActive DEF Wanted, Tables
<1>2. file.relationships \subseteq database'["relationships"]
  BY DEF Synchronize, Synchronized, ReconcileRelationships
<1>3. ASSUME NEW k \in Active(database'["fx"])
      PROVE  /\ k[1] \in Active(database'["datasets"])
             /\ database'["fx"][k].pair \in Active(database'["pairs"])
  <2>1. k \in Enabled(Wanted(file, "fx")) /\ database'["fx"][k] = Wanted(file, "fx")[k]
    BY <1>3, SynchronizeActive DEF Tables, Enabled
  <2>2. PICK s \in DOMAIN file.fx :
          SeriesKey(file.fx[s]) = k /\ Wanted(file, "fx")[k] = file.fx[s] /\ file.fx[s].enabled
    BY <2>1, EnabledSeries
  <2>3. k[1] = file.fx[s].dataset
    BY <2>2 DEF SeriesKey
  <2>4. file.fx[s].dataset \in Enabled(file.datasets) /\ file.fx[s].pair \in Enabled(file.pairs)
    BY <2>2 DEF Synchronize, Valid, ValidFx, Enabled
  <2> QED
    BY <1>1, <2>1, <2>2, <2>3, <2>4
<1>4. ASSUME NEW k \in Active(database'["rates"])
      PROVE  /\ k[1] \in Active(database'["datasets"])
             /\ database'["rates"][k].economy \in Active(database'["economies"])
             /\ database'["rates"][k].currency \in Active(database'["currencies"])
             /\ \E x \in database'["relationships"] :
                  /\ x.economy = database'["rates"][k].economy
                  /\ x.currency = database'["rates"][k].currency
  <2>1. k \in Enabled(Wanted(file, "rates")) /\ database'["rates"][k] = Wanted(file, "rates")[k]
    BY <1>4, SynchronizeActive DEF Tables, Enabled
  <2>2. PICK s \in DOMAIN file.rates :
          /\ SeriesKey(file.rates[s]) = k
          /\ Wanted(file, "rates")[k] = file.rates[s]
          /\ file.rates[s].enabled
    BY <2>1, EnabledSeries
  <2>3. k[1] = file.rates[s].dataset
    BY <2>2 DEF SeriesKey
  <2>4. /\ file.rates[s].dataset \in Enabled(file.datasets)
        /\ file.rates[s].economy \in Enabled(file.economies)
        /\ file.rates[s].currency \in Enabled(file.currencies)
        /\ \E x \in file.relationships :
             x.economy = file.rates[s].economy /\ x.currency = file.rates[s].currency
    BY <2>2 DEF Synchronize, Valid, ValidRates, Enabled
  <2> QED
    BY <1>1, <1>2, <2>1, <2>2, <2>3, <2>4
<1> QED
  BY <1>3, <1>4 DEF ActiveSeriesUsable

LEMMA NextUsable == RowsInv /\ ActiveSeriesUsable /\ [Next]_vars => ActiveSeriesUsable'
<1> SUFFICES ASSUME RowsInv, ActiveSeriesUsable, [Next]_vars PROVE ActiveSeriesUsable'
  OBVIOUS
<1>1. CASE Synchronize
  BY <1>1, SynchronizeUsable
<1>2. CASE database' = database
  BY <1>2 DEF ActiveSeriesUsable, Active
<1>3. Synchronize \/ database' = database
  BY DEF Next, vars, Edit, Start, Stop, CommitRun, CheckCommand, FetchScope, FetchFails,
         BindingFails, EndScope
<1> QED
  BY <1>1, <1>2, <1>3

\* What an active series refers to is always in the database and active.
THEOREM SeriesStayUsable == Spec => []ActiveSeriesUsable
<1>1. Init => ActiveSeriesUsable
  BY DEF Init, ActiveSeriesUsable, Active, Tables
<1> QED
  BY <1>1, NextUsable, LoadedInvariance, PTL DEF Spec

-----------------------------------------------------------------------------
(***************************************************************************)
(* Readiness.                                                              *)
(***************************************************************************)
\* The active rows are the enabled entries of what was synchronized last.
SyncedInv ==
    synced # NotLoaded =>
        /\ synced \in Configurations
        /\ Valid(synced)
        /\ \A t \in Tables : Active(database[t]) = Enabled(Wanted(synced, t))

LEMMA NextSynced == LoadedInv /\ RowsInv /\ SyncedInv /\ [Next]_vars => SyncedInv'
<1> SUFFICES ASSUME LoadedInv, RowsInv, SyncedInv, [Next]_vars PROVE SyncedInv'
  OBVIOUS
<1>1. CASE Synchronize
  <2>1. \A t \in Tables : Active(database'[t]) = Enabled(Wanted(file, t))
    BY <1>1, SynchronizeActive
  <2> QED
    BY <1>1, <2>1 DEF Synchronize, SyncedInv, LoadedInv
<1>2. CASE UNCHANGED <<database, synced>>
  BY <1>2 DEF SyncedInv
<1>3. Synchronize \/ UNCHANGED <<database, synced>>
  BY DEF Next, vars, Edit, Start, Stop, CommitRun, CheckCommand, FetchScope, FetchFails,
         BindingFails, EndScope
<1> QED
  BY <1>1, <1>2, <1>3

LEMMA FiniteRows ==
    ASSUME NEW items, IsFiniteSet(DOMAIN items)
    PROVE  IsFiniteSet(Enabled(items)) /\ IsFiniteSet(Enabled(SeriesRows(items)))
<1> DEFINE rows == SeriesRows(items)
           entry == [s \in DOMAIN items |-> SeriesKey(items[s])]
<1>1. DOMAIN rows = {SeriesKey(items[s]) : s \in DOMAIN items}
  BY SeriesRowsFacts
<1> HIDE DEF rows
<1>2. entry \in [DOMAIN items -> DOMAIN rows]
  BY <1>1
<1>3. \A k \in DOMAIN rows : \E s \in DOMAIN items : entry[s] = k
  BY <1>1
<1>4. entry \in Surjection(DOMAIN items, DOMAIN rows)
  BY <1>2, <1>3 DEF Surjection
<1>5. IsFiniteSet(DOMAIN rows)
  BY <1>4, FS_Surjection
<1>6. IsFiniteSet(Enabled(rows)) /\ IsFiniteSet(Enabled(items))
  BY <1>5, FS_Subset DEF Enabled
<1> QED
  BY <1>6 DEF rows

LEMMA FiniteEntries ==
    ASSUME NEW c \in Configurations, NEW t \in Tables
    PROVE  IsFiniteSet(Enabled(c[t])) /\ IsFiniteSet(Enabled(Wanted(c, t)))
<1>1. IsFiniteSet(DOMAIN c[t])
  BY ConfigurationShape
<1>2. IsFiniteSet(Enabled(c[t])) /\ IsFiniteSet(Enabled(SeriesRows(c[t])))
  BY <1>1, FiniteRows
<1> QED
  BY <1>2 DEF Wanted

\* No two enabled series share a row.
LEMMA SeriesHaveRows ==
    ASSUME NEW items, IsFiniteSet(DOMAIN items), DistinctKeys(items)
    PROVE  Cardinality(Enabled(items)) <= Cardinality(Enabled(SeriesRows(items)))
<1> DEFINE rows == SeriesRows(items)
           key == [s \in Enabled(items) |-> SeriesKey(items[s])]
<1>1. DOMAIN rows = {SeriesKey(items[s]) : s \in DOMAIN items}
  BY SeriesRowsFacts
<1>2. ASSUME NEW s \in DOMAIN items
      PROVE  SeriesKey(items[s]) \in DOMAIN rows /\ rows[SeriesKey(items[s])] = items[s]
  <2> DEFINE k == SeriesKey(items[s])
  <2>1. k \in DOMAIN rows
    BY <1>1
  <2>2. PICK u \in DOMAIN items : SeriesKey(items[u]) = k /\ rows[k] = items[u]
    BY <2>1, SeriesRowsFacts
  <2>3. u = s
    BY <2>2 DEF DistinctKeys
  <2> QED
    BY <2>1, <2>2, <2>3
<1>3. IsFiniteSet(Enabled(rows))
  BY FiniteRows
<1> HIDE DEF rows
<1>4. key \in [Enabled(items) -> Enabled(rows)]
  BY <1>2 DEF Enabled
<1>5. \A s, u \in Enabled(items) : key[s] = key[u] => s = u
  BY DEF DistinctKeys, Enabled
<1>6. key \in Injection(Enabled(items), Enabled(rows))
  BY <1>4, <1>5 DEF Injection, IsInjective
<1>7. Cardinality(Enabled(items)) <= Cardinality(Enabled(rows))
  BY <1>3, <1>6, FS_Injection
<1> QED
  BY <1>7 DEF rows

LEMMA AsManyRows ==
    ASSUME NEW c \in Configurations, Valid(c), NEW t \in Tables
    PROVE  Cardinality(Enabled(c[t])) <= Cardinality(Enabled(Wanted(c, t)))
<1>1. Cardinality(Enabled(c[t])) \in Nat
  BY FiniteEntries, FS_CardinalityType
<1>2. CASE t \notin {"fx", "rates"}
  BY <1>1, <1>2 DEF Wanted
<1>3. CASE t \in {"fx", "rates"}
  <2>1. DistinctKeys(c[t])
    BY <1>3 DEF Valid, ValidFx, ValidRates
  <2>2. IsFiniteSet(DOMAIN c[t])
    BY ConfigurationShape
  <2> QED
    BY <1>3, <2>1, <2>2, SeriesHaveRows DEF Wanted
<1> QED
  BY <1>2, <1>3

\* A process that runs with the configuration synchronized last is ready.
THEOREM SynchronizedProcessIsReady == Spec => []SynchronizedIsReady
<1>1. Init => SyncedInv
  BY DEF Init, SyncedInv
<1>2. SyncedInv => SynchronizedIsReady
  <2> SUFFICES ASSUME SyncedInv, NEW p \in Processes, loaded[p] # NotLoaded, loaded[p] = synced,
                      NEW t \in Tables
               PROVE  Cardinality(Active(database[t])) >= Cardinality(Enabled(loaded[p][t]))
    BY DEF SynchronizedIsReady, Ready
  <2>1. synced \in Configurations /\ Valid(synced)
    BY DEF SyncedInv
  <2>2. Active(database[t]) = Enabled(Wanted(synced, t))
    BY DEF SyncedInv
  <2>3. Cardinality(Enabled(synced[t])) <= Cardinality(Enabled(Wanted(synced, t)))
    BY <2>1, AsManyRows
  <2>4. IsFiniteSet(Enabled(synced[t])) /\ IsFiniteSet(Enabled(Wanted(synced, t)))
    BY <2>1, FiniteEntries
  <2>5. Cardinality(Enabled(synced[t])) \in Nat /\ Cardinality(Enabled(Wanted(synced, t))) \in Nat
    BY <2>4, FS_CardinalityType
  <2> QED
    BY <2>2, <2>3, <2>5
<1> QED
  BY <1>1, <1>2, NextSynced, LoadedInvariance, PTL DEF Spec

-----------------------------------------------------------------------------
(***************************************************************************)
(* Requests.                                                               *)
(***************************************************************************)
\* A range within the limit is one window.
LEMMA OneWindow ==
    ASSUME NEW days \in Nat \ {0}, NEW max \in Int, days <= max
    PROVE  {w \in Windows(days, max) : 1 \in w} = {1..days}
<1>1. 1 + 0 * max = 1 /\ 1 \in 1..days /\ 0 \in 0..days
  OBVIOUS
<1>2. 1..Smaller(days, 1 + max - 1) = 1..days
  BY DEF Smaller
<1>3. 1..days \in Windows(days, max)
  BY <1>1, <1>2 DEF Windows
<1>4. ASSUME NEW w \in Windows(days, max), 1 \in w PROVE w = 1..days
  <2>1. PICK first \in 1..days : w = first..Smaller(days, first + max - 1)
    BY DEF Windows
  <2>2. first = 1
    BY <1>4, <2>1 DEF Smaller
  <2> QED
    BY <1>2, <2>1, <2>2
<1> QED
  BY <1>1, <1>3, <1>4

\* A series that is planned within the limit of c can be bound under c, and its
\* first request is for the whole range.
Suffices(c, k, days) == Bindable(c, k, days) /\ RequestedDays(c, k, days) = 1..days

LEMMA PlannedSuffices ==
    ASSUME NEW c \in Configurations, NEW m \in Commands, Accepted(c, m), NEW k \in Planned(c, m)
    PROVE  Suffices(c, k, m.days)
<1> DEFINE kind == KindOf(m.dataset)
<1>1. PICK s \in DOMAIN c[kind] : k = <<m.dataset, c[kind][s].symbol>>
  BY DEF Planned, Enabled
<1>2. /\ m.dataset \in DOMAIN c.datasets
      /\ m.days <= c.datasets[m.dataset].maxDays
  BY DEF Accepted, IngestionAllowed
<1>3. m.days \in Nat \ {0} /\ c.datasets[m.dataset].maxDays \in Int
  BY <1>2, ReferenceAssumption, ConfigurationShape
<1>4. Bindable(c, k, m.days)
  BY <1>1, <1>2 DEF Bindable
<1>5. RequestedDays(c, k, m.days) = 1..m.days
  <2> DEFINE max == c.datasets[m.dataset].maxDays
             windows == Windows(m.days, max)
  <2>1. {w \in windows : 1 \in w} = {1..m.days}
    BY <1>2, <1>3, OneWindow
  <2> HIDE DEF windows
  <2>2. (CHOOSE w \in windows : 1 \in w) = 1..m.days
    BY <2>1
  <2> QED
    BY <1>1, <2>2 DEF RequestedDays, windows
<1> QED
  BY <1>4, <1>5 DEF Suffices

Fields == {"config", "dataset", "days", "scopes"}

\* Each run records a configuration that suffices for each of its scopes, and
\* what a worker with that configuration did to a scope shows it.
RunSuffices(run) ==
    /\ Fields \subseteq DOMAIN run
    /\ run.config # NotLoaded
    /\ \A k \in DOMAIN run.scopes :
        /\ Suffices(run.config, k, run.days)
        /\ run.scopes[k].by = run.config =>
            /\ run.scopes[k].status # "unbound"
            /\ run.scopes[k].status = "succeeded" => run.scopes[k].fetched = 1..run.days

RunsInv ==
    /\ \E S : runs \in Seq(S)
    /\ \A r \in DOMAIN runs : RunSuffices(runs[r])

LEMMA InitRuns == Init => RunsInv
<1> SUFFICES ASSUME Init PROVE RunsInv
  OBVIOUS
<1>1. runs \in Seq({}) /\ DOMAIN runs = {}
  BY DEF Init
<1> QED
  BY <1>1 DEF RunsInv

LEMMA CommitRunFacts ==
    ASSUME LoadedInv, RunsInv, NEW p \in Enqueuers, CommitRun(p), runs' # runs
    PROVE  LET m == creating[p]
               run == [config |-> loaded[p], dataset |-> m.dataset, days |-> m.days,
                       scopes |-> [k \in Planned(loaded[p], m) |-> Unexecuted]]
           IN  /\ m \in Commands
               /\ Accepted(loaded[p], m)
               /\ loaded[p] \in Configurations
               /\ runs' = Append(runs, run)
  BY DEF CommitRun, LoadedInv, Processes

LEMMA EndScopeRuns ==
    ASSUME RunsInv, NEW w \in Workers, NEW r \in DOMAIN runs, NEW k \in DOMAIN runs[r].scopes,
           NEW status, NEW days, EndScope(w, r, k, status, days),
           loaded[w] = runs[r].config =>
                status # "unbound" /\ (status = "succeeded" => days = 1..runs[r].days)
    PROVE  RunsInv'
<1> DEFINE scope == [status |-> status, by |-> loaded[w], fetched |-> days]
           scopes == [runs[r].scopes EXCEPT ![k] = scope]
           run == [runs[r] EXCEPT !.scopes = scopes]
<1>1. runs' = [runs EXCEPT ![r] = run]
  BY DEF EndScope
<1>2. PICK S : runs \in Seq(S)
  BY DEF RunsInv
<1>3. runs' \in Seq(S \cup {run})
  BY <1>1, <1>2
<1>4. RunSuffices(runs[r])
  BY DEF RunsInv
<1>5. /\ DOMAIN run = DOMAIN runs[r]
      /\ run.config = runs[r].config
      /\ run.days = runs[r].days
      /\ run.scopes = scopes
  BY <1>4 DEF RunSuffices, Fields
<1>6. /\ DOMAIN scopes = DOMAIN runs[r].scopes
      /\ \A j \in DOMAIN scopes : scopes[j] = IF j = k THEN scope ELSE runs[r].scopes[j]
  OBVIOUS
<1>7. scope.by = loaded[w] /\ scope.status = status /\ scope.fetched = days
  OBVIOUS
<1> HIDE DEF run, scopes, scope
<1>8. RunSuffices(run)
  BY <1>4, <1>5, <1>6, <1>7 DEF RunSuffices
<1>9. DOMAIN runs' = DOMAIN runs /\ \A q \in DOMAIN runs : runs'[q] = IF q = r THEN run ELSE runs[q]
  BY <1>1
<1>10. \A q \in DOMAIN runs' : RunSuffices(runs'[q])
  BY <1>8, <1>9 DEF RunsInv
<1> QED
  BY <1>3, <1>10 DEF RunsInv

LEMMA NextRuns == LoadedInv /\ RunsInv /\ [Next]_vars => RunsInv'
<1> SUFFICES ASSUME LoadedInv, RunsInv, [Next]_vars PROVE RunsInv'
  OBVIOUS
<1>1. CASE runs' = runs
  BY <1>1 DEF RunsInv
<1>2. ASSUME NEW p \in Enqueuers, CommitRun(p), runs' # runs PROVE RunsInv'
  <2> DEFINE m == creating[p]
             run == [config |-> loaded[p], dataset |-> m.dataset, days |-> m.days,
                     scopes |-> [k \in Planned(loaded[p], m) |-> Unexecuted]]
  <2>1. /\ m \in Commands
        /\ Accepted(loaded[p], m)
        /\ loaded[p] \in Configurations
        /\ runs' = Append(runs, run)
    BY <1>2, CommitRunFacts
  <2>2. loaded[p] # NotLoaded
    BY <2>1, ReferenceAssumption
  <2>3. /\ Fields \subseteq DOMAIN run
        /\ run.config = loaded[p]
        /\ run.days = m.days
        /\ DOMAIN run.scopes = Planned(loaded[p], m)
        /\ \A k \in DOMAIN run.scopes : run.scopes[k].by = NotLoaded
    BY DEF Fields, Unexecuted
  <2>4. \A k \in Planned(loaded[p], m) : Suffices(loaded[p], k, m.days)
    BY <2>1, PlannedSuffices
  <2> HIDE DEF run, m
  <2>5. RunSuffices(run)
    BY <2>2, <2>3, <2>4 DEF RunSuffices
  <2>6. PICK S : runs \in Seq(S)
    BY DEF RunsInv
  <2>7. runs' \in Seq(S \cup {run})
    BY <2>1, <2>6
  <2>8. \A q \in DOMAIN runs' : runs'[q] = run \/ (q \in DOMAIN runs /\ runs'[q] = runs[q])
    BY <2>1, <2>6
  <2>9. \A q \in DOMAIN runs' : RunSuffices(runs'[q])
    BY <2>5, <2>8 DEF RunsInv
  <2> QED
    BY <2>7, <2>9 DEF RunsInv
<1>3. ASSUME NEW w \in Workers, NEW r \in DOMAIN runs, NEW k \in DOMAIN runs[r].scopes,
             FetchScope(w, r, k) \/ FetchFails(w, r, k) \/ BindingFails(w, r, k)
      PROVE  RunsInv'
  <2>1. loaded[w] = runs[r].config => Suffices(loaded[w], k, runs[r].days)
    BY DEF RunsInv, RunSuffices
  <2>2. CASE FetchScope(w, r, k)
    <3>1. EndScope(w, r, k, "succeeded", RequestedDays(loaded[w], k, runs[r].days))
      BY <2>2 DEF FetchScope
    <3>2. loaded[w] = runs[r].config =>
            RequestedDays(loaded[w], k, runs[r].days) = 1..runs[r].days
      BY <2>1 DEF Suffices
    <3> QED
      BY <3>1, <3>2, EndScopeRuns
  <2>3. CASE FetchFails(w, r, k)
    BY <2>3, EndScopeRuns DEF FetchFails
  <2>4. CASE BindingFails(w, r, k)
    <3>1. EndScope(w, r, k, "unbound", {})
      BY <2>4 DEF BindingFails
    <3>2. loaded[w] # runs[r].config
      BY <2>1, <2>4 DEF BindingFails, Suffices
    <3> QED
      BY <3>1, <3>2, EndScopeRuns
  <2> QED
    BY <1>3, <2>2, <2>3, <2>4
<1>4. \/ runs' = runs
      \/ \E p \in Enqueuers : CommitRun(p)
      \/ \E w \in Workers, r \in DOMAIN runs : \E k \in DOMAIN runs[r].scopes :
            FetchScope(w, r, k) \/ FetchFails(w, r, k) \/ BindingFails(w, r, k)
  BY DEF Next, vars, Edit, Start, Stop, Synchronize, CheckCommand
<1> QED
  BY <1>1, <1>2, <1>3, <1>4

\* A run can be executed, in full, under the configuration it records.
THEOREM RecordedConfigurationWorks == Spec => []RecordedConfigurationSuffices
<1>2. RunsInv => RecordedConfigurationSuffices
  BY DEF RunsInv, RunSuffices, RecordedConfigurationSuffices
<1> QED
  BY <1>2, InitRuns, NextRuns, LoadedInvariance, PTL DEF Spec

LEMMA PlansActive ==
    RunsInv /\ ActiveSeriesUsable /\ [Next]_vars =>
        \A r \in DOMAIN runs' \ DOMAIN runs : \A k \in DOMAIN runs'[r].scopes :
            /\ k \in Active(database[KindOf(k[1])])
            /\ k[1] \in Active(database["datasets"])
<1> SUFFICES ASSUME RunsInv, ActiveSeriesUsable, [Next]_vars,
                    NEW r \in DOMAIN runs' \ DOMAIN runs, NEW k \in DOMAIN runs'[r].scopes
             PROVE  k \in Active(database[KindOf(k[1])]) /\ k[1] \in Active(database["datasets"])
  OBVIOUS
<1>1. DOMAIN runs' # DOMAIN runs
  OBVIOUS
<1>2. PICK p \in Enqueuers : CommitRun(p) /\ runs' # runs
  BY <1>1 DEF Next, vars, Edit, Start, Stop, Synchronize, CheckCommand, FetchScope, FetchFails,
              BindingFails, EndScope
<1> DEFINE m == creating[p]
           run == [config |-> loaded[p], dataset |-> m.dataset, days |-> m.days,
                   scopes |-> [j \in Planned(loaded[p], m) |-> Unexecuted]]
<1>3. runs' = Append(runs, run)
  BY <1>2 DEF CommitRun
<1>4. runs'[r] = run
  <2>1. PICK S : runs \in Seq(S)
    BY DEF RunsInv
  <2> HIDE DEF run
  <2> QED
    BY <1>3, <2>1
<1>5. k \in Planned(loaded[p], m)
  BY <1>4
<1>6. k[1] = m.dataset /\ k \in Active(database[KindOf(m.dataset)])
  <2> DEFINE kind == KindOf(m.dataset)
             key(s) == <<m.dataset, loaded[p][kind][s].symbol>>
  <2>1. PICK s : k = key(s) /\ key(s) \in Active(database[kind])
    BY <1>5 DEF Planned
  <2> QED
    BY <2>1
<1>7. k[1] \in Active(database["datasets"])
  BY <1>6 DEF ActiveSeriesUsable, KindOf
<1> QED
  BY <1>6, <1>7

\* A run is never planned for a series or a dataset that has been disabled.
THEOREM PlansAreActive == Spec => RunsPlanActiveSeries
<1>2. RunsInv /\ ActiveSeriesUsable /\ [Next]_vars =>
        [\A r \in DOMAIN runs' \ DOMAIN runs : \A k \in DOMAIN runs'[r].scopes :
            /\ k \in Active(database[KindOf(k[1])])
            /\ k[1] \in Active(database["datasets"])]_vars
  BY PlansActive
<1> QED
  BY <1>2, InitRuns, NextRuns, LoadedInvariance, SeriesStayUsable, PTL DEF Spec, RunsPlanActiveSeries
=============================================================================
