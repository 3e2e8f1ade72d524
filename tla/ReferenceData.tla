---------------------------- MODULE ReferenceData ----------------------------
(***************************************************************************)
(* Reference configuration and what depends on it: the configuration file  *)
(* and its validation (src/app/config/reference.py), the copy each process *)
(* loads when it starts, the synchronization of the reference tables       *)
(* (src/app/repositories/reference.py, src/app/config/cli.py), readiness,  *)
(* the creation of runs (RunManager.create) and the request a worker binds *)
(* to a scope (src/app/application/runtime_bindings.py).                   *)
(*                                                                         *)
(* A configuration lists its entries by their unique keys.  Rows of the    *)
(* database have the attributes of an entry, enabled standing for          *)
(* is_active; names and other texts are left out.  Nobody but the          *)
(* synchronization writes the reference tables, and one operator runs it,  *)
(* so that its transaction is one step.  How scopes of a run are ordered   *)
(* and guarded against others is the subject of RunLifecycle.              *)
(***************************************************************************)
EXTENDS Integers, Sequences, FiniteSets

CONSTANTS
    Configurations,  \* what the configuration file may say
    NotLoaded,       \* a process that is not running
    Enqueuers,       \* processes that create runs: API and scheduler
    Workers,         \* processes that execute scopes
    Commands,        \* [dataset, days, asked]: the days 1..days, of the asked series
    NoCommand,       \* no run is being created
    MaxEdits,        \* bound on changes of the file
    MaxRuns          \* bound on the number of runs

Processes == Enqueuers \cup Workers

\* The tables whose active rows readiness counts.
Tables == {"currencies", "economies", "pairs", "datasets", "fx", "rates"}

ASSUME ReferenceAssumption ==
    /\ NotLoaded \notin Configurations
    /\ NoCommand \notin Commands
    /\ {MaxEdits, MaxRuns} \subseteq Nat
    /\ \A m \in Commands : m.days \in Nat \ {0}

\* Entries can be enabled, ranges are numbers of days, files are finite.
ASSUME ConfigurationShape ==
    \A c \in Configurations :
        /\ \A t \in Tables :
            /\ IsFiniteSet(DOMAIN c[t])
            /\ \A k \in DOMAIN c[t] : "enabled" \in DOMAIN c[t][k]
        /\ \A k \in DOMAIN c.datasets : c.datasets[k].maxDays \in Int

VARIABLES
    file,      \* content of the configuration file
    edits,     \* changes of it so far
    loaded,    \* configuration each process has loaded
    database,  \* reference tables: rows by their keys
    synced,    \* configuration of the last synchronization
    creating,  \* command that has passed its checks, in the open transaction
    runs       \* [config, command, scopes]: runs and what became of their scopes

vars == <<file, edits, loaded, database, synced, creating, runs>>

-----------------------------------------------------------------------------
(***************************************************************************)
(* Validation.  Formats of codes, zones, URLs, cadences are left out.      *)
(***************************************************************************)
SeriesKey(item) == <<item.dataset, item.symbol>>

\* Two periods of one economy and currency share a day; Open ends never end.
PeriodsOverlap(a, b) == a.from <= b.to /\ b.from <= a.to

ValidRelationships(c) ==
    /\ \A x \in c.relationships :
        /\ x.economy \in DOMAIN c.economies
        /\ x.currency \in DOMAIN c.currencies
        /\ x.from <= x.to
    /\ \A x, y \in c.relationships :
        (x # y /\ x.economy = y.economy /\ x.currency = y.currency) => ~PeriodsOverlap(x, y)

ValidPairs(c) ==
    \A s \in DOMAIN c.pairs :
        /\ {c.pairs[s].base, c.pairs[s].quote} \subseteq DOMAIN c.currencies
        /\ c.pairs[s].base # c.pairs[s].quote
        /\ s = <<c.pairs[s].base, c.pairs[s].quote>>

\* The identity of a series in the database is unique among its kind.
DistinctKeys(items) == \A s, t \in DOMAIN items : SeriesKey(items[s]) = SeriesKey(items[t]) => s = t

\* Faulty variant: an enabled series may refer to a disabled pair.
ValidFxLoosely(c) ==
    /\ \A s \in DOMAIN c.fx :
        /\ c.fx[s].dataset \in DOMAIN c.datasets
        /\ c.fx[s].pair \in DOMAIN c.pairs
        /\ c.fx[s].enabled => c.datasets[c.fx[s].dataset].enabled /\ c.pairs[c.fx[s].pair].quote = "CAD"
    /\ DistinctKeys(c.fx)

ValidFx(c) ==
    /\ \A s \in DOMAIN c.fx :
        /\ c.fx[s].dataset \in DOMAIN c.datasets
        /\ c.fx[s].pair \in DOMAIN c.pairs
        /\ c.fx[s].enabled =>
            /\ c.pairs[c.fx[s].pair].enabled /\ c.datasets[c.fx[s].dataset].enabled
            /\ c.pairs[c.fx[s].pair].quote = "CAD"
    /\ DistinctKeys(c.fx)

\* Faulty variant: references of disabled series are not resolved.
ValidRatesEnabled(c) ==
    /\ \A s \in DOMAIN c.rates :
        c.rates[s].enabled =>
            /\ c.rates[s].dataset \in DOMAIN c.datasets
            /\ \E x \in c.relationships :
                x.economy = c.rates[s].economy /\ x.currency = c.rates[s].currency
            /\ c.datasets[c.rates[s].dataset].enabled
            /\ c.economies[c.rates[s].economy].enabled /\ c.currencies[c.rates[s].currency].enabled
    /\ DistinctKeys(c.rates)

ValidRates(c) ==
    /\ \A s \in DOMAIN c.rates :
        /\ c.rates[s].dataset \in DOMAIN c.datasets
        /\ c.rates[s].economy \in DOMAIN c.economies
        /\ c.rates[s].currency \in DOMAIN c.currencies
        /\ \E x \in c.relationships :
            x.economy = c.rates[s].economy /\ x.currency = c.rates[s].currency
        /\ c.rates[s].enabled =>
            /\ c.datasets[c.rates[s].dataset].enabled
            /\ c.economies[c.rates[s].economy].enabled /\ c.currencies[c.rates[s].currency].enabled
    /\ DistinctKeys(c.rates)

Enabled(items) == {s \in DOMAIN items : items[s].enabled}

\* An expectation policy names a series and a calendar; enabled series have one.
ValidPolicies(c) ==
    /\ \A s \in DOMAIN c.policies :
        s \in DOMAIN c.fx \cup DOMAIN c.rates /\ c.policies[s] \in c.calendars
    /\ Enabled(c.fx) \cup Enabled(c.rates) \subseteq DOMAIN c.policies

\* load_reference_configuration returns c; anything else is refused as a whole.
Valid(c) ==
    /\ DOMAIN c.fx \cap DOMAIN c.rates = {}
    /\ ValidRelationships(c) /\ ValidPairs(c)
    /\ \A k \in DOMAIN c.datasets : c.datasets[k].maxDays > 0
    /\ ValidFx(c) /\ ValidRates(c) /\ ValidPolicies(c)

-----------------------------------------------------------------------------
(***************************************************************************)
(* Synchronization of the database.                                        *)
(***************************************************************************)
\* Rows of a series table, as items describe them, by the identity of the row.
SeriesRows(items) ==
    [k \in {SeriesKey(items[s]) : s \in DOMAIN items} |->
        items[CHOOSE s \in DOMAIN items : SeriesKey(items[s]) = k]]

Wanted(c, t) == IF t \in {"fx", "rates"} THEN SeriesRows(c[t]) ELSE c[t]

\* Faulty variant: a row that was disabled once keeps its state.
UpsertInactive(rows, wanted) ==
    [k \in DOMAIN rows \cup DOMAIN wanted |->
        IF k \notin DOMAIN rows THEN wanted[k]
        ELSE IF k \in DOMAIN wanted THEN [wanted[k] EXCEPT !.enabled = rows[k].enabled]
        ELSE rows[k]]

Upsert(rows, wanted) ==
    [k \in DOMAIN rows \cup DOMAIN wanted |-> IF k \in DOMAIN wanted THEN wanted[k] ELSE rows[k]]

\* Rows that are not configured are disabled and never deleted.
Disable(rows, configured) ==
    [k \in DOMAIN rows |->
        IF k \in configured THEN rows[k] ELSE [rows[k] EXCEPT !.enabled = FALSE]]

Reconcile(rows, wanted) == Disable(Upsert(rows, wanted), DOMAIN wanted)

\* Relationships have no such state: those that are not configured stay.
RelationshipKey(x) == <<x.economy, x.currency, x.from>>
ReconcileRelationships(rows, wanted) ==
    wanted \cup {x \in rows : \A y \in wanted : RelationshipKey(x) # RelationshipKey(y)}

Synchronized(c) ==
    [t \in Tables \cup {"relationships"} |->
        IF t = "relationships" THEN ReconcileRelationships(database[t], c[t])
        ELSE Reconcile(database[t], Wanted(c, t))]

\* What an entry refers to is looked up among the old and the new rows.
Known(c, t) == DOMAIN database[t] \cup DOMAIN c[t]

\* synchronize raises: a reference that is not found, or one row inserted twice.
SynchronizeRaises(c) ==
    \/ \E s \in DOMAIN c.pairs : ~({c.pairs[s].base, c.pairs[s].quote} \subseteq Known(c, "currencies"))
    \/ \E x \in c.relationships :
        x.economy \notin Known(c, "economies") \/ x.currency \notin Known(c, "currencies")
    \/ \E s \in DOMAIN c.fx :
        c.fx[s].dataset \notin Known(c, "datasets") \/ c.fx[s].pair \notin Known(c, "pairs")
    \/ \E s \in DOMAIN c.rates :
        \/ c.rates[s].dataset \notin Known(c, "datasets")
        \/ c.rates[s].economy \notin Known(c, "economies")
        \/ c.rates[s].currency \notin Known(c, "currencies")
    \/ \E t \in {"fx", "rates"} : \E s, u \in DOMAIN c[t] :
        s # u /\ SeriesKey(c[t][s]) = SeriesKey(c[t][u]) /\ SeriesKey(c[t][s]) \notin DOMAIN database[t]

-----------------------------------------------------------------------------
(***************************************************************************)
(* The file, the processes and the synchronization.                        *)
(***************************************************************************)
Init ==
    /\ file \in {c \in Configurations : Valid(c)}
    /\ edits = 0
    /\ loaded = [p \in Processes |-> NotLoaded]
    /\ database = [t \in Tables \cup {"relationships"} |-> IF t = "relationships" THEN {} ELSE <<>>]
    /\ synced = NotLoaded
    /\ creating = [p \in Enqueuers |-> NoCommand]
    /\ runs = <<>>

Edit(c) ==
    /\ edits < MaxEdits
    /\ c # file
    /\ file' = c
    /\ edits' = edits + 1
    /\ UNCHANGED <<loaded, database, synced, creating, runs>>

\* A process reads the file once; it does not start with one that is not valid.
Start(p) ==
    /\ loaded[p] = NotLoaded
    /\ Valid(file)
    /\ loaded' = [loaded EXCEPT ![p] = file]
    /\ UNCHANGED <<file, edits, database, synced, creating, runs>>

\* The transaction in which it creates a run is rolled back with it.
Stop(p) ==
    /\ loaded[p] # NotLoaded
    /\ loaded' = [loaded EXCEPT ![p] = NotLoaded]
    /\ creating' = [e \in Enqueuers |-> IF e = p THEN NoCommand ELSE creating[e]]
    /\ UNCHANGED <<file, edits, database, synced, runs>>

Synchronize ==
    /\ Valid(file)
    /\ ~SynchronizeRaises(file)
    /\ database' = Synchronized(file)
    /\ synced' = file
    /\ UNCHANGED <<file, edits, loaded, creating, runs>>

Active(rows) == {k \in DOMAIN rows : rows[k].enabled}

\* References are ready for c: as many rows are active as are enabled in c.
Ready(c) ==
    \A t \in Tables : Cardinality(Active(database[t])) >= Cardinality(Enabled(c[t]))

-----------------------------------------------------------------------------
(***************************************************************************)
(* Creating a run.                                                         *)
(***************************************************************************)
IngestionAllowed(c, dataset) ==
    /\ dataset \in DOMAIN c.datasets
    /\ c.datasets[dataset].enabled
    /\ c.datasets[dataset].approved
    /\ c.datasets[dataset].retained

\* The kind of series a provider has.
KindOf(dataset) == IF dataset = "valet" THEN "fx" ELSE "rates"

Available(c, dataset) ==
    {s \in Enabled(c.fx) : c.fx[s].dataset = dataset}
        \cup {s \in Enabled(c.rates) : c.rates[s].dataset = dataset}

\* Faulty variant: the number of days is one too small.
AcceptedDaysBetween(c, m) ==
    /\ IngestionAllowed(c, m.dataset)
    /\ m.days - 1 <= c.datasets[m.dataset].maxDays
    /\ m.asked \subseteq Available(c, m.dataset)

\* StartIngestionCommand.validate
Accepted(c, m) ==
    /\ IngestionAllowed(c, m.dataset)
    /\ m.days <= c.datasets[m.dataset].maxDays
    /\ m.asked \subseteq Available(c, m.dataset)

\* The command is validated and the row of its dataset is read.
CheckCommand(p, m) ==
    LET datasets == database["datasets"]
    IN  /\ loaded[p] # NotLoaded
        /\ creating[p] = NoCommand
        /\ Len(runs) < MaxRuns
        /\ Accepted(loaded[p], m)
        /\ m.dataset \in Active(datasets)
        /\ datasets[m.dataset].approved
        /\ creating' = [creating EXCEPT ![p] = m]
        /\ UNCHANGED <<file, edits, loaded, database, synced, runs>>

\* Faulty variant: rows are not asked for their state.
PlannedKnown(c, m) ==
    LET kind == KindOf(m.dataset)
    IN  {<<m.dataset, c[kind][s].symbol>> :
            s \in {s \in Enabled(c[kind]) :
                    /\ <<m.dataset, c[kind][s].symbol>> \in DOMAIN database[kind]
                    /\ m.asked = {} \/ s \in m.asked}}

\* The series that are enabled in c and active in the database, if asked for.
Planned(c, m) ==
    LET kind == KindOf(m.dataset)
    IN  {<<m.dataset, c[kind][s].symbol>> :
            s \in {s \in Enabled(c[kind]) :
                    /\ <<m.dataset, c[kind][s].symbol>> \in Active(database[kind])
                    /\ m.asked = {} \/ s \in m.asked}}

\* A scope that nobody has executed yet.
Unexecuted == [status |-> "pending", by |-> NotLoaded, fetched |-> {}]

\* The series are read, in a later statement than the dataset, and the run is
\* committed with its scopes; without any it is refused.
CommitRun(p) ==
    LET m == creating[p]
        planned == Planned(loaded[p], m)
    IN  /\ m # NoCommand
        /\ creating' = [creating EXCEPT ![p] = NoCommand]
        /\ IF planned = {} THEN UNCHANGED runs
           ELSE /\ Len(runs) < MaxRuns
                /\ runs' = Append(runs, [config |-> loaded[p], dataset |-> m.dataset, days |-> m.days,
                                         scopes |-> [k \in planned |-> Unexecuted]])
        /\ UNCHANGED <<file, edits, loaded, database, synced>>

-----------------------------------------------------------------------------
(***************************************************************************)
(* Executing a scope.  The worker's configuration decides.                 *)
(***************************************************************************)
Smaller(a, b) == IF a < b THEN a ELSE b

\* BISClient.requests: consecutive windows of at most max days.
Windows(days, max) ==
    {first..Smaller(days, first + max - 1) :
        first \in {d \in 1..days : \E i \in 0..days : d = 1 + i * max}}

\* The entry of series k and the settings of its dataset are found, and a Valet
\* request does not exceed the range.
Bindable(c, k, days) ==
    /\ k[1] \in DOMAIN c.datasets
    /\ \E s \in DOMAIN c[KindOf(k[1])] : c[KindOf(k[1])][s].symbol = k[2]
    /\ k[1] = "valet" => days <= c.datasets[k[1]].maxDays

\* The first of the requests is the one that is made.
RequestedDays(c, k, days) ==
    IF k[1] = "valet" THEN 1..days
    ELSE CHOOSE w \in Windows(days, c.datasets[k[1]].maxDays) : 1 \in w

Executable(w, r, k) == loaded[w] # NotLoaded /\ runs[r].scopes[k].status = "pending"

EndScope(w, r, k, status, days) ==
    /\ runs' = [runs EXCEPT ![r].scopes[k] = [status |-> status, by |-> loaded[w], fetched |-> days]]
    /\ UNCHANGED <<file, edits, loaded, database, synced, creating>>

FetchScope(w, r, k) ==
    /\ Executable(w, r, k)
    /\ Bindable(loaded[w], k, runs[r].days)
    /\ EndScope(w, r, k, "succeeded", RequestedDays(loaded[w], k, runs[r].days))

\* The provider, or a later step of the pipeline, fails.
FetchFails(w, r, k) ==
    /\ Executable(w, r, k)
    /\ Bindable(loaded[w], k, runs[r].days)
    /\ EndScope(w, r, k, "failed", {})

BindingFails(w, r, k) ==
    /\ Executable(w, r, k)
    /\ ~Bindable(loaded[w], k, runs[r].days)
    /\ EndScope(w, r, k, "unbound", {})

-----------------------------------------------------------------------------
Next ==
    \/ \E c \in Configurations : Edit(c)
    \/ \E p \in Processes : Start(p) \/ Stop(p)
    \/ Synchronize
    \/ \E p \in Enqueuers : CommitRun(p) \/ \E m \in Commands : CheckCommand(p, m)
    \/ \E w \in Workers, r \in DOMAIN runs : \E k \in DOMAIN runs[r].scopes :
            FetchScope(w, r, k) \/ FetchFails(w, r, k) \/ BindingFails(w, r, k)

Spec == Init /\ [][Next]_vars

-----------------------------------------------------------------------------
(***************************************************************************)
(* Properties.                                                             *)
(***************************************************************************)
\* Validation refuses whatever synchronization could not resolve: whatever was
\* synchronized before, each reference of an accepted file is found and no row
\* is inserted twice.
ValidatedSynchronizes == Valid(file) => ~SynchronizeRaises(file)

\* An active series is usable: what it refers to is in the database and active,
\* also when entries were moved, disabled or dropped since it was inserted.
ActiveSeriesUsable ==
    /\ \A k \in Active(database["fx"]) :
        /\ k[1] \in Active(database["datasets"])
        /\ database["fx"][k].pair \in Active(database["pairs"])
    /\ \A k \in Active(database["rates"]) :
        /\ k[1] \in Active(database["datasets"])
        /\ database["rates"][k].economy \in Active(database["economies"])
        /\ database["rates"][k].currency \in Active(database["currencies"])
        /\ \E x \in database["relationships"] :
            /\ x.economy = database["rates"][k].economy
            /\ x.currency = database["rates"][k].currency

\* A process whose configuration is the one synchronized last finds itself
\* ready, whatever the rows have been through before.
SynchronizedIsReady ==
    \A p \in Processes : loaded[p] # NotLoaded /\ loaded[p] = synced => Ready(loaded[p])

\* A run only plans series that are active, in a dataset that is active, at the
\* instant its series are read, although a synchronization may commit between
\* the check of the dataset and the reading of the series.
RunsPlanActiveSeries ==
    [][\A r \in DOMAIN runs' \ DOMAIN runs : \A k \in DOMAIN runs'[r].scopes :
        /\ k \in Active(database[KindOf(k[1])])
        /\ k[1] \in Active(database["datasets"])]_vars

\* The configuration a run records suffices for it: a worker that has loaded
\* the same one can bind each of its scopes, and one that succeeds has fetched
\* every day of the range.
RecordedConfigurationSuffices ==
    \A r \in DOMAIN runs : \A k \in DOMAIN runs[r].scopes :
        LET scope == runs[r].scopes[k]
        IN  scope.by = runs[r].config =>
                /\ scope.status # "unbound"
                /\ scope.status = "succeeded" => scope.fetched = 1..runs[r].days
=============================================================================
