---------------------------- MODULE RunLifecycle ----------------------------
(***************************************************************************)
(* Ingestion runs and their scopes, from the command that creates them to  *)
(* their terminal status: RunManager, ScopeCoordinator, the run and scope  *)
(* repositories, IngestionOrchestrator and the worker's polling loop, as   *)
(* concurrent transactions of several worker processes over PostgreSQL     *)
(* (READ COMMITTED, SELECT ... FOR UPDATE, pg_advisory_xact_lock).         *)
(*                                                                         *)
(* A command of one dataset plans one scope per enabled series over its    *)
(* date range.  Runs are numbered in the order of requested_at, id.  A     *)
(* worker executes one run at a time; a transaction that waits for a lock  *)
(* is a disabled action.  What happens inside a scope between its start    *)
(* and its completion is the subject of IngestionPipeline.                 *)
(***************************************************************************)
EXTENDS Integers

CONSTANTS
    MaxRuns,           \* bound on the number of runs
    Series,            \* enabled series of the dataset
    Ranges,            \* date ranges a command may ask for
    NoRange,           \* a client that is not enqueueing
    Workers,           \* worker processes
    Clients,           \* API requests that enqueue manual runs
    MaxExits,          \* bound on crashes and requested stops of workers
    LeaseOutlivesWork  \* the lease timeout exceeds every silence of a live worker

Runs == 1..MaxRuns

\* DateRange refuses an end before the start.
ASSUME LifecycleAssumption ==
    /\ MaxRuns \in Nat
    /\ MaxExits \in Nat
    /\ Series # {}
    /\ Ranges # {}
    /\ Ranges \subseteq [start : Int, end : Int]
    /\ \A d \in Ranges : d.start <= d.end
    /\ NoRange \notin Ranges
    /\ LeaseOutlivesWork \in BOOLEAN

VARIABLES
    runStatus,    \* ingestion_run.status, "absent" before the row exists
    trigger,      \* ingestion_run.trigger_type
    range,        \* requested_start .. requested_end, copied to the scopes
    leaseExpired, \* heartbeat_at is older than the lease timeout
    scopeStatus,  \* ingestion_scope.status of each run and series
    asked,        \* range a client found free, under its enqueue lock
    pc,           \* where each worker is
    claimed,      \* run a worker executes, 0 for none
    todo,         \* scopes of that run it has not executed yet
    scope,        \* scope it executes
    view,         \* status its session loaded for that scope
    locked,       \* runs whose rows a recovering worker holds FOR UPDATE
    toFail,       \* scopes that recovery loaded as active
    exits         \* crashes and stops so far

commandVars == <<runStatus, trigger, range, scopeStatus, asked>>
recoveryVars == <<locked, toFail>>
workVars == <<claimed, todo, scope, view>>
vars == <<runStatus, trigger, range, leaseExpired, scopeStatus, asked,
          pc, claimed, todo, scope, view, locked, toFail, exits>>

TerminalRun == {"succeeded", "partially_succeeded", "failed"}
ActiveScope == {"pending", "running"}
ScopeStatus == ActiveScope \cup {"absent", "succeeded", "failed", "skipped_conflict"}
Executing == {"beating", "next", "loaded", "free", "conflict", "fetching", "processing",
              "failing", "finalizing"}

TypeOK ==
    /\ runStatus \in [Runs -> {"absent", "pending", "running"} \cup TerminalRun]
    /\ trigger \in [Runs -> {"manual", "scheduled", "retry"}]
    /\ range \in [Runs -> Ranges]
    /\ leaseExpired \in [Runs -> BOOLEAN]
    /\ scopeStatus \in [Runs -> [Series -> ScopeStatus]]
    /\ asked \in [Clients -> Ranges \cup {NoRange}]
    /\ pc \in [Workers -> {"down", "recovering", "polling"} \cup Executing]
    /\ claimed \in [Workers -> Runs \cup {0}]
    /\ todo \in [Workers -> SUBSET Series]
    /\ scope \in [Workers -> Series]
    /\ view \in [Workers -> ScopeStatus]
    /\ locked \in [Workers -> SUBSET Runs]
    /\ toFail \in [Workers -> SUBSET (Runs \X Series)]
    /\ exits \in 0..MaxExits

Init ==
    /\ runStatus = [r \in Runs |-> "absent"]
    /\ trigger = [r \in Runs |-> "scheduled"]
    /\ range = [r \in Runs |-> CHOOSE d \in Ranges : TRUE]
    /\ leaseExpired = [r \in Runs |-> FALSE]
    /\ scopeStatus = [r \in Runs |-> [s \in Series |-> "absent"]]
    /\ asked = [c \in Clients |-> NoRange]
    /\ pc = [w \in Workers |-> "down"]
    /\ claimed = [w \in Workers |-> 0]
    /\ todo = [w \in Workers |-> {}]
    /\ scope = [w \in Workers |-> CHOOSE s \in Series : TRUE]
    /\ view = [w \in Workers |-> "absent"]
    /\ locked = [w \in Workers |-> {}]
    /\ toFail = [w \in Workers |-> {}]
    /\ exits = 0

-----------------------------------------------------------------------------
(***************************************************************************)
(* Overlap of scopes.                                                      *)
(***************************************************************************)
\* Faulty variant: ranges that share one boundary day do not overlap.
OverlapStrictly(a, b) == a.start < b.end /\ a.end > b.start

Overlap(a, b) == a.start <= b.end /\ a.end >= b.start

\* IngestionScopeRepository.overlaps: an active scope of another run.
ActiveOverlap(r, s, d) ==
    \E q \in Runs \ {r} : scopeStatus[q][s] \in ActiveScope /\ Overlap(range[q], d)

-----------------------------------------------------------------------------
(***************************************************************************)
(* Commands.                                                               *)
(***************************************************************************)
IsNext(r) == runStatus[r] = "absent" /\ \A q \in 1..(r - 1) : runStatus[q] # "absent"

\* RunManager.create inserts the run and a pending scope per planned series.
AddRun(r, t, d) ==
    /\ IsNext(r)
    /\ runStatus' = [runStatus EXCEPT ![r] = "pending"]
    /\ trigger' = [trigger EXCEPT ![r] = t]
    /\ range' = [range EXCEPT ![r] = d]
    /\ scopeStatus' = [scopeStatus EXCEPT ![r] = [s \in Series |-> "pending"]]
    /\ UNCHANGED <<leaseExpired, pc, workVars, recoveryVars, exits>>

\* Faulty variant: the advisory lock of the enqueue check is not taken.
EnqueueNeverLocked == FALSE

EnqueueLocked == \E c \in Clients : asked[c] # NoRange

\* A manual command takes the enqueue lock of its series and finds no active
\* overlap; otherwise it answers 409 and leaves nothing behind.
CheckManual(c, d) ==
    /\ asked[c] = NoRange
    /\ ~EnqueueLocked
    /\ \A s \in Series : ~ActiveOverlap(0, s, d)
    /\ asked' = [asked EXCEPT ![c] = d]
    /\ UNCHANGED <<runStatus, trigger, range, leaseExpired, scopeStatus, pc,
                   workVars, recoveryVars, exits>>

CommitManual(c, r) ==
    /\ asked[c] # NoRange
    /\ AddRun(r, "manual", asked[c])
    /\ asked' = [asked EXCEPT ![c] = NoRange]

\* Scheduled and backfill commands do not look for overlaps when enqueued.
CreateScheduled(r, d) ==
    /\ AddRun(r, "scheduled", d)
    /\ UNCHANGED asked

\* A retry needs a terminal parent run of the same dataset.
CreateRetry(r, d) ==
    /\ \E parent \in Runs : runStatus[parent] \in TerminalRun
    /\ AddRun(r, "retry", d)
    /\ UNCHANGED asked

-----------------------------------------------------------------------------
(***************************************************************************)
(* Worker.run: recovery at startup, then the polling loop.                 *)
(***************************************************************************)
\* Faulty variant: recovery does not lock the runs it ends.
RunRowNeverLocked(r) == FALSE

RunRowLocked(r) == \E w \in Workers : r \in locked[w]

\* Faulty variant: recovery loads the scopes that have ended as well.
RecoverBeginAll(w) ==
    LET expired == {r \in Runs : runStatus[r] = "running" /\ leaseExpired[r] /\ ~RunRowLocked(r)}
    IN  /\ pc[w] = "down"
        /\ locked' = [locked EXCEPT ![w] = expired]
        /\ toFail' = [toFail EXCEPT ![w] = expired \X Series]
        /\ pc' = [pc EXCEPT ![w] = "recovering"]
        /\ UNCHANGED <<commandVars, leaseExpired, workVars, exits>>

\* Faulty variant: only runs with a scope in progress are looked at.
RecoverBeginInProgress(w) ==
    LET expired == {r \in Runs : runStatus[r] = "running" /\ leaseExpired[r] /\ ~RunRowLocked(r)
                                  /\ \E s \in Series : scopeStatus[r][s] = "running"}
    IN  /\ pc[w] = "down"
        /\ locked' = [locked EXCEPT ![w] = expired]
        /\ toFail' = [toFail EXCEPT ![w] =
                        {x \in expired \X Series : scopeStatus[x[1]][x[2]] \in ActiveScope}]
        /\ pc' = [pc EXCEPT ![w] = "recovering"]
        /\ UNCHANGED <<commandVars, leaseExpired, workVars, exits>>

\* Lock the expired running runs (SKIP LOCKED) and load their scopes.
RecoverBegin(w) ==
    LET expired == {r \in Runs : runStatus[r] = "running" /\ leaseExpired[r] /\ ~RunRowLocked(r)}
    IN  /\ pc[w] = "down"
        /\ locked' = [locked EXCEPT ![w] = expired]
        /\ toFail' = [toFail EXCEPT ![w] =
                        {x \in expired \X Series : scopeStatus[x[1]][x[2]] \in ActiveScope}]
        /\ pc' = [pc EXCEPT ![w] = "recovering"]
        /\ UNCHANGED <<commandVars, leaseExpired, workVars, exits>>

\* RunManager.derive_status over the scopes of one run.
DeriveStatus(statuses) ==
    LET some(x) == \E s \in Series : statuses[s] = x
    IN  CASE some("succeeded") /\ (some("failed") \/ some("skipped_conflict")) ->
                "partially_succeeded"
          [] ~some("succeeded") /\ (some("failed") \/ some("skipped_conflict")) -> "failed"
          [] OTHER -> "succeeded"

\* Faulty variant: only the scopes that had started are failed.
RecoverScopesStarted(w) ==
    [r \in Runs |-> [s \in Series |->
        IF <<r, s>> \in toFail[w] /\ scopeStatus[r][s] = "running" THEN "failed"
        ELSE scopeStatus[r][s]]]

\* The scopes loaded as active are failed, whatever they have become since:
\* the locked read returns the object the session already holds.
RecoverScopes(w) ==
    [r \in Runs |-> [s \in Series |->
        IF <<r, s>> \in toFail[w] THEN "failed" ELSE scopeStatus[r][s]]]

RecoverCommit(w) ==
    /\ pc[w] = "recovering"
    /\ scopeStatus' = RecoverScopes(w)
    /\ runStatus' = [r \in Runs |->
            IF r \in locked[w] THEN DeriveStatus(RecoverScopes(w)[r]) ELSE runStatus[r]]
    /\ leaseExpired' = [r \in Runs |-> leaseExpired[r] /\ r \notin locked[w]]
    /\ locked' = [locked EXCEPT ![w] = {}]
    /\ toFail' = [toFail EXCEPT ![w] = {}]
    /\ pc' = [pc EXCEPT ![w] = "polling"]
    /\ UNCHANGED <<trigger, range, asked, workVars, exits>>

\* Faulty variant: a run whose lease expired can be claimed as well.
ClaimNextOrExpired(w, r) ==
    /\ pc[w] = "polling"
    /\ runStatus[r] = "pending" \/ (runStatus[r] = "running" /\ leaseExpired[r])
    /\ runStatus' = [runStatus EXCEPT ![r] = "running"]
    /\ leaseExpired' = [leaseExpired EXCEPT ![r] = FALSE]
    /\ claimed' = [claimed EXCEPT ![w] = r]
    /\ todo' = [todo EXCEPT ![w] = Series]
    /\ pc' = [pc EXCEPT ![w] = "beating"]
    /\ UNCHANGED <<trigger, range, scopeStatus, asked, scope, view, recoveryVars, exits>>

\* claim_next takes the oldest pending run.
ClaimNext(w, r) ==
    /\ pc[w] = "polling"
    /\ runStatus[r] = "pending"
    /\ \A q \in 1..(r - 1) : runStatus[q] # "pending"
    /\ runStatus' = [runStatus EXCEPT ![r] = "running"]
    /\ leaseExpired' = [leaseExpired EXCEPT ![r] = FALSE]
    /\ claimed' = [claimed EXCEPT ![w] = r]
    /\ todo' = [todo EXCEPT ![w] = Series]
    /\ pc' = [pc EXCEPT ![w] = "beating"]
    /\ UNCHANGED <<trigger, range, scopeStatus, asked, scope, view, recoveryVars, exits>>

\* A worker that ends its run, or its process, forgets its session state.
Leave(w, where) ==
    /\ pc' = [pc EXCEPT ![w] = where]
    /\ claimed' = [claimed EXCEPT ![w] = 0]
    /\ todo' = [todo EXCEPT ![w] = {}]
    /\ scope' = [scope EXCEPT ![w] = CHOOSE s \in Series : TRUE]
    /\ view' = [view EXCEPT ![w] = "absent"]

\* The explicit heartbeat before the first and after every scope.  On a run
\* that is no longer running it raises, which ends the worker process.
Beat(w) ==
    LET r == claimed[w]
    IN  /\ pc[w] = "beating"
        /\ ~RunRowLocked(r)
        /\ \/ /\ runStatus[r] = "running"
              /\ leaseExpired' = [leaseExpired EXCEPT ![r] = FALSE]
              /\ pc' = [pc EXCEPT ![w] = IF todo[w] = {} THEN "finalizing" ELSE "next"]
              /\ UNCHANGED workVars
           \/ /\ runStatus[r] # "running"
              /\ Leave(w, "down")
              /\ UNCHANGED leaseExpired
        /\ UNCHANGED <<commandVars, recoveryVars, exits>>

\* The background heartbeat only gets the event loop while the worker awaits
\* the provider.
BackgroundBeat(w) ==
    /\ pc[w] = "fetching"
    /\ runStatus[claimed[w]] = "running"
    /\ ~RunRowLocked(claimed[w])
    /\ leaseExpired[claimed[w]]
    /\ leaseExpired' = [leaseExpired EXCEPT ![claimed[w]] = FALSE]
    /\ UNCHANGED <<commandVars, pc, workVars, recoveryVars, exits>>

-----------------------------------------------------------------------------
(***************************************************************************)
(* IngestionOrchestrator._execute_scope.                                   *)
(***************************************************************************)
Goto(w, where) ==
    /\ pc' = [pc EXCEPT ![w] = where]
    /\ UNCHANGED <<runStatus, trigger, range, leaseExpired, asked, workVars,
                   recoveryVars, exits>>

\* The scope is loaded into the session before any lock is taken.
LoadScope(w, s) ==
    /\ pc[w] = "next"
    /\ s \in todo[w]
    /\ scope' = [scope EXCEPT ![w] = s]
    /\ view' = [view EXCEPT ![w] = scopeStatus[claimed[w]][s]]
    /\ todo' = [todo EXCEPT ![w] = @ \ {s}]
    /\ pc' = [pc EXCEPT ![w] = "loaded"]
    /\ UNCHANGED <<commandVars, leaseExpired, claimed, recoveryVars, exits>>

\* Faulty variant: the advisory lock of the claim is not taken.
ClaimNeverLocked(s) == FALSE

\* Faulty variant: the lock is a row that outlives the transaction.
ClaimLockedByRow(s) == \E r \in Runs : scopeStatus[r][s] = "running"

\* Some transaction holds the advisory lock of series s.
ClaimLocked(s) == \E w \in Workers : scope[w] = s /\ pc[w] \in {"free", "conflict"}

\* ScopeCoordinator.claim: take the advisory lock, then look for overlaps.
LockScope(w) ==
    LET r == claimed[w]
    IN  /\ pc[w] = "loaded"
        /\ ~ClaimLocked(scope[w])
        /\ Goto(w, IF ActiveOverlap(r, scope[w], range[r]) THEN "conflict" ELSE "free")
        /\ UNCHANGED scopeStatus

SetScope(w, status) ==
    scopeStatus' = [scopeStatus EXCEPT ![claimed[w]][scope[w]] = status]

\* scopes.start checks the status the session loaded, not the locked row.
StartScope(w) ==
    /\ pc[w] = "free"
    /\ view[w] = "pending"
    /\ SetScope(w, "running")
    /\ Goto(w, "fetching")

StartRefused(w) ==
    /\ pc[w] = "free"
    /\ view[w] # "pending"
    /\ Goto(w, "failing")
    /\ UNCHANGED scopeStatus

\* ConflictPolicy.SKIP records the conflict and releases the lock with it ...
SkipScope(w) ==
    /\ pc[w] = "conflict"
    /\ trigger[claimed[w]] # "manual"
    /\ \/ view[w] \in ActiveScope /\ SetScope(w, "skipped_conflict") /\ Goto(w, "beating")
       \/ view[w] \notin ActiveScope /\ UNCHANGED scopeStatus /\ Goto(w, "failing")

\* ... REJECT rolls back and fails the scope in a later transaction.
RejectScope(w) ==
    /\ pc[w] = "conflict"
    /\ trigger[claimed[w]] = "manual"
    /\ Goto(w, "failing")
    /\ UNCHANGED scopeStatus

\* The fetch ends, with a stored response or with an error.
FetchEnds(w) ==
    /\ pc[w] = "fetching"
    /\ \/ Goto(w, "processing")
       \/ Goto(w, "failing")
    /\ UNCHANGED scopeStatus

ProcessFails(w) ==
    /\ pc[w] = "processing"
    /\ Goto(w, "failing")
    /\ UNCHANGED scopeStatus

FreshScope(w) == scopeStatus[claimed[w]][scope[w]]

\* All records are processed: a new session completes the scope if the row is
\* still active, and raises otherwise.
CompleteScope(w) ==
    /\ pc[w] = "processing"
    /\ \/ FreshScope(w) \in ActiveScope /\ SetScope(w, "succeeded") /\ Goto(w, "beating")
       \/ FreshScope(w) \notin ActiveScope /\ UNCHANGED scopeStatus /\ Goto(w, "failing")

\* Faulty variant: a scope that was rejected before it started stays pending.
FailScopeStarted(w) ==
    /\ pc[w] = "failing"
    /\ IF FreshScope(w) = "running" THEN SetScope(w, "failed") ELSE UNCHANGED scopeStatus
    /\ Goto(w, "beating")

\* The exception handler fails the scope if it is still active.
FailScope(w) ==
    /\ pc[w] = "failing"
    /\ IF FreshScope(w) \in ActiveScope THEN SetScope(w, "failed") ELSE UNCHANGED scopeStatus
    /\ Goto(w, "beating")

AllScopesTerminal(r) == \A s \in Series : scopeStatus[r][s] \notin ActiveScope

\* derive_status and finalize; a run that is no longer running makes finalize
\* raise, which ends the worker process.
Finalize(w) ==
    LET r == claimed[w]
    IN  /\ pc[w] = "finalizing"
        /\ ~RunRowLocked(r)
        /\ \/ /\ runStatus[r] = "running"
              /\ AllScopesTerminal(r)
              /\ runStatus' = [runStatus EXCEPT ![r] = DeriveStatus(scopeStatus[r])]
              /\ leaseExpired' = [leaseExpired EXCEPT ![r] = FALSE]
              /\ Leave(w, "polling")
           \/ /\ runStatus[r] # "running" \/ ~AllScopesTerminal(r)
              /\ Leave(w, "down")
              /\ UNCHANGED <<runStatus, leaseExpired>>
        /\ UNCHANGED <<trigger, range, scopeStatus, asked, recoveryVars, exits>>

-----------------------------------------------------------------------------
(***************************************************************************)
(* Environment.                                                            *)
(***************************************************************************)
\* Some live worker executes run r.
Owned(r) == \E w \in Workers : claimed[w] = r

LeaseExpires(r) ==
    /\ runStatus[r] = "running"
    /\ ~leaseExpired[r]
    /\ LeaseOutlivesWork => ~Owned(r)
    /\ leaseExpired' = [leaseExpired EXCEPT ![r] = TRUE]
    /\ UNCHANGED <<commandVars, pc, workVars, recoveryVars, exits>>

\* The process dies: open transactions roll back and release their locks.
Crash(w) ==
    /\ pc[w] # "down"
    /\ exits < MaxExits
    /\ exits' = exits + 1
    /\ Leave(w, "down")
    /\ locked' = [locked EXCEPT ![w] = {}]
    /\ toFail' = [toFail EXCEPT ![w] = {}]
    /\ UNCHANGED <<commandVars, leaseExpired>>

-----------------------------------------------------------------------------
Command ==
    \E r \in Runs, d \in Ranges :
        \/ CreateScheduled(r, d)
        \/ CreateRetry(r, d)
        \/ \E c \in Clients : CheckManual(c, d) \/ CommitManual(c, r)

WorkerStep(w) ==
    \/ RecoverBegin(w) \/ RecoverCommit(w)
    \/ \E r \in Runs : ClaimNext(w, r)
    \/ Beat(w)
    \/ \E s \in Series : LoadScope(w, s)
    \/ LockScope(w)
    \/ StartScope(w) \/ StartRefused(w) \/ SkipScope(w) \/ RejectScope(w)
    \/ FetchEnds(w) \/ ProcessFails(w) \/ CompleteScope(w) \/ FailScope(w)
    \/ Finalize(w)

Next ==
    \/ Command
    \/ \E w \in Workers : WorkerStep(w) \/ BackgroundBeat(w) \/ Crash(w)
    \/ \E r \in Runs : LeaseExpires(r)

Spec == Init /\ [][Next]_vars

\* Worker processes are restarted by their supervisor and keep taking steps;
\* PostgreSQL grants a contended advisory lock in the order of the requests;
\* time passes.  Commands, crashes and errors are never forced.
Fairness ==
    /\ \A w \in Workers : WF_vars(WorkerStep(w)) /\ SF_vars(LockScope(w))
    /\ \A r \in Runs : WF_vars(LeaseExpires(r))

FairSpec == Spec /\ Fairness

-----------------------------------------------------------------------------
(***************************************************************************)
(* Properties.                                                             *)
(***************************************************************************)
Works(w) == pc[w] \in {"fetching", "processing"}

ShareADay(q, r) == \E day \in range[q].start..range[q].end : day \in range[r].start..range[r].end

\* Overlapping scopes of one series are never fetched and persisted at the
\* same time by two workers.
NoConcurrentProcessing ==
    \A v, w \in Workers :
        v # w /\ Works(v) /\ Works(w) /\ scope[v] = scope[w]
            => ~ShareADay(claimed[v], claimed[w])

\* Run m was requested by hand and has a scope of series s.
Manual(m, s) == trigger[m] = "manual" /\ scopeStatus[m][s] # "absent"

\* Scheduled and retried scopes that give way to one another do not all give
\* way: however runs skip in favour of runs that skip later, skipped scopes of
\* a series that overlap no manual run overlap another one that was not
\* skipped and that no worker rejects.
SkipsSpareOne ==
    \A s \in Series : \A G \in SUBSET {r \in Runs : scopeStatus[r][s] = "skipped_conflict"} :
        (/\ G # {}
         /\ \A m \in Runs, r \in G : Manual(m, s) => ~ShareADay(m, r))
            => \E q \in Runs \ G, r \in G :
                    scopeStatus[q][s] # "absent" /\ ~Manual(q, s) /\ ShareADay(q, r)

\* Two overlapping manual runs are never active together: the second request
\* is answered 409 however the requests interleave.
ManualRunsExclusive ==
    \A q, r \in Runs, s \in Series :
        (/\ q # r /\ trigger[q] = "manual" /\ trigger[r] = "manual"
         /\ scopeStatus[q][s] \in ActiveScope /\ scopeStatus[r][s] \in ActiveScope)
            => ~ShareADay(q, r)

\* A terminal run has no active scope, and its status never claims more than
\* was ingested, whether its own worker or a recovering one ended it: succeeded
\* means everything, partially_succeeded something.  Where no worker has died,
\* failed means nothing; of a run that was recovered it may mean less.
TerminalStatusIsHonest ==
    \A r \in Runs : runStatus[r] \in TerminalRun =>
        LET ingested == {s \in Series : scopeStatus[r][s] = "succeeded"}
        IN  /\ AllScopesTerminal(r)
            /\ runStatus[r] = "succeeded" => ingested = Series
            /\ runStatus[r] = "partially_succeeded" => ingested \notin {{}, Series}
            /\ runStatus[r] = "failed" /\ exits = 0 => ingested = {}

\* What became of a scope stays, as long as leases outlive the silence of live
\* workers: neither recovery nor a worker that decides on the status its session
\* loaded earlier makes an ended scope active or ends it differently.
EndedScopesAreFinal ==
    [][\A r \in Runs, s \in Series :
        scopeStatus[r][s] \notin ActiveScope \cup {"absent"} =>
            scopeStatus'[r][s] = scopeStatus[r][s]]_vars

\* At most one live worker executes a run, and it is never one that another
\* worker could still claim.
RunHasOneWorker ==
    /\ \A v, w \in Workers : claimed[v] = claimed[w] /\ claimed[v] # 0 => v = w
    /\ \A w \in Workers : claimed[w] # 0 => runStatus[claimed[w]] \notin {"absent", "pending"}

\* A run that reached a terminal status keeps it, even while a worker that
\* lost its lease still executes it.
TerminalRunsAreFinal ==
    [][\A r \in Runs : runStatus[r] \in TerminalRun => runStatus'[r] = runStatus[r]]_vars

Abandoned(r) == runStatus[r] = "running" /\ ~Owned(r)

\* A worker lets go of a run only when it has ended: whatever happens to its
\* scopes or its lease, only the death of the process abandons a run.
OnlyExitsAbandonRuns ==
    [][\A w \in Workers :
        claimed[w] # 0 /\ claimed'[w] = 0 =>
            runStatus'[claimed[w]] \in TerminalRun \/ exits' > exits]_vars

\* A created run ends, unless a worker died with it in hand.
RunsEndOrAreAbandoned ==
    \A r \in Runs :
        runStatus[r] = "pending" ~> (runStatus[r] \in TerminalRun \/ Abandoned(r))

\* An expired run without a worker ends once a worker process starts.
StartupRecoversExpired ==
    \A r \in Runs :
        (Abandoned(r) /\ leaseExpired[r] /\ \E w \in Workers : pc[w] = "down")
            ~> runStatus[r] \in TerminalRun

(***************************************************************************)
(* What the documentation says, and the code does not do.                  *)
(***************************************************************************)
\* "recovery marks abandoned runs failed after a configured lease expires"
AbandonedRunsEnd == \A r \in Runs : Abandoned(r) ~> runStatus[r] \in TerminalRun

\* A run whose lease expired is "marked failed": recovery "never assumes the
\* old run succeeded".
RecoveredRunsAreFailed ==
    [][\A w \in Workers : \A r \in locked[w] :
        runStatus'[r] # runStatus[r] => runStatus'[r] = "failed"]_vars
=============================================================================
