----------------------------- MODULE Scheduling -----------------------------
(***************************************************************************)
(* The scheduler of one provider dataset: SchedulerPlanner,                *)
(* DatabaseCommandSink (src/app/application/scheduling.py) and the polling *)
(* loop (src/app/scheduler.py), together with the runs they create, the    *)
(* runs other callers request, and the provider that publishes.            *)
(*                                                                         *)
(* A poll is one transaction: it plans the latest due window, looks for a  *)
(* run that covers it and inserts a pending run.  What it looked at can    *)
(* have changed when it commits.  Workers appear by what they do to a run: *)
(* each of its scopes ends once; see RunLifecycle for how.                 *)
(***************************************************************************)
EXTENDS PublicationCalendar, FiniteSets, Sequences

CONSTANTS
    Series,       \* enabled series of the dataset
    Schedulers,   \* scheduler processes
    Requests,     \* [start, end, series] of the runs other callers ask for
    NoWindow,     \* no publication is due, or no run is planned
    MaxClock,     \* bound on time
    MaxRuns,      \* bound on the number of runs
    MaxFailures,  \* bound on the scopes that fail or are skipped
    MaxRequests   \* bound on the runs of other callers

Window == [start : Int, end : Int]

ASSUME SchedulingAssumption ==
    /\ Series # {}
    /\ Requests \subseteq [start : Int, end : Int, series : SUBSET Series]
    /\ NoWindow \notin Window
    /\ \A p \in Policies : p.from * TicksPerDay <= MaxClock
    /\ {MaxClock, MaxRuns, MaxFailures, MaxRequests} \subseteq Nat

VARIABLES
    policy,     \* the configured policy
    clock,      \* now
    published,  \* dates the provider has published
    runs,       \* ingestion_run rows with their scopes, oldest first
    stored,     \* series and dates with a current observation
    plan,       \* window each scheduler found uncovered, in its open transaction
    planAt,     \* evaluated_at of that transaction
    polled      \* evaluated_at of the latest committed poll; before clock until there is one

vars == <<policy, clock, published, runs, stored, plan, planAt, polled>>

\* Dates the calendar of the model reaches.
Dates == policy.from..DayOf(MaxClock)

Scopes == [Series -> {"absent", "pending", "succeeded", "failed"}]

Run == [trigger : {"scheduled", "requested"}, start : Int, end : Int, scopes : Scopes]

PublicationTypeOK ==
    /\ policy \in Policies
    /\ clock \in 0..MaxClock
    /\ published \subseteq Dates
    /\ runs \in Seq(Run) /\ Len(runs) <= MaxRuns
    /\ stored \subseteq Series \X Dates
    /\ plan \in [Schedulers -> Window \cup {NoWindow}]
    /\ planAt \in [Schedulers -> 0..MaxClock]
    /\ polled \in -1..MaxClock

\* What a provider that is never later than the grace period allows has
\* published by t.
Promised(t) ==
    {d \in Expected(policy, policy.from, DayOf(t)) :
        HasRelease(policy, d) /\ PublicationOf(policy, d) + policy.grace <= t}

\* The policy has just come into force, before that due_commands raises; the
\* provider is punctual from the start, and nothing has been polled for.
Init ==
    /\ policy \in Policies
    /\ clock = policy.from * TicksPerDay
    /\ published = Promised(clock)
    /\ runs = <<>>
    /\ stored = {}
    /\ plan = [s \in Schedulers |-> NoWindow]
    /\ planAt = [s \in Schedulers |-> 0]
    /\ polled = clock - 1

-----------------------------------------------------------------------------
(***************************************************************************)
(* Runs.  derive_status only asks which scopes succeeded.                  *)
(***************************************************************************)
ScopesIn(r, status) == {s \in Series : runs[r].scopes[s] = status}

Active(r) == ScopesIn(r, "pending") # {}

Succeeded(r) == ScopesIn(r, "succeeded") # {} /\ ScopesIn(r, "pending") \cup ScopesIn(r, "failed") = {}

Failures == Cardinality({x \in (DOMAIN runs) \X Series : runs[x[1]].scopes[x[2]] = "failed"})

Requested == {r \in DOMAIN runs : runs[r].trigger = "requested"}

Dated(r) == runs[r].start..runs[r].end

\* RunManager.create: a pending run with a pending scope per asked series.
AddRun(trigger, window, asked) ==
    /\ Len(runs) < MaxRuns
    /\ runs' = Append(runs, [trigger |-> trigger, start |-> window.start, end |-> window.end,
                  scopes |-> [s \in Series |-> IF s \in asked THEN "pending" ELSE "absent"]])

-----------------------------------------------------------------------------
(***************************************************************************)
(* SchedulerPlanner and DatabaseCommandSink.                               *)
(***************************************************************************)
SearchStart(p, t) == Max({p.from, DayOf(t) - 14})

\* due_commands answers; otherwise it raises and ends the process.
Plannable(t) == Answerable(policy, SearchStart(policy, t), DayOf(t))

\* Faulty variant: a weekly window stops short of the release before it.
WindowStartShort(p, date) == IF p.weekly THEN date - 5 ELSE date

\* Weekly publication releases the daily observations through its release date.
WindowStart(p, date) == IF p.weekly THEN date - 6 ELSE date

\* The latest publication of p that is due at t, as the range of a command.
LatestDue ==
    [p \in Policies |-> [t \in 0..(MaxClock + 1) |->
        LET due == Due(p, SearchStart(p, t), DayOf(t), t)
            latest == Max({DueAt(p, d) : d \in due})
            date == Max({d \in due : DueAt(p, d) = latest})
        IN  IF due = {} THEN NoWindow ELSE [start |-> WindowStart(p, date), end |-> date]]]

WindowDue(t) == LatestDue[policy][t]

\* Faulty variants: only active runs count; failed runs count as well.
DuplicateActive(r, w) == Active(r) /\ runs[r].start <= w.start /\ runs[r].end >= w.end

\* A pending, running or succeeded run over the range; its series are not looked at.
Duplicate(r, w) ==
    /\ Active(r) \/ Succeeded(r)
    /\ runs[r].start <= w.start
    /\ runs[r].end >= w.end

Idle(s) == plan[s] = NoWindow /\ Plannable(clock)

\* Nothing is due, or a run already covers what is: the transaction changes nothing.
PollQuietly(s) ==
    LET w == WindowDue(clock)
    IN  /\ Idle(s)
        /\ w # NoWindow => \E r \in DOMAIN runs : Duplicate(r, w)
        /\ polled' = clock
        /\ UNCHANGED <<policy, clock, published, runs, stored, plan, planAt>>

PollDue(s) ==
    LET w == WindowDue(clock)
    IN  /\ Idle(s)
        /\ w # NoWindow
        /\ \A r \in DOMAIN runs : ~Duplicate(r, w)
        /\ plan' = [plan EXCEPT ![s] = w]
        /\ planAt' = [planAt EXCEPT ![s] = clock]
        /\ UNCHANGED <<policy, clock, published, runs, stored, polled>>

Planned(s) == plan[s] # NoWindow

CloseTransaction(s) ==
    /\ plan' = [plan EXCEPT ![s] = NoWindow]
    /\ planAt' = [planAt EXCEPT ![s] = 0]

\* The pending run becomes visible.
CommitRun(s) ==
    /\ Planned(s)
    /\ AddRun("scheduled", plan[s], Series)
    /\ polled' = Max({polled, planAt[s]})
    /\ CloseTransaction(s)
    /\ UNCHANGED <<policy, clock, published, stored>>

\* The process dies, or the other dataset's command fails, before the commit.
LosePlan(s) ==
    /\ Planned(s)
    /\ CloseTransaction(s)
    /\ UNCHANGED <<policy, clock, published, runs, stored, polled>>

-----------------------------------------------------------------------------
(***************************************************************************)
(* Other callers, workers, the provider and time.                          *)
(***************************************************************************)
\* A manual, backfill or retry command for some or all series.
RequestRun(q) ==
    /\ Cardinality(Requested) < MaxRequests
    /\ AddRun("requested", q, q.series)
    /\ UNCHANGED <<policy, clock, published, stored, plan, planAt, polled>>

EndScope(r, s, status) == runs' = [runs EXCEPT ![r].scopes[s] = status]

\* What the provider has published of the range is persisted.
ScopeSucceeds(r, s) ==
    /\ runs[r].scopes[s] = "pending"
    /\ EndScope(r, s, "succeeded")
    /\ stored' = stored \cup ({s} \X (published \cap Dated(r)))
    /\ UNCHANGED <<policy, clock, published, plan, planAt, polled>>

\* The scope fails, is skipped on a conflict, or its worker is lost.
ScopeFails(r, s) ==
    /\ Failures < MaxFailures
    /\ runs[r].scopes[s] = "pending"
    /\ EndScope(r, s, "failed")
    /\ UNCHANGED <<policy, clock, published, stored, plan, planAt, polled>>

\* The provider publishes the observations it releases on day c.
Publish(c) ==
    LET batch == {d \in Expected(policy, policy.from, c) :
                    HasRelease(policy, d) /\ ReleaseDate[policy][d] = c}
    IN  /\ c * TicksPerDay + policy.publication <= clock
        /\ ~(batch \subseteq published)
        /\ published' = published \cup batch
        /\ UNCHANGED <<policy, clock, runs, stored, plan, planAt, polled>>

ProviderPunctual(t) == Promised(t) \subseteq published

\* Polls are frequent: the window that is due is polled for before another is.
WindowPolled(t) ==
    WindowDue(t) \notin {NoWindow, WindowDue(t + 1)} => DueAt(policy, WindowDue(t).end) <= polled

\* The bound on runs leaves room for the next window, the plans in hand and
\* whatever may still fail or be requested.
RunsLeft ==
    Len(runs) + Cardinality({s \in Schedulers : plan[s] # NoWindow})
        + (MaxFailures - Failures) + (MaxRequests - Cardinality(Requested)) < MaxRuns

Tick ==
    /\ clock < MaxClock
    /\ ProviderPunctual(clock + 1)
    /\ Plannable(clock + 1)
    /\ WindowPolled(clock)
    /\ WindowDue(clock + 1) # WindowDue(clock) => RunsLeft
    /\ clock' = clock + 1
    /\ UNCHANGED <<policy, published, runs, stored, plan, planAt, polled>>

Next ==
    \/ Tick
    \/ \E c \in Dates : Publish(c)
    \/ \E q \in Requests : RequestRun(q)
    \/ \E s \in Schedulers : PollQuietly(s) \/ PollDue(s) \/ CommitRun(s) \/ LosePlan(s)
    \/ \E r \in DOMAIN runs, s \in Series : ScopeSucceeds(r, s) \/ ScopeFails(r, s)

Spec == Init /\ [][Next]_vars

\* The scheduler keeps polling and does not die in every transaction; workers
\* end the scopes of a run.  Time need not pass.
FairSpec ==
    /\ Spec
    /\ \A s \in Schedulers : WF_vars(PollDue(s)) /\ SF_vars(CommitRun(s))
    /\ \A r \in 1..MaxRuns, s \in Series :
        WF_vars(r \in DOMAIN runs /\ (ScopeSucceeds(r, s) \/ ScopeFails(r, s)))

-----------------------------------------------------------------------------
(***************************************************************************)
(* Properties.                                                             *)
(***************************************************************************)
\* What the next property asks of the policies.  When a date falls due, the
\* planner's search of two weeks still reaches it; and dates that are released
\* together fit into one window.
ReleasedDates(p) == {d \in p.from..p.to : IsBusinessDay(p, d) /\ HasRelease(p, d)}

SearchReachesDue ==
    \A p \in Policies : \A d \in ReleasedDates(p) : DayOf(DueAt(p, d)) - 14 <= d

BatchesFitWindow ==
    \A p \in Policies : \A d, e \in ReleasedDates(p) :
        ReleaseDate[p][d] = ReleaseDate[p][e] /\ d <= e => WindowStart(p, e) <= d

\* Policies that meet both, like those of src/config/reference-data.yaml: a daily
\* one that is due an hour after its publication, and a weekly one that is due a
\* day and a half into the release day of a calendar without holidays.
Ordinary(p) ==
    /\ p.publication + p.grace < (IF p.weekly THEN 9 ELSE 15) * TicksPerDay
    /\ p.weekly => /\ p.releaseWeekdays \cap p.weekend = {}
                   /\ \A h \in p.holidays : Weekday(h) \notin p.releaseWeekdays

\* No publication is overlooked: by the time a poll has seen a date become due,
\* some run has asked for it, although the planner only ever looks at the latest
\* window, polls fail, and other callers' runs suppress scheduled ones.
DueDatesAreRequested ==
    \A d \in Due(policy, policy.from, DayOf(polled), polled) :
        \E r \in DOMAIN runs : d \in Dated(r)

\* A scheduled run is created late enough and wide enough: once it has
\* succeeded, each expected date of its window is stored for every series.
ScheduledSuccessIsComplete ==
    \A r \in DOMAIN runs : runs[r].trigger = "scheduled" /\ Succeeded(r) =>
        Series \X Expected(policy, runs[r].start, runs[r].end) \subseteq stored

\* One scheduler process is deployed; two may both insert a run of a window.
OneScheduler == \A p, q \in Schedulers : p = q

\* Duplicate triggers create no duplicate work: when a window is scheduled again,
\* every earlier run of that window has ended without success.
NoDuplicateWork ==
    \A q, r \in DOMAIN runs :
        (q < r /\ runs[q].trigger = "scheduled" /\ runs[r].trigger = "scheduled"
            /\ Dated(q) = Dated(r)) => ~Active(q) /\ ~Succeeded(q)


\* A poll that creates nothing although a window is due leaves no series behind:
\* an active or successful run covers the window for each of them
\* (docs/phase-1/detailed-designs.md:991, "the same effective scope").
SuppressedScopesAreCovered ==
    [][\A s \in Schedulers : PollQuietly(s) /\ WindowDue(clock) # NoWindow =>
        \A x \in Series : \E r \in DOMAIN runs :
            Duplicate(r, WindowDue(clock)) /\ runs[r].scopes[x] # "absent"]_vars
=============================================================================
