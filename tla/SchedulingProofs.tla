-------------------------- MODULE SchedulingProofs --------------------------
(***************************************************************************)
(* Proofs about Scheduling and QualityEvaluation, for every policy and     *)
(* calendar, every number of series, runs and requests.                    *)
(***************************************************************************)
EXTENDS QualityEvaluation, FiniteSetTheorems, TLAPS

-----------------------------------------------------------------------------
(***************************************************************************)
(* Least and greatest numbers, and days.                                   *)
(***************************************************************************)
LEMMA LeastNat ==
    ASSUME NEW S \in SUBSET Nat, S # {}
    PROVE  \E x \in S : \A y \in S : x <= y
<1>1. PICK x \in S : \A y \in S : ~(<<y, x>> \in OpToRel(<, Nat))
  BY NatLessThanWellFounded, WFMin
<1>2. \A y \in S : ~(y < x)
  BY <1>1 DEF OpToRel
<1> QED
  BY <1>2

LEMMA MinIsLeast ==
    ASSUME NEW b \in Int, NEW S, S # {}, \A y \in S : y \in Int /\ b <= y
    PROVE  Min(S) \in S /\ \A y \in S : Min(S) <= y
<1> DEFINE D == {n \in Nat : b + n \in S}
<1>1. PICK y \in S : TRUE
  OBVIOUS
<1>2. y - b \in D
  OBVIOUS
<1>3. PICK n \in D : \A m \in D : n <= m
  BY <1>2, LeastNat
<1>4. ASSUME NEW z \in S PROVE b + n <= z
  <2>1. z - b \in D
    OBVIOUS
  <2> QED
    BY <1>3, <2>1
<1> QED
  BY <1>4 DEF Min

LEMMA MaxIsGreatest ==
    ASSUME NEW b \in Int, NEW S, S # {}, \A y \in S : y \in Int /\ y <= b
    PROVE  Max(S) \in S /\ \A y \in S : y <= Max(S)
<1> DEFINE D == {n \in Nat : b - n \in S}
<1>1. PICK y \in S : TRUE
  OBVIOUS
<1>2. b - y \in D
  OBVIOUS
<1>3. PICK n \in D : \A m \in D : n <= m
  BY <1>2, LeastNat
<1>4. ASSUME NEW z \in S PROVE z <= b - n
  <2>1. b - z \in D
    OBVIOUS
  <2> QED
    BY <1>3, <2>1
<1> QED
  BY <1>4 DEF Max

LEMMA MaxOfTwo ==
    ASSUME NEW a \in Int, NEW b \in Int
    PROVE  Max({a, b}) = IF a >= b THEN a ELSE b
<1>1. Max({a, b}) \in {a, b} /\ \A y \in {a, b} : y <= Max({a, b})
  <2>1. \A y \in {a, b} : y <= IF a >= b THEN a ELSE b
    OBVIOUS
  <2> QED
    BY <2>1, MaxIsGreatest
<1> QED
  BY <1>1

LEMMA DayBounds ==
    ASSUME NEW t \in Int
    PROVE  /\ DayOf(t) \in Int
           /\ DayOf(t) * TicksPerDay <= t
           /\ t < (DayOf(t) + 1) * TicksPerDay
  BY CalendarAssumption DEF DayOf

LEMMA DayOfInstant ==
    ASSUME NEW t \in Int, NEW d \in Int
    PROVE  d * TicksPerDay <= t <=> d <= DayOf(t)
<1>1. \A a, b \in Int : a <= b => a * TicksPerDay <= b * TicksPerDay
  BY CalendarAssumption
<1>2. CASE d <= DayOf(t)
  <2>1. d * TicksPerDay <= DayOf(t) * TicksPerDay
    BY <1>1, <1>2, DayBounds
  <2>2. d * TicksPerDay \in Int /\ DayOf(t) * TicksPerDay \in Int
    BY CalendarAssumption, DayBounds
  <2> QED
    BY <1>2, <2>1, <2>2, DayBounds
<1>3. CASE ~(d <= DayOf(t))
  <2>1. (DayOf(t) + 1) * TicksPerDay <= d * TicksPerDay
    BY <1>1, <1>3, DayBounds
  <2>2. d * TicksPerDay \in Int /\ (DayOf(t) + 1) * TicksPerDay \in Int
    BY CalendarAssumption, DayBounds
  <2> QED
    BY <1>3, <2>1, <2>2, DayBounds
<1> QED
  BY <1>2, <1>3

LEMMA DayMonotone ==
    ASSUME NEW t \in Int, NEW u \in Int, t <= u
    PROVE  DayOf(t) <= DayOf(u)
  BY DayBounds, DayOfInstant, CalendarAssumption

LEMMA DaySteps ==
    ASSUME NEW t \in Int
    PROVE  DayOf(t + 1) <= DayOf(t) + 1
  BY DayBounds, DayOfInstant, CalendarAssumption

LEMMA FirstDay ==
    ASSUME NEW d \in Int
    PROVE  d * TicksPerDay \in Int /\ DayOf(d * TicksPerDay) = d
<1>1. d * TicksPerDay \in Int /\ (d + 1) * TicksPerDay \in Int
  BY CalendarAssumption
<1>2. d <= DayOf(d * TicksPerDay)
  BY <1>1, DayOfInstant
<1>3. ~(d + 1 <= DayOf(d * TicksPerDay))
  <2>1. (d + 1) * TicksPerDay > d * TicksPerDay
    BY CalendarAssumption
  <2> QED
    BY <1>1, <2>1, DayOfInstant
<1> QED
  BY <1>1, <1>2, <1>3, DayBounds

-----------------------------------------------------------------------------
(***************************************************************************)
(* Release days and due instants.                                          *)
(***************************************************************************)
\* A date for which the policy has an answer.
Answered(p, d) == d \in p.from..p.to /\ HasRelease(p, d)

LEMMA PolicyTypes ==
    ASSUME NEW p \in Policies
    PROVE  /\ p.from \in Nat /\ p.to \in Nat /\ p.publication \in Nat /\ p.grace \in Nat
           /\ p.weekly \in BOOLEAN
  BY CalendarAssumption DEF Policy

LEMMA ReleaseFacts ==
    ASSUME NEW p \in Policies, NEW d, Answered(p, d)
    PROVE  /\ d \in Int
           /\ ReleaseDate[p][d] \in Int
           /\ d <= ReleaseDate[p][d] /\ ReleaseDate[p][d] <= d + 13
           /\ ~p.weekly => ReleaseDate[p][d] = d
           /\ p.weekly => /\ ReleaseDate[p][d] \in ReleaseDays(p, d)
                          /\ \A c \in ReleaseDays(p, d) : ReleaseDate[p][d] <= c
<1>1. d \in Int
  BY PolicyTypes DEF Answered
<1>2. ReleaseDate[p][d] = IF p.weekly THEN Min(ReleaseDays(p, d)) ELSE d
  BY DEF ReleaseDate, Answered
<1>3. \A c \in ReleaseDays(p, d) : c \in Int /\ d <= c /\ c <= d + 13
  BY <1>1 DEF ReleaseDays
<1>4. CASE p.weekly
  <2>1. ReleaseDays(p, d) # {}
    BY <1>4 DEF Answered, HasRelease
  <2>2. /\ Min(ReleaseDays(p, d)) \in ReleaseDays(p, d)
        /\ \A c \in ReleaseDays(p, d) : Min(ReleaseDays(p, d)) <= c
    BY <1>1, <1>3, <2>1, MinIsLeast
  <2> QED
    BY <1>1, <1>2, <1>3, <1>4, <2>2
<1>5. CASE ~p.weekly
  BY <1>1, <1>2, <1>5
<1> QED
  BY <1>4, <1>5

LEMMA ReleaseMonotone ==
    ASSUME NEW p \in Policies, NEW d, NEW e, Answered(p, d), Answered(p, e), d <= e
    PROVE  ReleaseDate[p][d] <= ReleaseDate[p][e]
<1>1. CASE p.weekly /\ ReleaseDate[p][e] <= d + 13
  <2>1. ReleaseDate[p][e] \in ReleaseDays(p, e)
    BY <1>1, ReleaseFacts
  <2>2. ReleaseDate[p][e] \in ReleaseDays(p, d)
    BY <1>1, <2>1, ReleaseFacts DEF ReleaseDays
  <2> QED
    BY <1>1, <2>2, ReleaseFacts
<1>2. CASE p.weekly /\ ~(ReleaseDate[p][e] <= d + 13)
  BY <1>2, ReleaseFacts
<1>3. CASE ~p.weekly
  BY <1>3, ReleaseFacts
<1> QED
  BY <1>1, <1>2, <1>3

\* A date is due no earlier than it begins, and later dates are due later.
LEMMA DueFacts ==
    ASSUME NEW p \in Policies, NEW d, Answered(p, d)
    PROVE  /\ DueAt(p, d) \in Int
           /\ d * TicksPerDay <= DueAt(p, d)
           /\ DueAt(p, d) = PublicationOf(p, d) + p.grace
<1> DEFINE r == ReleaseDate[p][d]
<1>1. d \in Int /\ r \in Int /\ d <= r
  BY ReleaseFacts
<1>2. d * TicksPerDay \in Int /\ r * TicksPerDay \in Int /\ d * TicksPerDay <= r * TicksPerDay
  BY <1>1, CalendarAssumption
<1>3. DueAt(p, d) = r * TicksPerDay + p.publication + p.grace
  BY DEF DueAt, PublicationOf
<1> QED
  BY <1>1, <1>2, <1>3, PolicyTypes DEF DueAt

LEMMA DueMonotone ==
    ASSUME NEW p \in Policies, NEW d, NEW e, Answered(p, d), Answered(p, e), d <= e
    PROVE  /\ DueAt(p, d) <= DueAt(p, e)
           /\ DueAt(p, d) = DueAt(p, e) => ReleaseDate[p][d] = ReleaseDate[p][e]
<1> DEFINE r == ReleaseDate[p][d]
           q == ReleaseDate[p][e]
<1>1. r \in Int /\ q \in Int /\ r <= q
  BY ReleaseFacts, ReleaseMonotone
<1>2. /\ r * TicksPerDay \in Int /\ q * TicksPerDay \in Int /\ r * TicksPerDay <= q * TicksPerDay
      /\ r < q => r * TicksPerDay < q * TicksPerDay
  BY <1>1, CalendarAssumption
<1>3. /\ DueAt(p, d) = r * TicksPerDay + p.publication + p.grace
      /\ DueAt(p, e) = q * TicksPerDay + p.publication + p.grace
  BY DEF DueAt, PublicationOf
<1> QED
  BY <1>1, <1>2, <1>3, PolicyTypes

-----------------------------------------------------------------------------
(***************************************************************************)
(* The planner: the latest due window holds the last due date.             *)
(***************************************************************************)
LEMMA ExpectedFacts ==
    ASSUME NEW p \in Policies, NEW a \in Int, NEW b \in Int, NEW d \in Expected(p, a, b)
    PROVE  d \in Int /\ a <= d /\ d <= b /\ d \in p.from..p.to
  BY PolicyTypes DEF Expected, AppliesOn

LEMMA SearchStartFacts ==
    ASSUME NEW p \in Policies, NEW t \in Int
    PROVE  SearchStart(p, t) = IF p.from >= DayOf(t) - 14 THEN p.from ELSE DayOf(t) - 14
  BY MaxOfTwo, PolicyTypes, DayBounds DEF SearchStart

\* What the planner looks at.
Candidates(p, t) == Due(p, SearchStart(p, t), DayOf(t), t)

LEMMA CandidateFacts ==
    ASSUME NEW p \in Policies, NEW t \in Int, Answerable(p, SearchStart(p, t), DayOf(t)),
           NEW d \in Candidates(p, t)
    PROVE  Answered(p, d) /\ d \in Int /\ d <= DayOf(t) /\ SearchStart(p, t) <= d /\ DueAt(p, d) <= t
<1>1. SearchStart(p, t) \in Int /\ DayOf(t) \in Int
  BY SearchStartFacts, PolicyTypes, DayBounds
<1>2. d \in Expected(p, SearchStart(p, t), DayOf(t)) /\ DueAt(p, d) <= t
  BY DEF Candidates, Due
<1> QED
  BY <1>1, <1>2, ExpectedFacts DEF Answered, Answerable

LEMMA LatestDueFacts ==
    ASSUME NEW p \in Policies, NEW t \in 0..(MaxClock + 1),
           Answerable(p, SearchStart(p, t), DayOf(t))
    PROVE  /\ LatestDue[p][t] = NoWindow <=> Candidates(p, t) = {}
           /\ LatestDue[p][t] # NoWindow =>
                /\ LatestDue[p][t] \in Window
                /\ LatestDue[p][t].end \in Candidates(p, t)
                /\ \A d \in Candidates(p, t) : d <= LatestDue[p][t].end
                /\ LatestDue[p][t].start = WindowStart(p, LatestDue[p][t].end)
<1> DEFINE due == Candidates(p, t)
           latest == Max({DueAt(p, d) : d \in due})
           last == {d \in due : DueAt(p, d) = latest}
           date == Max(last)
<1>1. LatestDue[p][t] = IF due = {} THEN NoWindow ELSE [start |-> WindowStart(p, date), end |-> date]
  BY DEF LatestDue, Candidates
<1>2. CASE due = {}
  BY <1>1, <1>2
<1>3. CASE due # {}
  <2>1. t \in Int
    BY SchedulingAssumption
  <2>2. \A d \in due : Answered(p, d) /\ d \in Int /\ DueAt(p, d) \in Int /\ DueAt(p, d) <= t /\ d <= DayOf(t)
    BY <2>1, CandidateFacts, DueFacts
  <2>3. /\ latest \in {DueAt(p, d) : d \in due}
        /\ \A d \in due : DueAt(p, d) <= latest
    <3> DEFINE S == {DueAt(p, d) : d \in due}
    <3>1. S # {} /\ \A y \in S : y \in Int /\ y <= t
      BY <1>3, <2>2
    <3>2. Max(S) \in S /\ \A y \in S : y <= Max(S)
      <4> HIDE DEF S
      <4> QED
        BY <2>1, <3>1, MaxIsGreatest
    <3> QED
      BY <3>2
  <2>4. last # {} /\ \A d \in last : d \in Int /\ d <= DayOf(t)
    BY <2>2, <2>3
  <2>5. date \in last /\ \A d \in last : d <= date
    <3> HIDE DEF last
    <3> QED
      BY <2>1, <2>4, MaxIsGreatest, DayBounds
  <2>6. ASSUME NEW d \in due PROVE d <= date
    <3>1. CASE d <= date
      BY <3>1
    <3>2. CASE date <= d
      <4>1. DueAt(p, date) = latest /\ DueAt(p, date) <= DueAt(p, d) /\ DueAt(p, d) <= latest
        BY <2>2, <2>3, <2>5, <3>2, DueMonotone
      <4>2. DueAt(p, d) = latest
        BY <2>2, <2>5, <4>1
      <4> QED
        BY <2>5, <4>2
    <3> QED
      BY <2>2, <2>5, <3>1, <3>2
  <2>7. date \in due /\ date \in Int /\ WindowStart(p, date) \in Int
    BY <2>2, <2>5 DEF WindowStart
  <2>8. LatestDue[p][t] = [start |-> WindowStart(p, date), end |-> date]
    BY <1>1, <1>3
  <2> HIDE DEF due, date
  <2>9. LatestDue[p][t] \in Window /\ LatestDue[p][t].end = date /\ LatestDue[p][t].start = WindowStart(p, date)
    BY <2>7, <2>8 DEF Window
  <2>10. LatestDue[p][t] # NoWindow
    BY <2>9, SchedulingAssumption
  <2> QED
    BY <1>3, <2>6, <2>7, <2>9, <2>10 DEF due
<1> QED
  BY <1>2, <1>3

-----------------------------------------------------------------------------
(***************************************************************************)
(* Types.                                                                  *)
(***************************************************************************)
LEMMA AddRunFacts ==
    ASSUME runs \in Seq(Run), NEW trigger \in {"scheduled", "requested"}, NEW window,
           window.start \in Int, window.end \in Int,
           NEW asked \in SUBSET Series, AddRun(trigger, window, asked)
    PROVE  /\ runs' \in Seq(Run) /\ Len(runs') <= MaxRuns
           /\ DOMAIN runs' = DOMAIN runs \cup {Len(runs) + 1}
           /\ Len(runs) + 1 \notin DOMAIN runs
           /\ \A r \in DOMAIN runs : runs'[r] = runs[r] /\ r < Len(runs) + 1
           /\ runs'[Len(runs) + 1].trigger = trigger
           /\ runs'[Len(runs) + 1].start = window.start
           /\ runs'[Len(runs) + 1].end = window.end
           /\ runs'[Len(runs) + 1].scopes =
                [s \in Series |-> IF s \in asked THEN "pending" ELSE "absent"]
<1> DEFINE new == [trigger |-> trigger, start |-> window.start, end |-> window.end,
                   scopes |-> [s \in Series |-> IF s \in asked THEN "pending" ELSE "absent"]]
<1>1. new \in Run
  BY DEF Run, Scopes
<1>2. runs' = Append(runs, new) /\ Len(runs) < MaxRuns
  BY DEF AddRun
<1>3. Len(runs) \in Nat /\ DOMAIN runs = 1..Len(runs) /\ MaxRuns \in Nat
  BY SchedulingAssumption
<1>4. /\ runs' \in Seq(Run) /\ Len(runs') = Len(runs) + 1
      /\ \A r \in 1..Len(runs) : runs'[r] = runs[r]
      /\ runs'[Len(runs) + 1] = new
  <2> HIDE DEF new
  <2> QED
    BY <1>1, <1>2
<1>5. DOMAIN runs' = 1..(Len(runs) + 1)
  BY <1>3, <1>4
<1> QED
  BY <1>2, <1>3, <1>4, <1>5

LEMMA EndScopeFacts ==
    ASSUME runs \in Seq(Run), NEW r \in DOMAIN runs, NEW s \in Series,
           NEW status \in {"succeeded", "failed"}, EndScope(r, s, status)
    PROVE  /\ runs' \in Seq(Run) /\ Len(runs') = Len(runs) /\ DOMAIN runs' = DOMAIN runs
           /\ \A q \in DOMAIN runs :
                /\ runs'[q].trigger = runs[q].trigger
                /\ runs'[q].start = runs[q].start /\ runs'[q].end = runs[q].end
                /\ \A x \in Series : runs'[q].scopes[x] =
                        IF q = r /\ x = s THEN status ELSE runs[q].scopes[x]
<1>1. runs[r] \in Run
  OBVIOUS
<1> DEFINE new == [runs[r] EXCEPT !.scopes[s] = status]
<1>2. /\ new \in Run
      /\ new.trigger = runs[r].trigger /\ new.start = runs[r].start /\ new.end = runs[r].end
      /\ \A x \in Series : new.scopes[x] = IF x = s THEN status ELSE runs[r].scopes[x]
  BY <1>1 DEF Run, Scopes
<1>3. runs' = [runs EXCEPT ![r] = new]
  BY DEF EndScope
<1> HIDE DEF new
<1> QED
  BY <1>2, <1>3

LEMMA InitType == Init => PublicationTypeOK
<1> SUFFICES ASSUME Init PROVE PublicationTypeOK
  OBVIOUS
<1>1. policy \in Policies /\ policy.from \in Nat /\ MaxClock \in Nat /\ MaxRuns \in Nat
  BY PolicyTypes, SchedulingAssumption DEF Init
<1>2. clock \in 0..MaxClock
  <2>1. policy.from * TicksPerDay \in Nat
    BY <1>1, CalendarAssumption
  <2>2. policy.from * TicksPerDay <= MaxClock
    BY <1>1, SchedulingAssumption
  <2> QED
    BY <1>1, <2>1, <2>2 DEF Init
<1>3. published \subseteq Dates
  <2>1. DayOf(clock) <= DayOf(MaxClock) /\ DayOf(clock) \in Int /\ DayOf(MaxClock) \in Int
    BY <1>1, <1>2, DayMonotone, DayBounds
  <2>2. ASSUME NEW d \in published PROVE d \in Int /\ policy.from <= d /\ d <= DayOf(clock)
    <3>1. d \in Expected(policy, policy.from, DayOf(clock))
      BY DEF Init, Promised
    <3> QED
      BY <1>1, <2>1, <3>1, ExpectedFacts
  <2> QED
    BY <1>1, <2>1, <2>2 DEF Dates
<1> QED
  BY <1>1, <1>2, <1>3 DEF Init, PublicationTypeOK

LEMMA TypeFacts ==
    ASSUME PublicationTypeOK
    PROVE  /\ policy.from \in Nat /\ clock \in Int /\ DayOf(clock) \in Int
           /\ clock \in 0..(MaxClock + 1) /\ MaxClock \in Nat /\ MaxRuns \in Nat
  BY PolicyTypes, DayBounds, SchedulingAssumption DEF PublicationTypeOK

\* What an uncommitted poll has planned.
LEMMA PollDueFacts ==
    ASSUME PublicationTypeOK, NEW s \in Schedulers, PollDue(s)
    PROVE  /\ WindowDue(clock) \in Window
           /\ plan'[s] = WindowDue(clock) /\ planAt'[s] = clock
           /\ \A x \in Schedulers \ {s} : plan'[x] = plan[x] /\ planAt'[x] = planAt[x]
           /\ UNCHANGED <<policy, clock, published, runs, stored, polled>>
           /\ plan' \in [Schedulers -> Window \cup {NoWindow}]
           /\ planAt' \in [Schedulers -> 0..MaxClock]
<1>1. WindowDue(clock) \in Window
  BY LatestDueFacts, TypeFacts DEF PollDue, Idle, Plannable, WindowDue, PublicationTypeOK
<1> QED
  BY <1>1 DEF PollDue, PublicationTypeOK

LEMMA CloseFacts ==
    ASSUME PublicationTypeOK, NEW s \in Schedulers, CloseTransaction(s)
    PROVE  /\ plan' \in [Schedulers -> Window \cup {NoWindow}]
           /\ planAt' \in [Schedulers -> 0..MaxClock]
           /\ plan'[s] = NoWindow
           /\ \A x \in Schedulers \ {s} : plan'[x] = plan[x] /\ planAt'[x] = planAt[x]
  BY TypeFacts DEF CloseTransaction, PublicationTypeOK

LEMMA CommitRunFacts ==
    ASSUME PublicationTypeOK, NEW s \in Schedulers, CommitRun(s)
    PROVE  /\ plan[s] \in Window /\ plan[s].start \in Int /\ plan[s].end \in Int
           /\ polled' = IF polled >= planAt[s] THEN polled ELSE planAt[s]
           /\ planAt[s] \in 0..MaxClock /\ polled \in Int
<1>1. plan[s] \in Window /\ planAt[s] \in Int /\ polled \in Int
  BY TypeFacts DEF CommitRun, Planned, PublicationTypeOK
<1>2. Max({polled, planAt[s]}) = IF polled >= planAt[s] THEN polled ELSE planAt[s]
  BY <1>1, MaxOfTwo
<1> QED
  BY <1>1, <1>2 DEF CommitRun, Window, PublicationTypeOK

LEMMA ScopeSucceedsFacts ==
    ASSUME PublicationTypeOK, NEW r \in DOMAIN runs, NEW s \in Series, ScopeSucceeds(r, s)
    PROVE  stored' \subseteq Series \X Dates
  BY DEF ScopeSucceeds, PublicationTypeOK

LEMMA PublishFacts ==
    ASSUME PublicationTypeOK, NEW c \in Dates, Publish(c)
    PROVE  published \subseteq published' /\ published' \subseteq Dates
<1>1. c \in Int /\ policy \in Policies /\ policy.from \in Int
  <2>1. policy.from \in Int /\ MaxClock \in Int
    BY TypeFacts
  <2>2. DayOf(MaxClock) \in Int
    BY <2>1, DayBounds
  <2> QED
    BY <2>1, <2>2 DEF Dates, PublicationTypeOK
<1>2. \A d \in Expected(policy, policy.from, c) : d \in Dates
  BY <1>1, ExpectedFacts, TypeFacts, DayBounds DEF Dates
<1> QED
  BY <1>2 DEF Publish, PublicationTypeOK

LEMMA NextType == PublicationTypeOK /\ [Next]_vars => PublicationTypeOK'
<1> SUFFICES ASSUME PublicationTypeOK, [Next]_vars PROVE PublicationTypeOK'
  OBVIOUS
<1> USE DEF PublicationTypeOK
<1>1. CASE UNCHANGED vars
  BY <1>1 DEF vars, Dates
<1>2. CASE Tick
  BY <1>2, TypeFacts DEF Tick, Dates
<1>3. ASSUME NEW c \in Dates, Publish(c) PROVE PublicationTypeOK'
  BY <1>3, PublishFacts DEF Publish, Dates
<1>4. ASSUME NEW q \in Requests, RequestRun(q) PROVE PublicationTypeOK'
  <2>1. q.start \in Int /\ q.end \in Int /\ q.series \in SUBSET Series
    BY SchedulingAssumption
  <2> QED
    BY <1>4, <2>1, AddRunFacts DEF RequestRun, Dates
<1>5. ASSUME NEW s \in Schedulers, PollQuietly(s) \/ PollDue(s) \/ CommitRun(s) \/ LosePlan(s)
      PROVE  PublicationTypeOK'
  <2>1. CASE PollQuietly(s)
    BY <2>1, TypeFacts DEF PollQuietly, Dates
  <2>2. CASE PollDue(s)
    BY <2>2, PollDueFacts DEF Dates
  <2>3. CASE CommitRun(s)
    <3>1. CloseTransaction(s) /\ AddRun("scheduled", plan[s], Series)
          /\ UNCHANGED <<policy, clock, published, stored>>
      BY <2>3 DEF CommitRun
    <3>2. runs' \in Seq(Run) /\ Len(runs') <= MaxRuns
      BY <2>3, <3>1, CommitRunFacts, AddRunFacts
    <3>3. polled' \in -1..MaxClock
      BY <2>3, CommitRunFacts, TypeFacts
    <3> QED
      BY <3>1, <3>2, <3>3, CloseFacts DEF Dates
  <2>4. CASE LosePlan(s)
    BY <2>4, CloseFacts DEF LosePlan, Dates
  <2> QED
    BY <1>5, <2>1, <2>2, <2>3, <2>4
<1>6. ASSUME NEW r \in DOMAIN runs, NEW s \in Series, ScopeSucceeds(r, s) \/ ScopeFails(r, s)
      PROVE  PublicationTypeOK'
  <2>1. CASE ScopeSucceeds(r, s)
    BY <2>1, EndScopeFacts, ScopeSucceedsFacts DEF ScopeSucceeds, Dates
  <2>2. CASE ScopeFails(r, s)
    BY <2>2, EndScopeFacts DEF ScopeFails, Dates
  <2> QED
    BY <1>6, <2>1, <2>2
<1> QED
  BY <1>1, <1>2, <1>3, <1>4, <1>5, <1>6 DEF Next

\* Runs, plans, polls and stored dates keep to their types, and the clock and
\* the number of runs to their bounds.
THEOREM SchedulingTypeCorrect == Spec => []PublicationTypeOK
  BY InitType, NextType, PTL DEF Spec

-----------------------------------------------------------------------------
(***************************************************************************)
(* Time, the provider and the quality states.                              *)
(***************************************************************************)
\* The policy can answer for every date up to day n.
Released(n) == \A d \in Expected(policy, policy.from, n) : HasRelease(policy, d)

\* Before the clock has moved the policy need not be able to answer, and then
\* nothing was planned.
Unplanned ==
    /\ clock = policy.from * TicksPerDay
    /\ polled < clock
    /\ \A s \in Schedulers : plan[s] = NoWindow

ClockInv ==
    /\ PublicationTypeOK
    /\ policy.from * TicksPerDay <= clock
    /\ polled <= clock
    /\ \A s \in Schedulers : planAt[s] <= clock
    /\ Promised(clock) \subseteq published
    /\ Released(DayOf(clock)) \/ Unplanned

LEMMA PlannableReleases ==
    ASSUME ClockInv, Plannable(clock)
    PROVE  Released(DayOf(clock))
<1>1. CASE clock = policy.from * TicksPerDay
  <2>1. DayOf(clock) = policy.from
    BY <1>1, TypeFacts, FirstDay DEF ClockInv
  <2>2. SearchStart(policy, clock) = policy.from
    BY <2>1, TypeFacts, SearchStartFacts DEF ClockInv, PublicationTypeOK
  <2> QED
    BY <2>1, <2>2 DEF Plannable, Answerable, Released
<1>2. CASE ~(clock = policy.from * TicksPerDay)
  BY <1>2 DEF ClockInv, Unplanned
<1> QED
  BY <1>1, <1>2

LEMMA TickReleases ==
    ASSUME ClockInv, Tick
    PROVE  Released(DayOf(clock + 1))
<1> DEFINE today == DayOf(clock)
           tomorrow == DayOf(clock + 1)
<1>1. /\ policy \in Policies /\ policy.from \in Nat /\ clock \in Int /\ clock + 1 \in Int
      /\ today \in Int /\ tomorrow \in Int /\ tomorrow <= today + 1
  <2>1. policy \in Policies /\ policy.from \in Nat /\ clock \in Int /\ clock + 1 \in Int
    BY TypeFacts DEF ClockInv, PublicationTypeOK
  <2>2. today \in Int /\ tomorrow \in Int /\ tomorrow <= today + 1
    BY <2>1, DaySteps, DayBounds
  <2> QED
    BY <2>1, <2>2
<1>2. /\ SearchStart(policy, clock + 1) \in Int
      /\ SearchStart(policy, clock + 1) = policy.from \/ SearchStart(policy, clock + 1) = tomorrow - 14
  BY <1>1, SearchStartFacts
<1>3. ASSUME NEW d \in Expected(policy, policy.from, tomorrow),
             d >= SearchStart(policy, clock + 1)
      PROVE  HasRelease(policy, d)
  <2>1. d \in Expected(policy, SearchStart(policy, clock + 1), tomorrow)
    BY <1>1, <1>2, <1>3 DEF Expected
  <2> QED
    BY <2>1 DEF Tick, Plannable, Answerable
<1>4. CASE Released(today)
  <2> SUFFICES ASSUME NEW d \in Expected(policy, policy.from, tomorrow)
               PROVE  HasRelease(policy, d)
    BY DEF Released
  <2>1. d \in Int /\ policy.from <= d /\ d <= tomorrow
    BY <1>1, ExpectedFacts
  <2>2. CASE d <= today
    BY <1>1, <1>4, <2>1, <2>2 DEF Released, Expected
  <2>3. CASE d > today
    BY <1>1, <1>2, <1>3, <2>1, <2>3
  <2> QED
    BY <1>1, <2>1, <2>2, <2>3
<1>5. CASE clock = policy.from * TicksPerDay
  <2>1. today = policy.from
    BY <1>1, <1>5, FirstDay
  <2>2. SearchStart(policy, clock + 1) = policy.from
    BY <1>1, <2>1, SearchStartFacts
  <2>3. \A d \in Expected(policy, policy.from, tomorrow) : d >= SearchStart(policy, clock + 1)
    BY <1>1, <2>2, ExpectedFacts
  <2> QED
    BY <1>3, <2>3 DEF Released
<1> QED
  BY <1>4, <1>5 DEF ClockInv, Unplanned

LEMMA InitClock == Init => ClockInv
<1> SUFFICES ASSUME Init PROVE ClockInv
  OBVIOUS
<1>1. PublicationTypeOK /\ clock \in Int
  BY InitType, TypeFacts
<1>2. 0 <= clock
  BY <1>1 DEF PublicationTypeOK
<1> QED
  BY <1>1, <1>2 DEF Init, ClockInv, Unplanned

\* A step that leaves the clock alone and withdraws nothing.
LEMMA ClockStands ==
    ASSUME ClockInv, PublicationTypeOK', UNCHANGED <<policy, clock>>,
           published \subseteq published', polled' <= clock,
           \A s \in Schedulers : planAt'[s] <= clock,
           Released(DayOf(clock)) \/ UNCHANGED <<polled, plan>>
    PROVE  ClockInv'
<1>1. Promised(clock)' = Promised(clock) /\ Released(DayOf(clock))' = Released(DayOf(clock))
  BY DEF Promised, Released
<1> QED
  BY <1>1 DEF ClockInv, Unplanned

LEMMA NextClock == ClockInv /\ [Next]_vars => ClockInv'
<1> SUFFICES ASSUME ClockInv, [Next]_vars PROVE ClockInv'
  OBVIOUS
<1>0. PublicationTypeOK /\ PublicationTypeOK' /\ clock \in Int /\ 0 <= clock /\ polled \in Int
      /\ \A s \in Schedulers : planAt[s] \in Int
  BY NextType DEF ClockInv, PublicationTypeOK
<1>1. CASE UNCHANGED vars
  BY <1>0, <1>1, ClockStands DEF vars, ClockInv
<1>2. CASE Tick
  <2>1. UNCHANGED <<policy, published, plan, planAt, polled>> /\ clock' = clock + 1
    BY <1>2 DEF Tick
  <2>2. Promised(clock)' \subseteq published'
    BY <1>2, <2>1 DEF Tick, ProviderPunctual, Promised
  <2>3. Released(DayOf(clock))'
    BY <1>2, <2>1, TickReleases DEF Released
  <2>4. policy.from * TicksPerDay <= clock + 1 /\ polled <= clock + 1
        /\ \A s \in Schedulers : planAt[s] <= clock + 1
    <3>1. policy.from * TicksPerDay \in Int
      BY <1>0, TypeFacts, CalendarAssumption
    <3> QED
      BY <1>0, <3>1 DEF ClockInv
  <2> QED
    BY <1>0, <2>1, <2>2, <2>3, <2>4 DEF ClockInv
<1>3. ASSUME NEW c \in Dates, Publish(c) PROVE ClockInv'
  BY <1>0, <1>3, ClockStands, PublishFacts DEF Publish, ClockInv
<1>4. ASSUME NEW q \in Requests, RequestRun(q) PROVE ClockInv'
  BY <1>0, <1>4, ClockStands DEF RequestRun, ClockInv
<1>5. ASSUME NEW s \in Schedulers, PollQuietly(s) PROVE ClockInv'
  BY <1>0, <1>5, ClockStands, PlannableReleases DEF PollQuietly, Idle, ClockInv
<1>6. ASSUME NEW s \in Schedulers, PollDue(s) PROVE ClockInv'
  <2>1. \A x \in Schedulers : planAt'[x] <= clock
    BY <1>0, <1>6, PollDueFacts DEF ClockInv
  <2> QED
    BY <1>0, <1>6, <2>1, ClockStands, PlannableReleases, PollDueFacts DEF PollDue, Idle, ClockInv
<1>7. ASSUME NEW s \in Schedulers, CommitRun(s) \/ LosePlan(s) PROVE ClockInv'
  <2>1. CloseTransaction(s) /\ Planned(s) /\ UNCHANGED <<policy, clock, published>>
    BY <1>7 DEF CommitRun, LosePlan
  <2>2. Released(DayOf(clock))
    BY <2>1 DEF ClockInv, Unplanned, Planned
  <2>3. \A x \in Schedulers : planAt'[x] <= clock
    BY <1>0, <2>1 DEF ClockInv, CloseTransaction, PublicationTypeOK
  <2>4. polled' <= clock
    BY <1>0, <1>7, CommitRunFacts DEF ClockInv, LosePlan
  <2> QED
    BY <1>0, <2>1, <2>2, <2>3, <2>4, ClockStands
<1>8. ASSUME NEW r \in DOMAIN runs, NEW s \in Series, ScopeSucceeds(r, s) \/ ScopeFails(r, s)
      PROVE  ClockInv'
  BY <1>0, <1>8, ClockStands DEF ScopeSucceeds, ScopeFails, ClockInv
<1> QED
  BY <1>1, <1>2, <1>3, <1>4, <1>5, <1>6, <1>7, <1>8 DEF Next

\* Polls and plans are of the past, the provider has kept its promise, and
\* every expected date up to now has a release.
THEOREM ClockInvariance == Spec => []ClockInv
  BY InitClock, NextClock, PTL DEF Spec

\* Whatever calendar and policy are in force, an assessment calls a date late
\* only after the provider has published it: missing dates are among those due,
\* and a punctual provider has published what is due.
THEOREM NoAlarmIsFalse == Spec => []NoFalseAlarm
<1>1. ClockInv => NoFalseAlarm
  <2> SUFFICES ASSUME ClockInv, NEW s \in Series, NEW last \in Dates, NEW first \in {last, last - 6},
                      Assess(s, first, last, clock, TRUE) \in {"incomplete", "stale"}
               PROVE  \E d \in first..last : d \in published \ Available(s)
    BY DEF NoFalseAlarm
  <2> DEFINE due == Due(policy, first, last, clock)
             missing == due \ Available(s)
             known == /\ Covers(policy, first) /\ Covers(policy, last)
                      /\ Answerable(policy, first, last)
  <2>1. Assess(s, first, last, clock, TRUE) =
          CASE ~known -> "unknown"
            [] known /\ due = {} -> "not_due"
            [] known /\ missing # {} /\ ~TRUE -> "unknown"
            [] known /\ due # {} /\ missing = {} -> "complete"
            [] OTHER -> IF clock > Max({DueAt(policy, d) : d \in due}) + policy.staleAfter
                        THEN "stale" ELSE "incomplete"
    BY DEF Assess
  <2>2. known /\ missing # {}
    <3> HIDE DEF known, due, missing
    <3>1. ~(~known)
      BY <2>1
    <3>2. missing = {} => due = {} \/ FALSE
      BY <2>1, <3>1
    <3>3. due # {}
      BY <2>1, <3>1
    <3> QED
      BY <3>1, <3>2, <3>3
  <2>3. PICK d \in due : d \notin Available(s)
    BY <2>2
  <2>4. policy \in Policies /\ policy.from \in Int /\ DayOf(clock) \in Int /\ clock \in Int
        /\ first \in Int /\ last \in Int
    <3>1. policy.from \in Int /\ MaxClock \in Int /\ policy \in Policies
      BY TypeFacts DEF ClockInv, PublicationTypeOK
    <3>2. DayOf(MaxClock) \in Int
      BY <3>1, DayBounds
    <3> QED
      BY <3>1, <3>2, TypeFacts DEF Dates, ClockInv
  <2>5. d \in Expected(policy, first, last) /\ DueAt(policy, d) <= clock
    BY <2>3 DEF Due
  <2>6. d \in Int /\ first <= d /\ d <= last /\ d \in policy.from..policy.to
    BY <2>4, <2>5, ExpectedFacts
  <2>7. HasRelease(policy, d) /\ Answered(policy, d)
    BY <2>2, <2>5, <2>6 DEF Answerable, Answered
  <2>8. d <= DayOf(clock)
    <3>1. d * TicksPerDay <= DueAt(policy, d) /\ DueAt(policy, d) \in Int /\ d * TicksPerDay \in Int
      BY <2>4, <2>6, <2>7, DueFacts, CalendarAssumption
    <3>2. d * TicksPerDay <= clock
      BY <2>4, <2>5, <3>1
    <3> QED
      BY <2>4, <2>6, <3>2, DayOfInstant
  <2>9. d \in Promised(clock)
    BY <2>4, <2>5, <2>6, <2>7, <2>8, DueFacts DEF Promised, Expected
  <2> QED
    BY <2>3, <2>6, <2>9, <2>4 DEF ClockInv
<1> QED
  BY <1>1, ClockInvariance, PTL

-----------------------------------------------------------------------------
(***************************************************************************)
(* A scheduled run is made when all of its window has been published.      *)
(***************************************************************************)
LEMMA WindowPromised ==
    ASSUME ClockInv, Plannable(clock), WindowDue(clock) # NoWindow
    PROVE  /\ WindowDue(clock) \in Window
           /\ WindowDue(clock).start <= WindowDue(clock).end
           /\ Expected(policy, WindowDue(clock).start, WindowDue(clock).end) \subseteq Promised(clock)
<1> DEFINE w == WindowDue(clock)
<1>1. /\ policy \in Policies /\ clock \in 0..(MaxClock + 1) /\ clock \in Int
      /\ policy.from \in Int /\ DayOf(clock) \in Int
  BY TypeFacts DEF ClockInv, PublicationTypeOK
<1>2. /\ w \in Window /\ w.end \in Candidates(policy, clock)
      /\ w.start = WindowStart(policy, w.end)
  BY <1>1, LatestDueFacts DEF WindowDue, Plannable
<1>3. /\ Answered(policy, w.end) /\ w.end \in Int /\ w.end <= DayOf(clock)
      /\ DueAt(policy, w.end) <= clock
  BY <1>1, <1>2, CandidateFacts DEF Plannable
<1>4. w.start \in Int /\ w.start <= w.end
  BY <1>2, <1>3 DEF WindowStart
<1>5. ASSUME NEW d \in Expected(policy, w.start, w.end) PROVE d \in Promised(clock)
  <2>1. d \in Int /\ d <= w.end /\ d \in policy.from..policy.to /\ d <= DayOf(clock)
    BY <1>1, <1>3, <1>4, ExpectedFacts
  <2>2. d \in Expected(policy, policy.from, DayOf(clock))
    BY <1>1, <2>1 DEF Expected
  <2>3. HasRelease(policy, d) /\ Answered(policy, d)
    BY <2>1, <2>2, PlannableReleases DEF Released, Answered
  <2>4. DueAt(policy, d) <= clock
    BY <1>1, <1>3, <2>1, <2>3, DueMonotone, DueFacts
  <2> QED
    BY <1>1, <2>2, <2>3, <2>4, DueFacts DEF Promised
<1> QED
  BY <1>2, <1>4, <1>5

\* Every date of the range that is expected has been published.
Published(range) ==
    range.start <= range.end /\ Expected(policy, range.start, range.end) \subseteq published

\* A scheduled run asks for every series, and what it has got is stored.
RunComplete(r) ==
    /\ Published(runs[r])
    /\ \A x \in Series :
        /\ runs[r].scopes[x] # "absent"
        /\ runs[r].scopes[x] = "succeeded" =>
            \A d \in Expected(policy, runs[r].start, runs[r].end) : <<x, d>> \in stored

CompleteInv ==
    /\ ClockInv
    /\ \A s \in Schedulers : plan[s] # NoWindow => Published(plan[s])
    /\ \A r \in DOMAIN runs : runs[r].trigger = "scheduled" => RunComplete(r)

LEMMA InitComplete == Init => CompleteInv
<1> SUFFICES ASSUME Init PROVE CompleteInv
  OBVIOUS
<1>1. ClockInv
  BY InitClock
<1> QED
  BY <1>1 DEF Init, CompleteInv

\* A step that ends no scope and makes no scheduled run.
LEMMA CompleteKept ==
    ASSUME CompleteInv, ClockInv', UNCHANGED <<policy, stored>>, published \subseteq published',
           \A s \in Schedulers : plan'[s] \notin {NoWindow, plan[s]} => Published(plan[s])',
           \A r \in DOMAIN runs' : runs'[r].trigger = "scheduled" =>
                r \in DOMAIN runs /\ runs'[r] = runs[r]
    PROVE  CompleteInv'
<1>1. ASSUME NEW s \in Schedulers, plan'[s] # NoWindow PROVE Published(plan[s])'
  BY <1>1 DEF CompleteInv, Published
<1>2. ASSUME NEW r \in DOMAIN runs', runs'[r].trigger = "scheduled" PROVE RunComplete(r)'
  BY <1>2 DEF CompleteInv, RunComplete, Published
<1> QED
  BY <1>1, <1>2 DEF CompleteInv

LEMMA CommitComplete ==
    ASSUME CompleteInv, ClockInv', NEW s \in Schedulers, CommitRun(s)
    PROVE  CompleteInv'
<1> DEFINE n == Len(runs) + 1
<1>1. PublicationTypeOK /\ plan[s] # NoWindow /\ CloseTransaction(s)
      /\ UNCHANGED <<policy, clock, published, stored>>
  BY DEF CompleteInv, ClockInv, CommitRun, Planned
<1>2. /\ DOMAIN runs' = DOMAIN runs \cup {n}
      /\ \A r \in DOMAIN runs : runs'[r] = runs[r] /\ r < n
      /\ runs'[n].start = plan[s].start /\ runs'[n].end = plan[s].end
      /\ \A x \in Series : runs'[n].scopes[x] = "pending"
  <2>1. runs \in Seq(Run) /\ plan[s].start \in Int /\ plan[s].end \in Int
    BY <1>1, CommitRunFacts DEF PublicationTypeOK
  <2>2. AddRun("scheduled", plan[s], Series)
    BY DEF CommitRun
  <2> QED
    BY <2>1, <2>2, AddRunFacts
<1>3. ASSUME NEW x \in Schedulers, plan'[x] # NoWindow PROVE Published(plan[x])'
  BY <1>1, <1>3, CloseFacts DEF CompleteInv, Published
<1>4. ASSUME NEW r \in DOMAIN runs', runs'[r].trigger = "scheduled" PROVE RunComplete(r)'
  <2>1. CASE r \in DOMAIN runs
    BY <1>1, <1>2, <1>4, <2>1 DEF CompleteInv, RunComplete, Published
  <2>2. CASE r = n
    BY <1>1, <1>2, <2>2 DEF CompleteInv, RunComplete, Published
  <2> QED
    BY <1>2, <2>1, <2>2
<1> QED
  BY <1>3, <1>4 DEF CompleteInv

LEMMA EndComplete ==
    ASSUME CompleteInv, ClockInv', NEW r \in DOMAIN runs, NEW s \in Series,
           ScopeSucceeds(r, s) \/ ScopeFails(r, s)
    PROVE  CompleteInv'
<1>1. PublicationTypeOK /\ policy \in Policies /\ runs \in Seq(Run)
  BY DEF CompleteInv, ClockInv, PublicationTypeOK
<1>2. PICK status \in {"succeeded", "failed"} :
        /\ EndScope(r, s, status)
        /\ status = "failed" => UNCHANGED stored
        /\ status = "succeeded" => stored' = stored \cup ({s} \X (published \cap Dated(r)))
        /\ UNCHANGED <<policy, clock, published, plan>>
  BY DEF ScopeSucceeds, ScopeFails
<1>3. /\ DOMAIN runs' = DOMAIN runs
      /\ \A q \in DOMAIN runs :
            /\ runs'[q].trigger = runs[q].trigger
            /\ runs'[q].start = runs[q].start /\ runs'[q].end = runs[q].end
            /\ \A x \in Series : runs'[q].scopes[x] =
                    IF q = r /\ x = s THEN status ELSE runs[q].scopes[x]
  BY <1>1, <1>2, EndScopeFacts
<1>4. stored \subseteq stored'
  BY <1>2
<1>5. ASSUME NEW q \in DOMAIN runs', runs'[q].trigger = "scheduled" PROVE RunComplete(q)'
  <2>1. q \in DOMAIN runs /\ RunComplete(q) /\ runs'[q].start = runs[q].start /\ runs'[q].end = runs[q].end
    BY <1>3, <1>5 DEF CompleteInv
  <2>2. Published(runs[q])'
    BY <1>2, <2>1 DEF RunComplete, Published
  <2>3. ASSUME NEW x \in Series, runs'[q].scopes[x] = "succeeded",
               NEW d \in Expected(policy, runs[q].start, runs[q].end)
        PROVE  <<x, d>> \in stored'
    <3>1. CASE q = r /\ x = s
      <4>1. status = "succeeded"
        BY <1>3, <2>1, <2>3, <3>1
      <4>2. d \in published /\ d \in Dated(r)
        BY <2>1, <3>1 DEF RunComplete, Published, Dated, Expected
      <4> QED
        BY <1>2, <3>1, <4>1, <4>2
    <3>2. CASE ~(q = r /\ x = s)
      BY <1>3, <1>4, <2>1, <2>3, <3>2 DEF RunComplete
    <3> QED
      BY <3>1, <3>2
  <2>4. \A x \in Series : runs'[q].scopes[x] # "absent"
    BY <1>3, <2>1 DEF RunComplete
  <2> QED
    BY <1>2, <2>1, <2>2, <2>3, <2>4 DEF RunComplete
<1> QED
  BY <1>2, <1>3, <1>5 DEF CompleteInv, Published

LEMMA NextComplete == CompleteInv /\ [Next]_vars => CompleteInv'
<1> SUFFICES ASSUME CompleteInv, [Next]_vars PROVE CompleteInv'
  OBVIOUS
<1>0. ClockInv /\ ClockInv' /\ PublicationTypeOK
  BY NextClock DEF CompleteInv, ClockInv
<1>1. CASE UNCHANGED vars
  BY <1>0, <1>1, CompleteKept DEF vars
<1>2. CASE Tick
  BY <1>0, <1>2, CompleteKept DEF Tick
<1>3. ASSUME NEW c \in Dates, Publish(c) PROVE CompleteInv'
  BY <1>0, <1>3, CompleteKept, PublishFacts DEF Publish
<1>4. ASSUME NEW q \in Requests, RequestRun(q) PROVE CompleteInv'
  <2>1. AddRun("requested", q, q.series) /\ UNCHANGED <<policy, published, stored, plan>>
    BY <1>4 DEF RequestRun
  <2>2. q.start \in Int /\ q.end \in Int /\ q.series \in SUBSET Series
    BY SchedulingAssumption
  <2>3. \A r \in DOMAIN runs' : runs'[r].trigger = "scheduled" => r \in DOMAIN runs /\ runs'[r] = runs[r]
    <3>1. /\ DOMAIN runs' = DOMAIN runs \cup {Len(runs) + 1}
          /\ \A r \in DOMAIN runs : runs'[r] = runs[r]
          /\ runs'[Len(runs) + 1].trigger = "requested"
      BY <1>0, <2>1, <2>2, AddRunFacts DEF PublicationTypeOK
    <3> QED
      BY <3>1
  <2> QED
    BY <1>0, <2>1, <2>3, CompleteKept
<1>5. ASSUME NEW s \in Schedulers, PollQuietly(s) PROVE CompleteInv'
  BY <1>0, <1>5, CompleteKept DEF PollQuietly
<1>6. ASSUME NEW s \in Schedulers, PollDue(s) PROVE CompleteInv'
  <2>1. Plannable(clock) /\ WindowDue(clock) # NoWindow
    BY <1>6 DEF PollDue, Idle
  <2>2. Published(WindowDue(clock))
    BY <1>0, <2>1, WindowPromised DEF Published, ClockInv
  <2>3. \A x \in Schedulers : plan'[x] \notin {NoWindow, plan[x]} => Published(plan[x])'
    BY <1>0, <1>6, <2>2, PollDueFacts DEF Published
  <2> QED
    BY <1>0, <1>6, <2>3, CompleteKept DEF PollDue
<1>7. ASSUME NEW s \in Schedulers, LosePlan(s) PROVE CompleteInv'
  BY <1>0, <1>7, CompleteKept, CloseFacts DEF LosePlan
<1> QED
  BY <1>0, <1>1, <1>2, <1>3, <1>4, <1>5, <1>6, <1>7, CommitComplete, EndComplete DEF Next

\* However long commits and workers take, the dates of a scheduled run were all
\* published when it was planned, so that its success leaves none of them out.
THEOREM SuccessIsComplete == Spec => []ScheduledSuccessIsComplete
<1>1. CompleteInv => ScheduledSuccessIsComplete
  <2> SUFFICES ASSUME CompleteInv, NEW r \in DOMAIN runs, runs[r].trigger = "scheduled", Succeeded(r),
                      NEW x \in Series, NEW d \in Expected(policy, runs[r].start, runs[r].end)
               PROVE  <<x, d>> \in stored
    BY DEF ScheduledSuccessIsComplete
  <2>1. RunComplete(r) /\ runs[r].scopes[x] \in {"absent", "pending", "succeeded", "failed"}
    <3>1. runs[r] \in Run
      BY DEF CompleteInv, ClockInv, PublicationTypeOK
    <3> QED
      BY <3>1 DEF CompleteInv, Run, Scopes
  <2>2. runs[r].scopes[x] \notin {"pending", "failed", "absent"}
    BY <2>1 DEF Succeeded, ScopesIn, RunComplete
  <2> QED
    BY <2>1, <2>2 DEF RunComplete
<1> QED
  BY <1>1, InitComplete, NextComplete, PTL DEF Spec

-----------------------------------------------------------------------------
(***************************************************************************)
(* Runs are never taken back, and one scheduler creates no duplicates.     *)
(***************************************************************************)
\* A run keeps its range, and its scopes only end.
LEMMA RunsEvolve ==
    ASSUME PublicationTypeOK, [Next]_vars, NEW q \in DOMAIN runs
    PROVE  /\ q \in DOMAIN runs'
           /\ runs'[q].trigger = runs[q].trigger
           /\ runs'[q].start = runs[q].start /\ runs'[q].end = runs[q].end
           /\ \A x \in Series :
                runs'[q].scopes[x] = runs[q].scopes[x] \/ runs[q].scopes[x] = "pending"
<1>0. runs \in Seq(Run)
  BY DEF PublicationTypeOK
<1>1. CASE UNCHANGED runs
  BY <1>1
<1>2. ASSUME NEW r \in DOMAIN runs, NEW s \in Series, ScopeSucceeds(r, s) \/ ScopeFails(r, s)
      PROVE  /\ q \in DOMAIN runs'
             /\ runs'[q].trigger = runs[q].trigger
             /\ runs'[q].start = runs[q].start /\ runs'[q].end = runs[q].end
             /\ \A x \in Series :
                    runs'[q].scopes[x] = runs[q].scopes[x] \/ runs[q].scopes[x] = "pending"
  BY <1>0, <1>2, EndScopeFacts DEF ScopeSucceeds, ScopeFails
<1>3. ASSUME NEW trigger \in {"scheduled", "requested"}, NEW window,
             window.start \in Int, window.end \in Int,
             NEW asked \in SUBSET Series, AddRun(trigger, window, asked)
      PROVE  q \in DOMAIN runs' /\ runs'[q] = runs[q]
  BY <1>0, <1>3, AddRunFacts
<1>4. ASSUME NEW c \in Requests, RequestRun(c)
      PROVE  q \in DOMAIN runs' /\ runs'[q] = runs[q]
  <2>1. c.start \in Int /\ c.end \in Int /\ c.series \in SUBSET Series
    BY SchedulingAssumption
  <2> QED
    BY <1>3, <1>4, <2>1 DEF RequestRun
<1>5. ASSUME NEW s \in Schedulers, CommitRun(s)
      PROVE  q \in DOMAIN runs' /\ runs'[q] = runs[q]
  BY <1>3, <1>5, CommitRunFacts DEF CommitRun
<1>6. ASSUME NEW s \in Schedulers, PollQuietly(s) \/ PollDue(s) \/ LosePlan(s)
      PROVE  UNCHANGED runs
  BY <1>6 DEF PollQuietly, PollDue, LosePlan
<1>7. CASE UNCHANGED vars \/ Tick \/ \E c \in Dates : Publish(c)
  BY <1>7, <1>1 DEF vars, Tick, Publish
<1> QED
  BY <1>1, <1>2, <1>4, <1>5, <1>6, <1>7 DEF Next

\* The run a step adds, if any.
LEMMA RunAdded ==
    ASSUME PublicationTypeOK, [Next]_vars, NEW n \in DOMAIN runs', n \notin DOMAIN runs
    PROVE  /\ \A q \in DOMAIN runs' : q <= n
           /\ \/ runs'[n].trigger = "requested" /\ UNCHANGED plan
              \/ \E s \in Schedulers :
                    /\ CommitRun(s)
                    /\ runs'[n].start = plan[s].start /\ runs'[n].end = plan[s].end
<1>0. runs \in Seq(Run)
  BY DEF PublicationTypeOK
<1>1. ~(UNCHANGED runs)
  OBVIOUS
<1>2. ASSUME NEW r \in DOMAIN runs, NEW s \in Series PROVE ~(ScopeSucceeds(r, s) \/ ScopeFails(r, s))
  BY <1>0, EndScopeFacts DEF ScopeSucceeds, ScopeFails
<1>3. ASSUME NEW trigger \in {"scheduled", "requested"}, NEW window,
             window.start \in Int, window.end \in Int,
             NEW asked \in SUBSET Series, AddRun(trigger, window, asked)
      PROVE  /\ \A q \in DOMAIN runs' : q <= n
             /\ runs'[n].trigger = trigger
             /\ runs'[n].start = window.start /\ runs'[n].end = window.end
  <2>1. /\ DOMAIN runs' = DOMAIN runs \cup {Len(runs) + 1}
        /\ \A r \in DOMAIN runs : r < Len(runs) + 1
        /\ runs'[Len(runs) + 1].trigger = trigger
        /\ runs'[Len(runs) + 1].start = window.start
        /\ runs'[Len(runs) + 1].end = window.end
    BY <1>0, <1>3, AddRunFacts
  <2>2. n = Len(runs) + 1 /\ n \in Int /\ DOMAIN runs = 1..Len(runs)
    BY <1>0, <2>1
  <2> QED
    BY <2>1, <2>2
<1>4. CASE \E c \in Requests : RequestRun(c)
  <2>1. PICK c \in Requests : RequestRun(c)
    BY <1>4
  <2>2. c.start \in Int /\ c.end \in Int /\ c.series \in SUBSET Series
    BY SchedulingAssumption
  <2> QED
    BY <1>3, <2>1, <2>2 DEF RequestRun
<1>5. CASE \E s \in Schedulers : CommitRun(s)
  BY <1>3, <1>5, CommitRunFacts DEF CommitRun
<1>6. ~\E s \in Schedulers : PollQuietly(s) \/ PollDue(s) \/ LosePlan(s)
  BY <1>1 DEF PollQuietly, PollDue, LosePlan
<1>7. ~(UNCHANGED vars \/ Tick \/ \E c \in Dates : Publish(c))
  BY <1>1 DEF vars, Tick, Publish
<1> QED
  BY <1>2, <1>4, <1>5, <1>6, <1>7 DEF Next

\* A window is planned by PollDue alone.
LEMMA PlanMade ==
    ASSUME PublicationTypeOK, [Next]_vars, NEW s \in Schedulers, plan'[s] # NoWindow
    PROVE  (plan'[s] = plan[s] /\ planAt'[s] = planAt[s]) \/ PollDue(s)
<1>1. CASE UNCHANGED <<plan, planAt>>
  BY <1>1
<1>2. ASSUME NEW x \in Schedulers, PollDue(x)
      PROVE  (plan'[s] = plan[s] /\ planAt'[s] = planAt[s]) \/ PollDue(s)
  BY <1>2, PollDueFacts
<1>3. ASSUME NEW x \in Schedulers, CommitRun(x) \/ LosePlan(x)
      PROVE  plan'[s] = plan[s] /\ planAt'[s] = planAt[s]
  BY <1>3, CloseFacts DEF CommitRun, LosePlan
<1> QED
  BY <1>1, <1>2, <1>3 DEF Next, vars, Tick, Publish, RequestRun, PollQuietly, ScopeSucceeds, ScopeFails

\* The run has ended without success.
Over(r) == ~Active(r) /\ ~Succeeded(r)

LEMMA OverStays ==
    ASSUME PublicationTypeOK, [Next]_vars, NEW r \in DOMAIN runs, Over(r)
    PROVE  Over(r)'
<1>1. \A x \in Series : runs'[r].scopes[x] = runs[r].scopes[x]
  BY RunsEvolve DEF Over, Active, ScopesIn
<1> QED
  BY <1>1 DEF Over, Active, Succeeded, ScopesIn

SameWindow(w, v) == w.start = v.start /\ w.end = v.end

OnceInv ==
    /\ CompleteInv
    /\ \A s \in Schedulers : plan[s] # NoWindow =>
        \A r \in DOMAIN runs :
            runs[r].trigger = "scheduled" /\ SameWindow(runs[r], plan[s]) => Over(r)
    /\ \A q, r \in DOMAIN runs :
        (q < r /\ runs[q].trigger = "scheduled" /\ runs[r].trigger = "scheduled"
            /\ SameWindow(runs[q], runs[r])) => Over(q)

LEMMA InitOnce == Init => OnceInv
  BY InitComplete DEF Init, OnceInv

LEMMA NextOnce ==
    ASSUME OneScheduler
    PROVE  OnceInv /\ [Next]_vars => OnceInv'
<1> SUFFICES ASSUME OnceInv, [Next]_vars PROVE OnceInv'
  OBVIOUS
<1>0. CompleteInv /\ CompleteInv' /\ PublicationTypeOK /\ PublicationTypeOK'
  BY NextComplete DEF OnceInv, CompleteInv, ClockInv
<1>1. ASSUME NEW s \in Schedulers, plan'[s] # NoWindow, NEW r \in DOMAIN runs',
             runs'[r].trigger = "scheduled", SameWindow(runs'[r], plan'[s])
      PROVE  Over(r)'
  <2>1. r \in DOMAIN runs
    <3> SUFFICES ASSUME r \notin DOMAIN runs PROVE FALSE
      OBVIOUS
    <3>1. PICK x \in Schedulers : CommitRun(x)
      BY <1>0, <1>1, RunAdded
    <3>2. x = s
      BY DEF OneScheduler
    <3> QED
      BY <1>0, <1>1, <3>1, <3>2, CloseFacts DEF CommitRun
  <2>2. runs'[r].trigger = runs[r].trigger /\ SameWindow(runs'[r], runs[r])
    BY <1>0, <2>1, RunsEvolve DEF SameWindow
  <2>3. CASE plan'[s] = plan[s]
    BY <1>0, <1>1, <2>1, <2>2, <2>3, OverStays DEF OnceInv, SameWindow
  <2>4. CASE PollDue(s)
    <3>1. plan'[s] = WindowDue(clock) /\ WindowDue(clock) \in Window /\ ~Duplicate(r, WindowDue(clock))
      BY <1>0, <2>1, <2>4, PollDueFacts DEF PollDue
    <3>2. runs[r].start = WindowDue(clock).start /\ runs[r].end = WindowDue(clock).end
      BY <1>1, <2>2, <3>1 DEF SameWindow
    <3>3. Over(r)
      BY <3>1, <3>2 DEF Duplicate, Over, Window
    <3> QED
      BY <1>0, <2>1, <3>3, OverStays
  <2> QED
    BY <1>0, <1>1, <2>3, <2>4, PlanMade
<1>2. ASSUME NEW q \in DOMAIN runs', NEW r \in DOMAIN runs', q < r,
             runs'[q].trigger = "scheduled", runs'[r].trigger = "scheduled",
             SameWindow(runs'[q], runs'[r])
      PROVE  Over(q)'
  <2>1. DOMAIN runs' = 1..Len(runs')
    BY <1>0 DEF PublicationTypeOK
  <2>2. q \in DOMAIN runs
    BY <1>0, <1>2, <2>1, RunAdded
  <2>3. runs'[q].trigger = runs[q].trigger /\ SameWindow(runs'[q], runs[q])
    BY <1>0, <2>2, RunsEvolve DEF SameWindow
  <2>4. CASE r \in DOMAIN runs
    <3>1. runs'[r].trigger = runs[r].trigger /\ SameWindow(runs'[r], runs[r])
      BY <1>0, <2>4, RunsEvolve DEF SameWindow
    <3>2. Over(q)
      BY <1>2, <2>2, <2>3, <2>4, <3>1 DEF OnceInv, SameWindow
    <3> QED
      BY <1>0, <2>2, <3>2, OverStays
  <2>5. CASE r \notin DOMAIN runs
    <3>1. PICK s \in Schedulers : CommitRun(s) /\ SameWindow(runs'[r], plan[s])
      BY <1>0, <1>2, <2>5, RunAdded DEF SameWindow
    <3>2. plan[s] # NoWindow
      BY <3>1 DEF CommitRun, Planned
    <3>3. Over(q)
      BY <1>2, <2>2, <2>3, <3>1, <3>2 DEF OnceInv, SameWindow
    <3> QED
      BY <1>0, <2>2, <3>3, OverStays
  <2> QED
    BY <2>4, <2>5
<1> QED
  BY <1>0, <1>1, <1>2 DEF OnceInv

\* With one scheduler, a window is scheduled again only after every earlier run
\* of it has ended without success, whatever commits while it plans.
THEOREM OneSchedulerNeverDuplicates == OneScheduler => (Spec => []NoDuplicateWork)
<1> SUFFICES ASSUME OneScheduler PROVE Spec => []NoDuplicateWork
  OBVIOUS
<1>1. OnceInv => NoDuplicateWork
  <2> SUFFICES ASSUME OnceInv, NEW q \in DOMAIN runs, NEW r \in DOMAIN runs, q < r,
                      runs[q].trigger = "scheduled", runs[r].trigger = "scheduled", Dated(q) = Dated(r)
               PROVE  ~Active(q) /\ ~Succeeded(q)
    BY DEF NoDuplicateWork
  <2>1. runs[q] \in Run /\ runs[r] \in Run
    BY DEF OnceInv, CompleteInv, ClockInv, PublicationTypeOK
  <2>2. /\ runs[q].start \in Int /\ runs[q].end \in Int /\ runs[q].start <= runs[q].end
        /\ runs[r].start \in Int /\ runs[r].end \in Int /\ runs[r].start <= runs[r].end
    BY <2>1 DEF OnceInv, CompleteInv, RunComplete, Published, Run
  <2>3. /\ runs[q].start \in Dated(r) /\ runs[q].end \in Dated(r)
        /\ runs[r].start \in Dated(q) /\ runs[r].end \in Dated(q)
    BY <2>2 DEF Dated
  <2>4. SameWindow(runs[q], runs[r])
    BY <2>2, <2>3 DEF Dated, SameWindow
  <2> QED
    BY <2>4 DEF OnceInv, Over
<1> QED
  BY <1>1, InitOnce, NextOnce, PTL DEF Spec

-----------------------------------------------------------------------------
(***************************************************************************)
(* No due date is overlooked, although only the latest window is planned.  *)
(***************************************************************************)
Start == policy.from * TicksPerDay

\* Some run was created over the whole window, whatever became of it.
Asked(w) == \E r \in DOMAIN runs : runs[r].start <= w.start /\ runs[r].end >= w.end

\* Every window but the one due at t has been asked for.
OthersAsked(t) ==
    \A u \in Start..t : WindowDue(u) \notin {NoWindow, WindowDue(t)} => Asked(WindowDue(u))

\* Every window that a poll has seen due has been asked for.
PolledAsked ==
    \A u \in Start..clock :
        WindowDue(u) # NoWindow /\ DueAt(policy, WindowDue(u).end) <= polled => Asked(WindowDue(u))

RequestInv ==
    /\ ClockInv
    /\ Released(DayOf(clock)) => OthersAsked(clock) /\ PolledAsked
    /\ \A s \in Schedulers : plan[s] # NoWindow =>
        /\ plan[s] = WindowDue(planAt[s])
        /\ Start <= planAt[s]
        /\ OthersAsked(planAt[s])

LEMMA StartFacts ==
    ASSUME ClockInv
    PROVE  /\ Start \in Int /\ clock \in Int /\ polled \in Int /\ policy \in Policies
           /\ policy.from \in Int /\ Start <= clock /\ polled <= clock
           /\ clock <= MaxClock /\ MaxClock \in Nat /\ 0 <= Start
  BY TypeFacts, CalendarAssumption DEF ClockInv, PublicationTypeOK, Start

LEMMA ReleasedAnswers ==
    ASSUME PublicationTypeOK, NEW v \in Int, Released(DayOf(v)), NEW u \in Start..v
    PROVE  /\ Answerable(policy, SearchStart(policy, u), DayOf(u))
           /\ \A d \in Candidates(policy, u) : d \in Expected(policy, policy.from, DayOf(u))
<1>1. policy \in Policies /\ policy.from \in Nat /\ Start \in Int /\ u \in Int /\ Start <= u /\ u <= v
  BY TypeFacts, CalendarAssumption DEF PublicationTypeOK, Start
<1>2. DayOf(u) \in Int /\ DayOf(v) \in Int /\ DayOf(u) <= DayOf(v) /\ policy.from <= DayOf(u)
  BY <1>1, DayBounds, DayMonotone, DayOfInstant DEF Start
<1>3. /\ SearchStart(policy, u) \in Int
      /\ policy.from <= SearchStart(policy, u) /\ SearchStart(policy, u) <= DayOf(u)
  BY <1>1, <1>2, SearchStartFacts
<1>4. ASSUME NEW d \in Expected(policy, SearchStart(policy, u), DayOf(u))
      PROVE  d \in Expected(policy, policy.from, DayOf(u)) /\ HasRelease(policy, d)
  <2>1. d \in Int /\ SearchStart(policy, u) <= d /\ d <= DayOf(u)
    BY <1>1, <1>2, <1>3, ExpectedFacts
  <2>2. d \in Expected(policy, policy.from, DayOf(u)) /\ d \in Expected(policy, policy.from, DayOf(v))
    BY <1>1, <1>2, <1>3, <2>1 DEF Expected
  <2> QED
    BY <2>2 DEF Released
<1> QED
  BY <1>3, <1>4 DEF Answerable, Candidates, Due

\* A date that has fallen due is a candidate at every instant from then on
\* until the search leaves it behind.
LEMMA CandidateAt ==
    ASSUME PublicationTypeOK, NEW u \in Int, NEW d \in Expected(policy, policy.from, DayOf(u)),
           DueAt(policy, d) <= u, SearchStart(policy, u) <= d
    PROVE  d \in Candidates(policy, u)
<1>1. /\ policy \in Policies /\ policy.from \in Int /\ DayOf(u) \in Int
      /\ SearchStart(policy, u) \in Int
  <2>1. policy \in Policies /\ policy.from \in Int
    BY TypeFacts DEF PublicationTypeOK
  <2>2. DayOf(u) \in Int
    BY DayBounds
  <2> QED
    BY <2>1, <2>2, SearchStartFacts
<1>2. d \in Int /\ policy.from <= d /\ d <= DayOf(u)
  BY <1>1, ExpectedFacts
<1> QED
  BY <1>1, <1>2 DEF Candidates, Due, Expected

\* The window that is due at u was already due when its last date fell due.
LEMMA DueSince ==
    ASSUME SearchReachesDue, PublicationTypeOK, NEW v \in Int, v <= MaxClock + 1,
           Released(DayOf(v)), 0 <= Start, NEW u \in Start..v, WindowDue(u) # NoWindow
    PROVE  /\ DueAt(policy, WindowDue(u).end) \in Start..u
           /\ WindowDue(DueAt(policy, WindowDue(u).end)) = WindowDue(u)
<1> DEFINE e == WindowDue(u).end
           t == DueAt(policy, e)
           f == WindowDue(t).end
<1>1. /\ policy \in Policies /\ policy.from \in Int /\ Start \in Int /\ u \in Int /\ Start <= u /\ u <= v
      /\ u \in 0..(MaxClock + 1) /\ MaxClock \in Nat /\ DayOf(u) \in Int
  <2>1. policy \in Policies /\ policy.from \in Int /\ Start \in Int /\ MaxClock \in Nat
    BY TypeFacts, CalendarAssumption DEF PublicationTypeOK, Start
  <2>2. u \in Int /\ Start <= u /\ u <= v
    BY <2>1
  <2> QED
    BY <2>1, <2>2, DayBounds
<1>2. /\ e \in Candidates(policy, u) /\ e \in Expected(policy, policy.from, DayOf(u))
      /\ \A d \in Candidates(policy, u) : d <= e
      /\ WindowDue(u) \in Window /\ WindowDue(u).start = WindowStart(policy, e)
  BY <1>1, ReleasedAnswers, LatestDueFacts DEF WindowDue
<1>3. /\ Answered(policy, e) /\ e \in Int /\ e <= DayOf(u) /\ SearchStart(policy, u) <= e /\ t <= u
      /\ e \in policy.from..policy.to /\ IsBusinessDay(policy, e)
  BY <1>1, <1>2, ReleasedAnswers, CandidateFacts DEF Answered, Expected
<1>4. t \in Int /\ e <= DayOf(t) /\ policy.from <= DayOf(t) /\ DayOf(t) \in Int
  <2>1. t \in Int /\ e * TicksPerDay <= t
    BY <1>1, <1>3, DueFacts
  <2>2. e <= DayOf(t) /\ DayOf(t) \in Int
    BY <1>3, <2>1, DayOfInstant, DayBounds
  <2> QED
    BY <1>1, <1>3, <2>1, <2>2
<1>5. t \in Start..u /\ t \in Start..v
  BY <1>1, <1>3, <1>4, DayOfInstant DEF Start
<1>6. SearchStart(policy, t) <= e
  BY <1>1, <1>3, <1>4, SearchStartFacts DEF SearchReachesDue, ReleasedDates, Answered
<1>7. e \in Candidates(policy, t)
  <2>1. e \in Expected(policy, policy.from, DayOf(t))
    BY <1>1, <1>3, <1>4, <1>2 DEF Expected
  <2> QED
    BY <1>4, <1>6, <2>1, CandidateAt
<1>8. /\ WindowDue(t) # NoWindow /\ WindowDue(t) \in Window /\ f \in Candidates(policy, t) /\ e <= f
      /\ WindowDue(t).start = WindowStart(policy, f)
      /\ f \in Expected(policy, policy.from, DayOf(t)) /\ Answerable(policy, SearchStart(policy, t), DayOf(t))
  <2>1. t \in 0..(MaxClock + 1)
    BY <1>1, <1>5
  <2> QED
    BY <1>1, <1>5, <1>7, <2>1, ReleasedAnswers, LatestDueFacts DEF WindowDue
<1>9. f \in Int /\ f <= DayOf(t) /\ DueAt(policy, f) <= t
  BY <1>1, <1>4, <1>8, CandidateFacts
<1>10. f \in Candidates(policy, u)
  <2>1. DayOf(t) <= DayOf(u) /\ DueAt(policy, f) \in Int
    BY <1>1, <1>3, <1>4, <1>8, <1>9, DayMonotone, DueFacts, CandidateFacts
  <2>2. f \in Expected(policy, policy.from, DayOf(u)) /\ SearchStart(policy, u) <= f
    BY <1>1, <1>3, <1>4, <1>8, <1>9, <2>1, SearchStartFacts DEF Expected
  <2> QED
    BY <1>1, <1>3, <1>4, <1>9, <2>1, <2>2, CandidateAt
<1>11. f = e
  BY <1>2, <1>3, <1>8, <1>9, <1>10
<1> QED
  BY <1>2, <1>5, <1>8, <1>11 DEF Window

LEMMA AskedStays ==
    ASSUME PublicationTypeOK, [Next]_vars, UNCHANGED policy, NEW u, Asked(WindowDue(u))
    PROVE  Asked(WindowDue(u))'
<1>1. PICK r \in DOMAIN runs :
        runs[r].start <= WindowDue(u).start /\ runs[r].end >= WindowDue(u).end
  BY DEF Asked
<1>2. /\ r \in DOMAIN runs'
      /\ runs'[r].start <= WindowDue(u).start /\ runs'[r].end >= WindowDue(u).end
  BY <1>1, RunsEvolve
<1> QED
  BY <1>2 DEF Asked, WindowDue

LEMMA InitRequest == Init => RequestInv
<1> SUFFICES ASSUME Init PROVE RequestInv
  OBVIOUS
<1>1. ClockInv /\ clock = Start /\ polled = Start - 1 /\ PublicationTypeOK
  BY InitClock DEF Init, Start, ClockInv
<1>2. Start..clock = {clock} /\ clock \in Int /\ clock \in Start..clock /\ policy \in Policies
  BY <1>1, StartFacts
<1>3. OthersAsked(clock)
  BY <1>2 DEF OthersAsked
<1>4. ASSUME Released(DayOf(clock)), WindowDue(clock) # NoWindow
      PROVE  ~(DueAt(policy, WindowDue(clock).end) <= polled)
  <2> DEFINE e == WindowDue(clock).end
  <2>1. clock \in 0..(MaxClock + 1)
    BY <1>1, TypeFacts
  <2>2. Answerable(policy, SearchStart(policy, clock), DayOf(clock))
    BY <1>1, <1>2, <1>4, ReleasedAnswers
  <2>3. e \in Candidates(policy, clock)
    BY <1>2, <1>4, <2>1, <2>2, LatestDueFacts DEF WindowDue
  <2>4. Answered(policy, e) /\ e \in Int /\ policy.from <= e /\ policy.from \in Int
    BY <1>1, <1>2, <2>2, <2>3, CandidateFacts, StartFacts DEF Answered
  <2>5. DueAt(policy, e) \in Int /\ e * TicksPerDay <= DueAt(policy, e)
    BY <1>2, <2>4, DueFacts
  <2>6. Start <= DueAt(policy, e)
    BY <2>4, <2>5, DayOfInstant, DayBounds DEF Start
  <2> QED
    BY <1>1, <1>2, <2>5, <2>6
<1>5. Released(DayOf(clock)) => PolledAsked
  BY <1>2, <1>4 DEF PolledAsked
<1> QED
  BY <1>1, <1>3, <1>5 DEF Init, RequestInv

\* A step of the clock alone.
LEMMA TickRequest ==
    ASSUME SearchReachesDue, RequestInv, ClockInv', Tick
    PROVE  RequestInv'
<1>0. /\ ClockInv /\ PublicationTypeOK /\ clock' = clock + 1 /\ clock + 1 <= MaxClock + 1
      /\ UNCHANGED <<policy, published, runs, stored, plan, planAt, polled>>
  BY StartFacts DEF Tick, RequestInv, ClockInv
<1>1. Start \in Int /\ clock \in Int /\ polled \in Int /\ Start <= clock /\ polled <= clock /\ 0 <= Start
  BY <1>0, StartFacts
<1>2. Released(DayOf(clock + 1)) /\ Released(DayOf(clock))
  <2>1. Released(DayOf(clock + 1))
    BY <1>0, TickReleases
  <2>2. DayOf(clock) <= DayOf(clock + 1) /\ DayOf(clock) \in Int /\ DayOf(clock + 1) \in Int
        /\ policy.from \in Int /\ policy \in Policies
    BY <1>0, <1>1, DayMonotone, DayBounds, StartFacts
  <2>3. \A d \in Expected(policy, policy.from, DayOf(clock)) :
            d \in Expected(policy, policy.from, DayOf(clock + 1))
    BY <2>2, ExpectedFacts DEF Expected
  <2> QED
    BY <2>1, <2>3 DEF Released
<1>3. OthersAsked(clock) /\ PolledAsked
  BY <1>2 DEF RequestInv
<1>4. ASSUME NEW u \in Start..(clock + 1), WindowDue(u) \notin {NoWindow, WindowDue(clock + 1)}
      PROVE  Asked(WindowDue(u))
  <2>1. u \in Start..clock
    BY <1>1, <1>4
  <2>2. CASE WindowDue(u) = WindowDue(clock)
    <3>1. DueAt(policy, WindowDue(clock).end) <= polled
      BY <1>4, <2>2 DEF Tick, WindowPolled
    <3> QED
      BY <1>1, <1>3, <1>4, <2>2, <3>1 DEF PolledAsked
  <2>3. CASE WindowDue(u) # WindowDue(clock)
    BY <1>3, <1>4, <2>1, <2>3 DEF OthersAsked
  <2> QED
    BY <2>2, <2>3
<1>5. ASSUME NEW u \in Start..(clock + 1), WindowDue(u) # NoWindow,
             DueAt(policy, WindowDue(u).end) <= polled
      PROVE  Asked(WindowDue(u))
  <2> DEFINE t == DueAt(policy, WindowDue(u).end)
  <2>1. t \in Start..u /\ WindowDue(t) = WindowDue(u)
    BY <1>0, <1>1, <1>2, <1>5, DueSince
  <2>2. t \in Start..clock
    BY <1>1, <1>5, <2>1
  <2> QED
    BY <1>3, <1>5, <2>1, <2>2 DEF PolledAsked
<1>6. OthersAsked(clock)'
  BY <1>0, <1>4 DEF OthersAsked, Start, WindowDue, Asked
<1>7. PolledAsked'
  BY <1>0, <1>5 DEF PolledAsked, Start, WindowDue, Asked
<1>8. ASSUME NEW s \in Schedulers, plan'[s] # NoWindow
      PROVE  /\ plan'[s] = WindowDue(planAt[s])'
             /\ Start' <= planAt'[s]
             /\ OthersAsked(planAt[s])'
  BY <1>0, <1>8 DEF RequestInv, OthersAsked, Start, WindowDue, Asked
<1> QED
  BY <1>6, <1>7, <1>8 DEF RequestInv

\* What a poll has seen due is asked for when it has been committed: by the run
\* it creates, by the one that suppressed it, or before.
LEMMA PollAsks ==
    ASSUME SearchReachesDue, RequestInv, [Next]_vars, UNCHANGED <<policy, clock>>,
           Released(DayOf(clock)),
           NEW u \in Start..clock, WindowDue(u) # NoWindow,
           DueAt(policy, WindowDue(u).end) <= polled'
    PROVE  Asked(WindowDue(u))'
<1>0. ClockInv /\ PublicationTypeOK /\ OthersAsked(clock) /\ PolledAsked
  BY DEF RequestInv, ClockInv
<1>1. Start \in Int /\ clock \in Int /\ polled \in Int /\ Start <= clock /\ polled <= clock
      /\ 0 <= Start /\ clock <= MaxClock + 1
  BY <1>0, StartFacts
<1>2. CASE polled' = polled
  BY <1>0, <1>2, AskedStays DEF PolledAsked
<1>3. ASSUME NEW s \in Schedulers, PollQuietly(s) PROVE Asked(WindowDue(u))'
  <2>1. CASE WindowDue(u) = WindowDue(clock)
    <3>1. PICK r \in DOMAIN runs : Duplicate(r, WindowDue(clock))
      BY <1>3, <2>1 DEF PollQuietly
    <3>2. Asked(WindowDue(u))
      BY <2>1, <3>1 DEF Duplicate, Asked
    <3> QED
      BY <1>0, <3>2, AskedStays
  <2>2. CASE WindowDue(u) # WindowDue(clock)
    BY <1>0, <2>2, AskedStays DEF OthersAsked
  <2> QED
    BY <2>1, <2>2
<1>4. ASSUME NEW s \in Schedulers, CommitRun(s) PROVE Asked(WindowDue(u))'
  <2> DEFINE t == DueAt(policy, WindowDue(u).end)
  <2>1. t \in Start..u /\ WindowDue(t) = WindowDue(u)
    BY <1>0, <1>1, DueSince
  <2>2. /\ plan[s] \in Window /\ plan[s].start \in Int /\ plan[s].end \in Int /\ plan[s] # NoWindow
        /\ polled' = polled \/ polled' = planAt[s]
        /\ planAt[s] \in Int
    BY <1>0, <1>4, CommitRunFacts DEF CommitRun, Planned
  <2>3. plan[s] = WindowDue(planAt[s]) /\ OthersAsked(planAt[s])
    BY <2>2 DEF RequestInv
  <2>4. CASE polled' = planAt[s] /\ WindowDue(u) = plan[s]
    <3>1. AddRun("scheduled", plan[s], Series) /\ runs \in Seq(Run)
      BY <1>0, <1>4 DEF CommitRun, PublicationTypeOK
    <3>2. Len(runs) + 1 \in DOMAIN runs' /\ runs'[Len(runs) + 1].start = plan[s].start
          /\ runs'[Len(runs) + 1].end = plan[s].end
      BY <2>2, <3>1, AddRunFacts
    <3>3. runs'[Len(runs) + 1].start <= plan[s].start /\ runs'[Len(runs) + 1].end >= plan[s].end
      BY <2>2, <3>2
    <3> QED
      BY <2>4, <3>2, <3>3 DEF Asked, WindowDue
  <2>5. CASE polled' = planAt[s] /\ WindowDue(u) # plan[s]
    <3>1. t \in Start..planAt[s]
      BY <1>1, <2>1, <2>2, <2>5
    <3>2. Asked(WindowDue(u))
      BY <2>1, <2>3, <2>5, <3>1 DEF OthersAsked
    <3> QED
      BY <1>0, <3>2, AskedStays
  <2> QED
    BY <1>2, <2>2, <2>4, <2>5
<1>5. polled' = polled \/ \E s \in Schedulers : PollQuietly(s) \/ CommitRun(s)
  BY DEF Next, vars, Tick, Publish, RequestRun, PollDue, LosePlan, ScopeSucceeds, ScopeFails
<1> QED
  BY <1>2, <1>3, <1>4, <1>5

LEMMA NextRequest ==
    ASSUME SearchReachesDue
    PROVE  RequestInv /\ [Next]_vars => RequestInv'
<1> SUFFICES ASSUME RequestInv, [Next]_vars PROVE RequestInv'
  OBVIOUS
<1>0. ClockInv /\ ClockInv' /\ PublicationTypeOK
  BY NextClock DEF RequestInv, ClockInv
<1>1. CASE Tick
  BY <1>0, <1>1, TickRequest
<1>2. CASE ~Tick
  <2>1. UNCHANGED <<policy, clock>>
    BY <1>2 DEF Next, vars, Publish, RequestRun, PollQuietly, PollDue, CommitRun, LosePlan,
      ScopeSucceeds, ScopeFails
  <2>2. Start' = Start /\ Released(DayOf(clock))' = Released(DayOf(clock))
    BY <2>1 DEF Start, Released
  <2>3. ASSUME NEW t, OthersAsked(t) PROVE OthersAsked(t)'
    <3>1. ASSUME NEW u \in Start..t, WindowDue(u) \notin {NoWindow, WindowDue(t)}
          PROVE  Asked(WindowDue(u))'
      BY <1>0, <2>1, <2>3, <3>1, AskedStays DEF OthersAsked
    <3>2. \A u : WindowDue(u)' = WindowDue(u)
      BY <2>1 DEF WindowDue
    <3> QED
      BY <2>2, <3>1, <3>2 DEF OthersAsked
  <2>4. ASSUME Released(DayOf(clock)) PROVE OthersAsked(clock)'
    <3>1. OthersAsked(clock)
      BY <2>4 DEF RequestInv
    <3>2. ASSUME NEW u \in Start..clock, WindowDue(u) \notin {NoWindow, WindowDue(clock)}
          PROVE  Asked(WindowDue(u))'
      BY <1>0, <2>1, <3>1, <3>2, AskedStays DEF OthersAsked
    <3>3. \A u : WindowDue(u)' = LatestDue[policy][u]
      BY <2>1 DEF WindowDue
    <3> QED
      BY <2>1, <2>2, <3>2, <3>3 DEF OthersAsked, WindowDue
  <2>5. ASSUME Released(DayOf(clock)) PROVE PolledAsked'
    <3>1. ASSUME NEW u \in Start..clock, WindowDue(u) # NoWindow,
                 DueAt(policy, WindowDue(u).end) <= polled'
          PROVE  Asked(WindowDue(u))'
      BY <2>1, <2>5, <3>1, PollAsks
    <3> QED
      BY <2>1, <2>2, <3>1 DEF PolledAsked, WindowDue
  <2>6. ASSUME NEW s \in Schedulers, plan'[s] # NoWindow
        PROVE  /\ plan'[s] = WindowDue(planAt[s])'
               /\ Start' <= planAt'[s]
               /\ OthersAsked(planAt[s])'
    <3>1. PICK t : t = planAt'[s]
      OBVIOUS
    <3>2. CASE plan'[s] = plan[s] /\ planAt'[s] = planAt[s]
      <4>1. plan[s] = WindowDue(t) /\ Start <= t /\ OthersAsked(t)
        BY <2>6, <3>1, <3>2 DEF RequestInv
      <4>2. OthersAsked(t)'
        BY <2>3, <4>1
      <4> QED
        BY <2>1, <2>2, <3>1, <3>2, <4>1, <4>2 DEF WindowDue, OthersAsked
    <3>3. CASE PollDue(s)
      <4>1. plan'[s] = WindowDue(clock) /\ planAt'[s] = clock /\ Start <= clock
        BY <1>0, <3>3, PollDueFacts DEF ClockInv, Start
      <4>2. Released(DayOf(clock))
        BY <1>0, <3>3, PlannableReleases DEF PollDue, Idle
      <4>3. OthersAsked(clock)'
        BY <2>4, <4>2
      <4> QED
        BY <2>1, <2>2, <4>1, <4>3 DEF WindowDue, OthersAsked
    <3> QED
      BY <1>0, <2>6, <3>2, <3>3, PlanMade
  <2> QED
    BY <1>0, <2>2, <2>4, <2>5, <2>6 DEF RequestInv
<1> QED
  BY <1>1, <1>2

\* If the planner's search reaches each date when it falls due, and no release
\* holds more than a window, then by the time a poll has seen a date due some
\* run has asked for it: windows that pass while polls fail, plans that are lost
\* or committed late and runs of other callers leave none out.
THEOREM NothingDueIsOverlooked ==
    SearchReachesDue /\ BatchesFitWindow => (Spec => []DueDatesAreRequested)
<1> SUFFICES ASSUME SearchReachesDue, BatchesFitWindow PROVE Spec => []DueDatesAreRequested
  OBVIOUS
<1>1. RequestInv => DueDatesAreRequested
  <2> SUFFICES ASSUME RequestInv, NEW d \in Due(policy, policy.from, DayOf(polled), polled)
               PROVE  \E r \in DOMAIN runs : d \in Dated(r)
    BY DEF DueDatesAreRequested
  <2>0. ClockInv /\ PublicationTypeOK
    BY DEF RequestInv, ClockInv
  <2>1. /\ policy \in Policies /\ policy.from \in Int /\ clock \in Int /\ polled \in Int
        /\ Start \in Int /\ 0 <= Start /\ polled <= clock /\ clock <= MaxClock /\ MaxClock \in Nat
    BY <2>0, StartFacts
  <2>2. DayOf(polled) \in Int /\ DayOf(clock) \in Int /\ DayOf(polled) <= DayOf(clock)
    BY <2>1, DayBounds, DayMonotone
  <2>3. d \in Expected(policy, policy.from, DayOf(polled)) /\ DueAt(policy, d) <= polled
    BY DEF Due
  <2>4. d \in Int /\ policy.from <= d /\ d <= DayOf(polled) /\ d \in policy.from..policy.to
        /\ d \in Expected(policy, policy.from, DayOf(clock)) /\ IsBusinessDay(policy, d)
    BY <2>1, <2>2, <2>3, ExpectedFacts DEF Expected
  <2>5. Released(DayOf(clock))
    <3>1. Start <= polled
      BY <2>1, <2>2, <2>4, DayOfInstant DEF Start
    <3> QED
      BY <2>0, <2>1, <3>1 DEF ClockInv, Unplanned, Start
  <2>6. Answered(policy, d)
    BY <2>4, <2>5 DEF Released, Answered
  <2> DEFINE u == DueAt(policy, d)
             e == WindowDue(u).end
  <2>7. u \in Int /\ d <= DayOf(u) /\ DayOf(u) \in Int /\ u \in Start..clock
    <3>1. u \in Int /\ d * TicksPerDay <= u
      BY <2>1, <2>6, DueFacts
    <3>2. d <= DayOf(u) /\ DayOf(u) \in Int
      BY <2>4, <3>1, DayOfInstant, DayBounds
    <3>3. Start <= u
      BY <2>1, <2>4, <3>1, <3>2, DayOfInstant DEF Start
    <3> QED
      BY <2>1, <2>3, <3>1, <3>2, <3>3
  <2>8. d \in Candidates(policy, u)
    <3>1. DayOf(u) - 14 <= d
      BY <2>1, <2>4, <2>6 DEF SearchReachesDue, ReleasedDates, Answered
    <3>2. SearchStart(policy, u) <= d
      BY <2>1, <2>4, <2>7, <3>1, SearchStartFacts
    <3>3. d \in Expected(policy, policy.from, DayOf(u))
      BY <2>1, <2>4, <2>7 DEF Expected
    <3> QED
      BY <2>0, <2>7, <3>2, <3>3, CandidateAt
  <2>9. /\ Answerable(policy, SearchStart(policy, u), DayOf(u))
        /\ \A x \in Candidates(policy, u) : x \in Expected(policy, policy.from, DayOf(u))
    BY <2>0, <2>1, <2>5, <2>7, ReleasedAnswers
  <2>10. /\ WindowDue(u) # NoWindow /\ WindowDue(u) \in Window /\ e \in Candidates(policy, u) /\ d <= e
         /\ WindowDue(u).start = WindowStart(policy, e)
    <3>1. u \in 0..(MaxClock + 1)
      BY <2>1, <2>7
    <3> QED
      BY <2>1, <2>8, <2>9, <3>1, LatestDueFacts DEF WindowDue
  <2>11. Answered(policy, e) /\ e \in Int /\ DueAt(policy, e) <= u
         /\ IsBusinessDay(policy, e) /\ e \in policy.from..policy.to
    BY <2>1, <2>7, <2>9, <2>10, CandidateFacts DEF Answered, Expected
  <2>12. DueAt(policy, e) = u /\ ReleaseDate[policy][d] = ReleaseDate[policy][e]
    BY <2>1, <2>4, <2>6, <2>7, <2>10, <2>11, DueMonotone, DueFacts
  <2>13. WindowDue(u).start <= d
    BY <2>1, <2>4, <2>6, <2>10, <2>11, <2>12 DEF BatchesFitWindow, ReleasedDates, Answered
  <2>14. Asked(WindowDue(u))
    BY <2>3, <2>5, <2>7, <2>10, <2>12 DEF RequestInv, PolledAsked
  <2>15. PICK r \in DOMAIN runs : runs[r].start <= WindowDue(u).start /\ runs[r].end >= e
    BY <2>14 DEF Asked
  <2>16. runs[r].start \in Int /\ runs[r].end \in Int /\ WindowDue(u).start \in Int
    <3>1. runs[r] \in Run
      BY <2>0 DEF PublicationTypeOK
    <3> QED
      BY <2>10, <3>1 DEF Run, Window
  <2> QED
    BY <2>4, <2>10, <2>11, <2>13, <2>15, <2>16 DEF Dated
<1>2. RequestInv /\ [Next]_vars => RequestInv'
  BY NextRequest
<1> QED
  BY <1>1, <1>2, InitRequest, PTL DEF Spec

-----------------------------------------------------------------------------
(***************************************************************************)
(* Ordinary policies satisfy both conditions of the last theorem.          *)
(***************************************************************************)
\* The first of the days that are whole weeks before c and not before d.
LEMMA SameWeekdayWithinAWeek ==
    ASSUME NEW c \in Int, NEW d \in Int, d <= c
    PROVE  \E b \in d..c : b <= d + 6 /\ Weekday(b) = Weekday(c)
<1> DEFINE b == d + ((c - d) % 7)
<1>1. (c - d) % 7 \in 0..6 /\ b \in Int
  OBVIOUS
<1>2. b <= c
  BY <1>1
<1>3. Weekday(b) = Weekday(c)
  BY <1>1 DEF Weekday
<1> QED
  BY <1>1, <1>2, <1>3

\* When no release day is ever a holiday, dates are released within a week.
LEMMA ReleasedWithinAWeek ==
    ASSUME NEW p \in Policies, Ordinary(p), p.weekly, NEW d \in ReleasedDates(p)
    PROVE  ReleaseDate[p][d] <= d + 6
<1>1. Answered(p, d) /\ IsBusinessDay(p, d)
  BY DEF ReleasedDates, Answered
<1>2. d \in Int /\ p.holidays \subseteq Nat /\ p.calendarFrom \in Nat /\ p.calendarTo \in Nat
  BY <1>1, ReleaseFacts, CalendarAssumption DEF Policy
<1> DEFINE c == ReleaseDate[p][d]
<1>3. /\ c \in ReleaseDays(p, d) /\ c \in Int /\ d <= c
      /\ \A x \in ReleaseDays(p, d) : c <= x
  BY <1>1, ReleaseFacts
<1> HIDE DEF c
<1>4. PICK b \in d..c : b <= d + 6 /\ Weekday(b) = Weekday(c)
  BY <1>2, <1>3, SameWeekdayWithinAWeek
<1>5. Weekday(c) \in p.releaseWeekdays /\ c <= p.calendarTo
  BY <1>3 DEF ReleaseDays, IsBusinessDay, Covers
<1>6. IsBusinessDay(p, b)
  <2>1. Covers(p, b)
    BY <1>1, <1>2, <1>3, <1>4, <1>5 DEF IsBusinessDay, Covers
  <2>2. Weekday(b) \notin p.weekend /\ b \notin p.holidays
    BY <1>4, <1>5 DEF Ordinary
  <2> QED
    BY <2>1, <2>2 DEF IsBusinessDay
<1>7. b \in ReleaseDays(p, d)
  BY <1>2, <1>3, <1>4, <1>5, <1>6 DEF ReleaseDays
<1> QED
  BY <1>2, <1>3, <1>4, <1>7 DEF c

LEMMA OrdinarySearchReaches ==
    ASSUME NEW p \in Policies, Ordinary(p), NEW d \in ReleasedDates(p)
    PROVE  DayOf(DueAt(p, d)) - 14 <= d
<1> DEFINE r == ReleaseDate[p][d]
           n == IF p.weekly THEN 9 ELSE 15
           m == d + 15
           u == DueAt(p, d)
<1>1. Answered(p, d)
  BY DEF ReleasedDates, Answered
<1>2. d \in Int /\ r \in Int /\ u \in Int /\ u = r * TicksPerDay + p.publication + p.grace
  BY <1>1, ReleaseFacts, DueFacts DEF DueAt, PublicationOf
<1>3. r + n <= m
  BY <1>1, <1>2, ReleaseFacts, ReleasedWithinAWeek, PolicyTypes
<1>4. p.publication + p.grace < n * TicksPerDay
  BY DEF Ordinary
<1>5. n \in Int /\ m \in Int /\ m - 1 = d + 14
  BY <1>2
<1> HIDE DEF n, m, r, u
<1>6. r * TicksPerDay + n * TicksPerDay <= m * TicksPerDay
  BY <1>2, <1>3, <1>5, CalendarAssumption
<1>7. u < m * TicksPerDay
  BY <1>2, <1>4, <1>5, <1>6, CalendarAssumption, PolicyTypes
<1>8. ~(m <= DayOf(u)) /\ DayOf(u) \in Int
  BY <1>2, <1>5, <1>7, DayOfInstant, DayBounds, CalendarAssumption
<1> QED
  BY <1>2, <1>5, <1>8 DEF u

LEMMA OrdinaryBatchFits ==
    ASSUME NEW p \in Policies, Ordinary(p), NEW d \in ReleasedDates(p), NEW e \in ReleasedDates(p),
           ReleaseDate[p][d] = ReleaseDate[p][e], d <= e
    PROVE  WindowStart(p, e) <= d
<1>1. Answered(p, d) /\ Answered(p, e)
  BY DEF ReleasedDates, Answered
<1> QED
  BY <1>1, ReleaseFacts, ReleasedWithinAWeek DEF WindowStart

\* With the policies that are configured, and with all that give prompt releases
\* on days that are never holidays, no date that falls due is overlooked.
THEOREM OrdinaryPoliciesOverlookNothing ==
    (\A p \in Policies : Ordinary(p)) => (Spec => []DueDatesAreRequested)
<1> SUFFICES ASSUME \A p \in Policies : Ordinary(p) PROVE Spec => []DueDatesAreRequested
  OBVIOUS
<1>1. SearchReachesDue
  BY OrdinarySearchReaches DEF SearchReachesDue
<1>2. BatchesFitWindow
  BY OrdinaryBatchFits DEF BatchesFitWindow
<1> QED
  BY <1>1, <1>2, NothingDueIsOverlooked

=============================================================================
