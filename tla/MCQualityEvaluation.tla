------------------------- MODULE MCQualityEvaluation -------------------------
(***************************************************************************)
(* TLC instances of QualityEvaluation and Scheduling.  Two ticks a day:    *)
(* publication is at the second one of the release day.                    *)
(***************************************************************************)
EXTENDS QualityEvaluation

CONSTANTS s1, s2

\* Business days from Friday on, the Monday is a holiday, one tick of grace.
DailyPolicy ==
    [calendarFrom |-> 0, calendarTo |-> 20, weekend |-> {5, 6}, holidays |-> {7},
     from |-> 4, to |-> 20, weekly |-> FALSE, releaseWeekdays |-> {0, 1, 2, 3, 4},
     publication |-> 1, grace |-> 1, staleAfter |-> 2]

\* Released on Tuesdays, a day of grace; the calendar ends on a release day.
WeeklyPolicy ==
    [calendarFrom |-> 0, calendarTo |-> 15, weekend |-> {5, 6}, holidays |-> {7},
     from |-> 0, to |-> 15, weekly |-> TRUE, releaseWeekdays |-> {1},
     publication |-> 1, grace |-> 2, staleAfter |-> 14]

MCPolicies == {DailyPolicy, WeeklyPolicy}

\* What is proved of DueDatesAreRequested and NoDuplicateWork applies here.
ASSUME InstanceAssumption == (\A p \in Policies : Ordinary(p)) /\ OneScheduler

\* The second weekly window, which holds the second daily one, for one series.
MCRequests == {[start |-> 2, end |-> 8, series |-> {s1}]}
==============================================================================
