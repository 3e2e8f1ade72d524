-------------------------- MODULE QualityEvaluation --------------------------
(***************************************************************************)
(* Completeness and freshness of a series as QualityEvaluationService      *)
(* (src/app/application/quality/service.py) assesses it, over what the     *)
(* scheduled runs have stored.  An evaluation reads and appends a result;  *)
(* every state of Scheduling is one in which it may be made.               *)
(***************************************************************************)
EXTENDS Scheduling

\* The dates of which the repository knows a valid observation.
Available(s) == {d \in Dates : <<s, d>> \in stored}

\* Faulty variant: dates whose publication is not due yet are missed.
AssessEagerly(s, first, last, t, evidence) ==
    LET due == Expected(policy, first, last)
        missing == due \ Available(s)
    IN  IF ~evidence THEN "unknown" ELSE IF missing = {} THEN "complete" ELSE "incomplete"

Assess(s, first, last, t, evidence) ==
    LET due == Due(policy, first, last, t)
        missing == due \ Available(s)
        known == /\ Covers(policy, first) /\ Covers(policy, last)
                 /\ Answerable(policy, first, last)
    IN  CASE ~known -> "unknown"
          [] known /\ due = {} -> "not_due"
          [] known /\ missing # {} /\ ~evidence -> "unknown"
          [] known /\ due # {} /\ missing = {} -> "complete"
          [] OTHER -> IF t > Max({DueAt(policy, d) : d \in due}) + policy.staleAfter
                      THEN "stale" ELSE "incomplete"

\* Nothing is reported late that the provider has not published: weekends,
\* holidays, release days and the grace period are all taken into account,
\* whether a day or a week is assessed.
NoFalseAlarm ==
    \A s \in Series, last \in Dates : \A first \in {last, last - 6} :
        Assess(s, first, last, clock, TRUE) \in {"incomplete", "stale"} =>
            \E d \in first..last : d \in published \ Available(s)
=============================================================================
