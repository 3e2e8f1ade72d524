------------------------ MODULE PublicationCalendar ------------------------
(***************************************************************************)
(* Business calendars and expectation policies, and the observations they  *)
(* make due (src/app/application/quality/expectations.py).                 *)
(*                                                                         *)
(* A date is a day number, day 0 is a Monday; an instant is a tick of the  *)
(* publication time zone, TicksPerDay to the day.  A policy record also    *)
(* holds the calendar it refers to.                                        *)
(***************************************************************************)
EXTENDS Integers, FiniteSetsExt

CONSTANTS TicksPerDay,
          Policies     \* the policies that may be in force

Weekdays == 0..6

Policy == [calendarFrom : Nat, calendarTo : Nat, weekend : SUBSET Weekdays, holidays : SUBSET Nat,
           from : Nat, to : Nat, weekly : BOOLEAN, releaseWeekdays : SUBSET Weekdays,
           publication : Nat, grace : Nat, staleAfter : Nat]

ASSUME CalendarAssumption ==
    /\ TicksPerDay \in Nat \ {0}
    /\ Policies \subseteq Policy

Weekday(d) == d % 7

DayOf(t) == t \div TicksPerDay

Covers(p, d) == p.calendarFrom <= d /\ d <= p.calendarTo

IsBusinessDay(p, d) ==
    Covers(p, d) /\ Weekday(d) \notin p.weekend /\ d \notin p.holidays

AppliesOn(p, d) == p.from <= d /\ d <= p.to

\* Two weeks are searched for a day on which the provider releases.
ReleaseDays(p, d) ==
    {c \in d..(d + 13) : Weekday(c) \in p.releaseWeekdays /\ IsBusinessDay(p, c)}

HasRelease(p, d) == p.weekly => ReleaseDays(p, d) # {}

\* The day on which the provider releases the observation of d.
ReleaseDate ==
    [p \in Policies |-> [d \in {x \in p.from..p.to : HasRelease(p, x)} |->
        IF p.weekly THEN Min(ReleaseDays(p, d)) ELSE d]]

PublicationOf(p, d) == ReleaseDate[p][d] * TicksPerDay + p.publication

\* Faulty variant: the grace period is left out.
DueAtPublication(p, d) == PublicationOf(p, d)

DueAt(p, d) == PublicationOf(p, d) + p.grace

Expected(p, first, last) == {d \in first..last : AppliesOn(p, d) /\ IsBusinessDay(p, d)}

\* generate_expectations answers for the range; otherwise it raises ValueError.
Answerable(p, first, last) ==
    first <= last /\ \A d \in Expected(p, first, last) : HasRelease(p, d)

Due(p, first, last, t) == {d \in Expected(p, first, last) : DueAt(p, d) <= t}
=============================================================================
