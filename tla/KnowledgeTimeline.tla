------------------------- MODULE KnowledgeTimeline -------------------------
(***************************************************************************)
(* What the observation store promises its readers.                        *)
(*                                                                         *)
(* For every logical observation the platform remembers, for every         *)
(* instant, which value it believed at that instant.  Learning a value at  *)
(* instant t settles the answers for t and everything after it and never   *)
(* touches an answer about an earlier instant; a value is learnt only      *)
(* after the previous change of belief, so that no belief is erased.       *)
(***************************************************************************)
EXTENDS Integers

CONSTANTS Keys,         \* logical observations (series, observation date)
          Fingerprints, \* observation contents the platform tells apart
          Unknown,      \* "nothing was known yet"
          MaxInstant    \* the last instant of the bounded time line

Instants == 1..MaxInstant

VARIABLE belief         \* belief[k][t]: what was believed about k at t

TimelineTypeOK == belief \in [Keys -> [Instants -> Fingerprints \cup {Unknown}]]

TimelineInit == belief = [k \in Keys |-> [t \in Instants |-> Unknown]]

(* t lies strictly after the latest change of belief about k. *)
AfterLatestChange(k, t) ==
    \A u \in Instants : u >= t - 1 => belief[k][u] = belief[k][t]

Learn(k, f, t) ==
    /\ AfterLatestChange(k, t)
    /\ belief[k][t] # f
    /\ belief' = [belief EXCEPT ![k] =
                    [u \in Instants |-> IF u >= t THEN f ELSE belief[k][u]]]

TimelineNext == \E k \in Keys, f \in Fingerprints, t \in Instants : Learn(k, f, t)

TimelineSpec == TimelineInit /\ [][TimelineNext]_belief
=============================================================================
