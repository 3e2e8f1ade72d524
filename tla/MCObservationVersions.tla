----------------------- MODULE MCObservationVersions -----------------------
(***************************************************************************)
(* TLC instance of ObservationVersions.                                    *)
(***************************************************************************)
EXTENDS ObservationVersions, TLC

CONSTANTS f1, f2, w1, w2

\* The observation date only begins at the second instant, so that a version
\* can be stored before an as-of read may show it.
MCObservedOn == [k \in Keys |-> 2]

Symmetric == Permutations(Fingerprints) \cup Permutations(Writers)
=============================================================================
