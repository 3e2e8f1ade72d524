------------------------ MODULE MCObservationQueries ------------------------
(***************************************************************************)
(* TLC instance of ObservationQueries: two observations of the first date  *)
(* and one of the second.                                                  *)
(***************************************************************************)
EXTENDS ObservationQueries

CONSTANTS f1, f2, k1, k2, k3

MCPosition == k1 :> 1 @@ k2 :> 2 @@ k3 :> 3
MCObservedOn == k1 :> 1 @@ k2 :> 1 @@ k3 :> 2

Symmetric == Permutations(Fingerprints)
=============================================================================
