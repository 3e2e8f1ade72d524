--------------------------- MODULE MCRunLifecycle ---------------------------
(***************************************************************************)
(* TLC instances of RunLifecycle.                                          *)
(***************************************************************************)
EXTENDS RunLifecycle, TLC

\* Neighbours share one boundary day, the first and the last are apart.
ChainedRanges ==
    {[start |-> 1, end |-> 2], [start |-> 2, end |-> 3], [start |-> 3, end |-> 4]}
OneRange == {[start |-> 1, end |-> 1]}

Symmetric == Permutations(Workers) \cup Permutations(Clients)
=============================================================================
