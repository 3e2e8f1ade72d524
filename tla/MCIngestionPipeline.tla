------------------------ MODULE MCIngestionPipeline ------------------------
(***************************************************************************)
(* TLC instances of IngestionPipeline.                                     *)
(***************************************************************************)
EXTENDS IngestionPipeline, TLC

CONSTANTS f1, f2, k1, k2

MCObservedOn == [k \in Keys |-> 1]

Value(k, f) == [kind |-> "value", key |-> k, fingerprint |-> f]
Other(kind) == [kind |-> kind, key |-> k1, fingerprint |-> f1]

\* Two observations, either of which may be revised; a response that says the
\* same twice, one that contradicts itself, and one with each other record.
MCBodies ==
    {<<Value(k1, f), Value(k2, f1)>> : f \in Fingerprints}
    \cup {<<Value(k1, f1), Value(k1, f)>> : f \in Fingerprints}
    \cup {<<Other(kind), Value(k1, f2)>> : kind \in {"absence", "malformed", "invalid"}}
=============================================================================
