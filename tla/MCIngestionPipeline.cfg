CONSTANTS
    f1 = f1
    f2 = f2
    k1 = k1
    k2 = k2
    Keys = {k1, k2}
    Fingerprints = {f1, f2}
    Writers = {1, 2, 3}
    ObservedOn <- MCObservedOn
    Unknown = Unknown
    NoTransaction = NoTransaction
    MaxInstant = 3
    Bodies <- MCBodies
    Garbage = Garbage
CHECK_DEADLOCK FALSE
SPECIFICATION PipelineSpec
INVARIANTS
    EffectsHaveEvidence
    CountersMatchEffects
    SucceededScopeIsAuthoritative
    RetriesAddNoVersions
PROPERTIES
    ImplementsObservationVersions
