CONSTANTS
    f1 = f1
    f2 = f2
    w1 = w1
    w2 = w2
    Keys = {k1}
    Fingerprints = {f1, f2}
    Writers = {w1, w2}
    ObservedOn <- MCObservedOn
    Unknown = Unknown
    NoTransaction = NoTransaction
    MaxInstant = 4
SYMMETRY Symmetric
SPECIFICATION Spec
INVARIANTS
    TypeOK
    TableConstraints
    CurrentQueriesAgree
    KnowledgeIsGapless
    LineageExplainsVersions
PROPERTIES
    SupersededVersionsFrozen
    SettledAnswersRepeat
    ImplementsTimeline
