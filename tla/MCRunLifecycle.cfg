CONSTANTS
    MaxRuns = 2
    Series = {s1, s2}
    Ranges <- ChainedRanges
    NoRange = NoRange
    Workers = {w1, w2}
    Clients = {c1, c2}
    MaxExits = 1
    LeaseOutlivesWork = TRUE
SYMMETRY Symmetric
CHECK_DEADLOCK FALSE
SPECIFICATION Spec
INVARIANTS
    TerminalStatusIsHonest
    NoConcurrentProcessing
    SkipsSpareOne
    ManualRunsExclusive
PROPERTY
    EndedScopesAreFinal
