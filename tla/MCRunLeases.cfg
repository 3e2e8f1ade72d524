CONSTANTS
    MaxRuns = 2
    Series = {s1}
    Ranges <- OneRange
    NoRange = NoRange
    Workers = {w1, w2}
    Clients = {c1}
    MaxExits = 1
    LeaseOutlivesWork = FALSE
CHECK_DEADLOCK FALSE
SPECIFICATION FairSpec
INVARIANTS
    RunHasOneWorker
PROPERTIES
    TerminalRunsAreFinal
    OnlyExitsAbandonRuns
    RunsEndOrAreAbandoned
    StartupRecoversExpired
