CONSTANTS
    TicksPerDay = 2
    s1 = s1
    s2 = s2
    Policies <- MCPolicies
    Series = {s1, s2}
    Schedulers = {p1}
    Requests <- MCRequests
    NoWindow = NoWindow
    MaxClock = 20
    MaxRuns = 4
    MaxFailures = 1
    MaxRequests = 1
SPECIFICATION FairSpec
INVARIANTS
    DueDatesAreRequested
    ScheduledSuccessIsComplete
    NoDuplicateWork
    NoFalseAlarm

    
