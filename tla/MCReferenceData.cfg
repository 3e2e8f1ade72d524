CONSTANTS
    Configurations <- MCConfigurations
    NotLoaded = NotLoaded
    Enqueuers = {api}
    Workers = {w1}
    Commands <- MCCommands
    NoCommand = NoCommand
    MaxEdits = 2
    MaxRuns = 1
CHECK_DEADLOCK FALSE
SPECIFICATION Spec
INVARIANTS
    ValidatedSynchronizes
    ActiveSeriesUsable
    SynchronizedIsReady
    RecordedConfigurationSuffices
PROPERTY
    RunsPlanActiveSeries
