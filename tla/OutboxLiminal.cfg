SPECIFICATION FairSpec
CONSTANTS
    Workflows = {w1}
    Ordinals = {0}
    MaxRuns = 1
    MaxAttempts = 2
    BatchSize = 1
    StaleBatch = 1
    Transport = "liminal"
    Pausable = {}
    MaxCrashes = 2
    MaxFaults = 2
INVARIANTS
    Inv
    BuriedStaysBuried
PROPERTIES
    MembersSettle
    TerminalRowsRetire
CHECK_DEADLOCK FALSE
