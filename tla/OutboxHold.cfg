SPECIFICATION FairSpec
CONSTANTS
    Workflows = {w1, w2}
    Ordinals = {0}
    MaxRuns = 1
    MaxAttempts = 1
    BatchSize = 1
    StaleBatch = 0
    Transport = "liminal"
    Pausable = {w1}
    MaxCrashes = 1
    MaxFaults = 0
PROPERTY
    HeldRowsDoNotStarve
CHECK_DEADLOCK FALSE
