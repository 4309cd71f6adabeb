SPECIFICATION Spec
CONSTANTS
    Workflows = {w1}
    Ordinals = {0}
    MaxRuns = 2
    MaxAttempts = 2
    BatchSize = 1
    StaleBatch = 1
    Transport = "grpc"
    Pausable = {}
    MaxCrashes = 1
    MaxFaults = 1
INVARIANT
    ResolvedByOwnRun
CHECK_DEADLOCK FALSE
