SPECIFICATION FairSpec
CONSTANTS
    Callers = {c1, c2}
    Sweeper = sweeper
    Ops = {"cancel", "pause", "resume"}
    MaxOps = 2
    MaxRuns = 2
    MaxCrashes = 1
INVARIANT
    RunningIsReachable
PROPERTIES
    DoorbellRings
    SuccessorStarts
CHECK_DEADLOCK FALSE
