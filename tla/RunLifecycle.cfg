SPECIFICATION Spec
CONSTANTS
    Callers = {c1, c2}
    Sweeper = sweeper
    Ops = {"cancel", "pause", "resume", "reopen", "continue"}
    MaxOps = 3
    MaxRuns = 2
    MaxCrashes = 1
INVARIANTS
    Inv
    OneTerminalPerLease
    TransitionsAreLegal
SYMMETRY CallerSymmetry
CHECK_DEADLOCK FALSE
