SPECIFICATION FairSpec
CONSTANTS
    MaxAttempts = 2
    MaxRestarts = 1
    MaxReopens = 1
    MaxStrays = 1
    Reopenable = {"RunFailed"}
INVARIANT Inv
INVARIANT ReplayAgrees
INVARIANT NothingBehindTheTerminal
PROPERTY AwaitReturns
CHECK_DEADLOCK FALSE
