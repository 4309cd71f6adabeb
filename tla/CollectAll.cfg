SPECIFICATION FairSpec
CONSTANTS
    Count = 2
    Kind = "All"
    Scoped = TRUE
    Prior = {}
    MaxCrashes = 2
INVARIANTS
    TypeOK
    AtMostOneTerminal
    ReplayAgrees
    ReturnedIsResolved
PROPERTY
    EventuallyReturns
CHECK_DEADLOCK FALSE
