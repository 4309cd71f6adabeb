SPECIFICATION Spec
CONSTANTS
    Count = 2
    Kind = "Race"
    Scoped = TRUE
    Prior = {}
    MaxCrashes = 2
INVARIANT
    RaceHasOneWinner
PROPERTY
    Implements
CHECK_DEADLOCK FALSE
