SPECIFICATION FairSpec
CONSTANTS
    MaxCrashes = 1
    MaxFailures = 2
    MaxContinues = 1
    MaxReopens = 1
INVARIANTS
    Inv
    ReplayAgrees
    RecordedOnceAndTrue
PROPERTIES
    AwaitsReturn
    RecordedChildrenStart
CHECK_DEADLOCK FALSE
