SPECIFICATION FairSpec
CONSTANTS
    MaxSignals = 2
    MaxCrashes = 1
    MaxHolds = 1
INVARIANT Inv
INVARIANT ReplayAgrees
INVARIANT ReceivesInOrder
PROPERTY ReceivesReturn
CHECK_DEADLOCK FALSE
