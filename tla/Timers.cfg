SPECIFICATION FairSpec
CONSTANTS
    MaxCrashes = 1
    MaxFailures = 1
    MaxAttempts = 2
    WithClient = TRUE
    MaxClock = 2
    FireAt <- MCFireAt
INVARIANT Inv
INVARIANT ReplayAgrees
PROPERTY FirstRecordedWins
PROPERTY NothingFiresAfterTheEnd
PROPERTY DueTimersSettle
PROPERTY TimedOutIsTornDown
CHECK_DEADLOCK FALSE
