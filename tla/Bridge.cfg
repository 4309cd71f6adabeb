SPECIFICATION FairSpec
CONSTANTS
    Calls = {1, 2}
    Workers = {1, 2}
    Transports = {{}, {1}}
INVARIANT Inv
PROPERTY CallsReturn
CHECK_DEADLOCK FALSE
