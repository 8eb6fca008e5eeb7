SPECIFICATION RestSpec
CONSTANTS
    Requests = {r1, r2, r3}
    MaxEpoch = 3
\* Each request is made once.
CHECK_DEADLOCK FALSE
INVARIANTS
    RestTypeOK
    PerformedOnce
    ExpiredIsRenewed
