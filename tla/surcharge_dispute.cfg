SPECIFICATION FairSpec
CONSTANTS
    c1 = c1
    c2 = c2
    Calls = {c1, c2}
    MaxCases = 1
    MaxWait = 2
    MaxAttempt = 1
    Scopes <- Mixed
INVARIANTS
    TypeOK
    PaidIsCaptured
    BilledInFull
    PaidInFull
    WaivedKeepsNothing
    RulingStands
PROPERTY
    CaptureBooked
CHECK_DEADLOCK FALSE
