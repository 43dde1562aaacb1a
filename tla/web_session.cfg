SPECIFICATION FairSpec
CONSTANTS
    MaxRequests = 3
    MaxSessions = 4
    Scopes <- Mixed
INVARIANTS
    TypeOK
    NeverReuses
PROPERTIES
    StaysSignedIn
    RequestsSettle
CHECK_DEADLOCK FALSE
