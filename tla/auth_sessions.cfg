SPECIFICATION Spec
CONSTANTS
    c1 = c1
    c2 = c2
    Calls = {c1, c2}
    MaxCodes = 2
    MaxSessions = 3
    MaxTries = 2
    Scopes <- Mixed
INVARIANTS
    TypeOK
    OneSessionPerCode
    RevocationStands
SYMMETRY Slots
CHECK_DEADLOCK FALSE
