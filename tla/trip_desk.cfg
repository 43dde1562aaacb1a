SPECIFICATION FairSpec
CONSTANTS
    c1 = c1
    c2 = c2
    v1 = v1
    v2 = v2
    d1 = d1
    d2 = d2
    Calls = {c1, c2}
    Vehicles = {v1, v2}
    Drivers = {d1, d2}
    Cases = {1, 2}
    Scopes <- Mixed
INVARIANTS
    TypeOK
    StartedIsCleared
    NotStranded
PROPERTIES
    ResolvedStays
    PreTripAnswered

CHECK_DEADLOCK FALSE
