SPECIFICATION FairSpec
CONSTANTS
    c1 = c1
    c2 = c2
    Calls = {c1, c2}
    Stops = {1, 2, 3}
    Bounce = 2
    Scopes <- Mixed
INVARIANTS
    TypeOK
    DeliveredIsProven
    StopsInOrder
PROPERTIES
    Debounced
    TripCompletes
CHECK_DEADLOCK FALSE
