SPECIFICATION Spec
CONSTANTS
    c1 = c1
    c2 = c2
    v1 = v1
    v2 = v2
    None = None
    Calls = {c1, c2}
    Vehicles = {v1, v2}
    MaxDocs = 3
    MaxCases = 2
    Scopes <- FleetOnly
INVARIANT
    ReviewedBeforeUse
SYMMETRY Slots
CHECK_DEADLOCK FALSE
