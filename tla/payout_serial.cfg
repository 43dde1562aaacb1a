SPECIFICATION Spec
SYMMETRY CarriersAlike
CONSTANTS
    j1 = j1
    k1 = k1
    k2 = k2
    c1 = c1
    c2 = c2
    None = None
    Nobody = Nobody
    Admin = Admin
    Jobs = {j1}
    Carriers = {k1, k2}
    Calls = {c1}
    Connected = {k1, k2, Admin}
    ClearingDays = 0
    MaxLines = 4
    MaxCycles = 2
    MaxFaults = 1
    Faults = {"refused"}
    Requests = {"complete", "cycle", "release", "refund"}
INVARIANTS
    LinePaidOnce
PROPERTIES
    VoidStays
CHECK_DEADLOCK FALSE
