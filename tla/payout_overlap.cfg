SPECIFICATION FairSpec
CONSTANTS
    j1 = j1
    k1 = k1
    k2 = k2
    c1 = c1
    c2 = c2
    None = None
    Nobody = Nobody
    Admin = Admin
    Jobs = {j1}
    Carriers = {k1}
    Calls = {c1, c2}
    Connected = {k1}
    ClearingDays = 0
    MaxLines = 2
    MaxCycles = 1
    MaxFaults = 1
    Faults = {"refused", "lost", "crash"}
    Requests = {"complete", "cycle", "release", "refund"}
INVARIANTS
    TypeOK
    RowsBacked
PROPERTIES
    CoveredLineSettles
CHECK_DEADLOCK FALSE
