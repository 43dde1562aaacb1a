SPECIFICATION Spec
CONSTANTS
    j1 = j1
    j2 = j2
    p1 = p1
    p2 = p2
    p3 = p3
    c1 = c1
    c2 = c2
    None = None
    Jobs = {j1}
    Proposals = {p1, p2}
    Calls = {c1, c2}
    JobOf <- OneJobOf
    CarrierOf <- OwnCarrier
    CrewOf <- OwnCrew
    MaxEvents = 2
    MaxFaults = 1
    Requests = {"bid", "withdraw", "accept", "sync", "cancel", "release"}
INVARIANTS
    OpenJobBidsOpen
    AwardStands
    ReservationRecoverable
CONSTRAINT Alone
SYMMETRY SlotsAndBids
CHECK_DEADLOCK FALSE
