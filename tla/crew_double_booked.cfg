SPECIFICATION Spec
CONSTANTS
    j1 = j1
    j2 = j2
    p1 = p1
    p2 = p2
    p3 = p3
    c1 = c1
    c2 = c2
    None = None
    Jobs = {j1, j2}
    Proposals = {p1, p2, p3}
    Calls = {c1}
    JobOf <- TwoJobOf
    CarrierOf <- OwnCarrier
    CrewOf <- SharedCrew
    MaxEvents = 3
    MaxFaults = 0
    Requests = {"bid", "accept"}
INVARIANT
    CrewSingleAward
CHECK_DEADLOCK FALSE
