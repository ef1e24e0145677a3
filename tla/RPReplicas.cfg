SPECIFICATION Spec
CONSTANTS
    Namespace = {"n1"}
    Route = {"r1"}
    DefaultNs = {"n1"}
    Node = {a, b}
    First = a
    Request <- OneRoute
    MaxCalls = 2
    MaxInFlight = 2
    MaxElections = 1
    MaxReboots = 1
CHECK_DEADLOCK FALSE
INVARIANTS
    FollowersReplay
    LeaderConverges
    CaughtUpServes
