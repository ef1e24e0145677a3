SPECIFICATION Spec
CONSTANTS
    Namespace = {"n1", "n2"}
    Route = {"r1", "r2"}
    DefaultNs = {"n1"}
    Request <- TwoNamespaces
    MaxChanges = 4
    MaxInFlight = 2
    MaxCrashes = 1
    MaxStoreFails = 1
CHECK_DEADLOCK FALSE
INVARIANTS
    StoreHoldsAccepted
    TablesCurrent
    ReplayRebuildsState
