SPECIFICATION FairSpec
CONSTANTS
    Namespace = {"n1"}
    Route = {"r1"}
    DefaultNs = {"n1"}
    Request <- Everything
    MaxChanges = 1
    MaxInFlight = 2
    MaxCrashes = 0
    MaxStoreFails = 0
CHECK_DEADLOCK FALSE
PROPERTY RestartRollsBack
