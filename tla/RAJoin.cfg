SPECIFICATION Spec
CONSTANTS
    a = a
    b = b
    Node = {a, b}
    NoNode = NoNode
    First = a
    Caller = {"join", "ops", "peer"}
    Retries <- OneRetry
    MaxHops = 1
    MaxFaults = 1
    MaxElections = 1
    Discovered <- TheFollower
    ClusterAddrs <- TheLeader
    WatchOnly = FALSE
    JoinRetries = 0
    OpsCommand = {"LeadershipTransfer", "GetConfiguration", "Unknown"}
CHECK_DEADLOCK FALSE
INVARIANTS
    CommandsAccounted
    JoinedIsMember
    HealthyClusterAdmits
PROPERTIES
    CallersEnd
