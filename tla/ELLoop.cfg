SPECIFICATION FairSpec
CONSTANTS
    Timeout = {t1}
    Interval = {i1}
    Immediate = {m1}
    MaxJobs = 1
    MaxCalls = 2
    None = None
INVARIANTS
    LoopKeepsCount
PROPERTIES
    NobodyWaits
    CallsKeepOrder
