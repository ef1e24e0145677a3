SPECIFICATION ReqSpec
CONSTANTS
    Req = {p1, p2}
    Admin = Admin
    Restart = Restart
    Ext = {e1, e2, e3}
    MaxBuffers = 1
    MaxReloads = 2
    MaxFails = 1
    None = None
    Request = {r1, r2}
    Writes = {r2}
    Url = {u1, u2}
    First = u1
    Retries = 1
    MaxNewProviders = 1
    k1 = k1
    m0 = m0
    Goroutine = {g1, g2}
    LockKey = {k1, k2}
    Mutex = {m0, m1, m2}
    Warm = {k1}
    WarmLock <- OneWarmLock
    Ops = {"Lock", "RLock", "LockMain", "RLockMain"}
    NoMutex = NoMutex
CHECK_DEADLOCK FALSE
INVARIANTS
    RuntimesExclusive
    RouteServes
    WritesDeliveredOnce
    OwnUpstream
    FailsForCause
    WarmKeysExclusive
PROPERTIES
    RequestsEndOrCircle
    
    CallsReturn
