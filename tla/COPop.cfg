SPECIFICATION PopSpec
CONSTANTS
    b1 = b1
    b2 = b2
    c1 = c1
    c2 = c2
    x = x
    w = w
    Bucket = {b1, b2}
    Task = {b1, b2, x}
    Key = {c1, c2}
    MaxDefs = 4
    Copies = {o1, o2}
    MaxQueued = 3
    MaxItems = 1
    TTL = {0, 1}
    Every = 1
    Proc = {p1}
    MaxTime = 2
    Loads <- OneAtATime
    None = None
    TreeKey = {1, 2, 3, 4, 5, 6, 7}
    Value = {u, w}
    NoValue = NoValue
    Item = {1, 2, 3, 4}
    RankOf <- Halved
    MaxLength = 5
    Pair = {1, 2, 3, 4}
    KeyOf <- Halved
    MaxPairs = 6
INVARIANT
    PopReturnsValue
