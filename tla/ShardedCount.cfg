SPECIFICATION FairSpec
CONSTANTS
    None = None
    Threads = {t, u}
    Readers = {r, q}
    t = t
    u = u
    r = r
    q = q
    MaxCount = 2
CHECK_DEADLOCK FALSE
INVARIANT TypeOK
INVARIANT ShardsAddUp
PROPERTY ImplementsReadings
PROPERTY DeadShardsAreRemoved
