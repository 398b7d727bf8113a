CONSTANTS
    a = a
    b = b
    c = c
    d = d
    x = x
    NoEntity = NoEntity
    Ids = {x}
    Requests = {a, b, c}
    ReadOnly = {}
    SweepTasks = {}
    SessionId <- OneSession
    Timeout = 1
    ExecutionTimeout = 1
    MaxLostAcks = 1
    SweepInterval = 1
    MaxTime = 2
SPECIFICATION FairSpec
INVARIANTS TypeOK CountsAgree OneHolderPerCount
PROPERTIES SavedItemsSurvive BreakOnlyOldLocks LocksEnd ImplementsLease
CHECK_DEADLOCK FALSE
