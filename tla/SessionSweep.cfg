CONSTANTS
    a = a
    b = b
    c = c
    d = d
    x = x
    NoEntity = NoEntity
    Ids = {x}
    Requests = {a, b}
    ReadOnly = {b}
    SweepTasks = {c, d}
    SessionId <- OneSession
    Timeout = 1
    ExecutionTimeout = 1
    MaxLostAcks = 0
    SweepInterval = 1
    MaxTime = 3
SPECIFICATION Spec
PROPERTIES OnlyExpiredAreSwept SweepsAreSpaced
CHECK_DEADLOCK FALSE
