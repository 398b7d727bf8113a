CONSTANTS
    a = a
    b = b
    c = c
    d = d
    x = x
    NoEntity = NoEntity
    Ids = {x}
    Requests = {a, b, c}
    ReadOnly = {}
    SweepTasks = {}
    SessionId <- OneSession
    Timeout = 3
    ExecutionTimeout = 1
    MaxLostAcks = 0
    SweepInterval = 1
    MaxTime = 2
SPECIFICATION Spec
PROPERTIES WrittenToUnlock
CHECK_DEADLOCK FALSE
