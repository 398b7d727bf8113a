SPECIFICATION FairSpec
CONSTANTS
    s1 = s1
    s2 = s2
    h1 = h1
    h2 = h2
    NoBoard = NoBoard
    Boards <- Boards4
    Puzzle = 1
    NextMoves <- Moves4
    Complete <- Complete4
    Below <- Below4
    Handlers = {h1}
    Servers = {s1}
    ServerOf <- OneServer
    Modes = {TRUE, FALSE}
    FailingCalls = {"lookup"}
    MaxFailures = 1
    MaxRedeliveries = 0
    MaxParallelBranches = 2
CHECK_DEADLOCK FALSE
PROPERTY EventuallyFindsASolution
