SPECIFICATION FairSpec
CONSTANTS
    s1 = s1
    s2 = s2
    h1 = h1
    h2 = h2
    NoBoard = NoBoard
    Boards <- Boards4
    Puzzle = 1
    NextMoves <- Moves4
    Complete <- Complete4
    Below <- Below4
    Handlers = {h1, h2}
    Servers = {s1, s2}
    ServerOf <- TwoServers
    Modes = {TRUE, FALSE}
    FailingCalls = {"lookup", "settings", "set", "publish"}
    MaxFailures = 1
    MaxRedeliveries = 1
    MaxParallelBranches = 2
CHECK_DEADLOCK FALSE
INVARIANT TypeOK
INVARIANT NothingLost
INVARIANT StacksDisjoint
INVARIANT SolutionsAreReal
PROPERTY SearchAdvances
PROPERTY PuzzleIsSolved
PROPERTY SearchEnds
PROPERTY ImplementsSearch
