SPECIFICATION FairSpec
CONSTANTS
    NoEntity = NoEntity
    Shards = {"p", "q"}
    Ids = {"a", "b"}
    KeyOrder <- Order2
    Limit <- Limit2
    CondenseFrequency = 0
    GroupSize = 10
    MaxTime = 2
    MaxFailures = 1
CHECK_DEADLOCK FALSE
INVARIANT TypeOK
INVARIANT CountsAddUp
INVARIANT NoDoubleReads
PROPERTY CountsAreSaved
