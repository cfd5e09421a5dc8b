CONSTANTS
    Requests = {r1, r2}
    Sizes = {0, 3}
    NumPools = 2
    MinPool = 2
    Block = 2
    Limit = 2
    MaxReseeds = 1
    Chunks = {1}
    MaxPool = 1
SPECIFICATION Spec
INVARIANTS
    LimitRespected
    PoolsUsedOnTime
PROPERTIES
    FreshOutput
    ReseedIsFull
    RequestsAreAnswered
