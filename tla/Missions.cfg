CONSTANTS
    Loops = {l1, l2}
    NoLoop = NoLoop
    Steps = 2
    Plans = {{}, {1}}
    Cost = 1
    Limit = 2
    MaxRestarts = 1
    MaxCalls = 2
    Readers = {r1, r2}
    Keys = {k1}
    Holders = {h1, h2}
    LeaseTTL = 1
    MaxPublished = 2
SPECIFICATION SumSpec
CHECK_DEADLOCK FALSE
INVARIANTS
    Accountable
    LoopsFollowStatus
PROPERTIES
    RunningEnds
    ImplementsChannel
    ReadersEnd
