CONSTANTS
    Candidates = {c1, c2}
    Tokens = {t1, t2}
    NoToken = NoToken
    TTL = 2
    Interval = 1
    MaxLag = 0
    Timely = FALSE
    Faults = TRUE
    Direct = TRUE
    BoundedCampaign = TRUE
SPECIFICATION FairSpec
INVARIANTS
    LeaderIffToken
PROPERTIES
    OnlyHolderFreesLease
    StaleLeaderStepsDown
