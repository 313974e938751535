CONSTANTS
    Candidates = {c1, c2}
    Tokens = {t1, t2, t3, t4, t5}
    NoToken = NoToken
    TTL = 6
    Interval = 2
    MaxLag = 1
    Timely = TRUE
    Faults = FALSE
    Direct = FALSE
    BoundedCampaign = FALSE
SPECIFICATION Spec
INVARIANTS
    AtMostOneLeader
SYMMETRY Symmetry
