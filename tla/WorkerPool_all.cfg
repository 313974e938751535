CONSTANTS
    w1 = w1
    w2 = w2
    v1 = v1
    v2 = v2
    Nobody = Nobody
    NoWave = NoWave
    Workers = {w1, w2}
    Waves = {v1, v2}
    Callers = {c1}
    Wired = {c1}
    LoadAware = {c1}
    Fits <- TwoFits
    Grace = 1
    MaxLaunches = 2
SPECIFICATION FairSpec
INVARIANTS
    StoppedIsOffline
    LoadIsExact
PROPERTIES
    OfflineRecovers
