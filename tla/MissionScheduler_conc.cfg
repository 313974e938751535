CONSTANTS
    m1 = m1
    m2 = m2
    m3 = m3
    a = a
    b = b
    c = c
    d = d
    Missions = {m1, m2, m3}
    NoMission = NoMission
    Tasks = {a, b, c}
    NoTask = NoTask
    TasksOf <- ShortTasksOf
    Wave <- ShortWaves
    Priority <- ThreePriorities
    HasDeadline = {}
    Ceiling = 1
    Costs = {2}
    MaxTaskRetries = 0
    MaxRetries = 1
    MaxConcurrent = 2
    Runners = {r1, r2}
    MaxPauses = 1
    MaxStops = 1
SPECIFICATION FairSpec
INVARIANTS
    PlacesKept
PROPERTIES
    MissionsProgress
