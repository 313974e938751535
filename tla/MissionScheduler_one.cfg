CONSTANTS
    m1 = m1
    m2 = m2
    m3 = m3
    a = a
    b = b
    c = c
    d = d
    Missions = {m1, m2, m3}
    NoMission = NoMission
    Tasks = {a, b, c, d}
    NoTask = NoTask
    TasksOf <- ThreeTasksOf
    Wave <- ThreeWaves
    Priority <- ThreePriorities
    HasDeadline = {m2}
    Ceiling = 2
    Costs = {0, 2}
    MaxTaskRetries = 1
    MaxRetries = 1
    MaxConcurrent = 1
    Runners = {r1}
    MaxPauses = 2
    MaxStops = 1
SPECIFICATION Spec
INVARIANTS
    TasksInOrder
    OvershootBounded
