CONSTANTS
    m1 = m1
    m2 = m2
    m3 = m3
    a = a
    b = b
    c = c
    d = d
    Missions = {m1, m2}
    NoMission = NoMission
    Tasks = {a, b, c}
    NoTask = NoTask
    TasksOf <- TwoTasksOf
    Wave <- TwoWaves
    Priority <- TwoPriorities
    HasDeadline = {m2}
    Ceiling = 2
    Costs = {0, 2}
    MaxTaskRetries = 1
    MaxRetries = 1
    MaxConcurrent = 1
    Runners = {r1}
    MaxPauses = 1
    MaxStops = 0
SPECIFICATION Spec
PROPERTIES
    TerminalStatesStay
CHECK_DEADLOCK FALSE
