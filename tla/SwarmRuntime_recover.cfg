CONSTANTS
    t1 = t1
    t2 = t2
    Tasks = {t1}
    NoTask = NoTask
    Priority <- OnePriority
    Slots = {s1, s2}
    MaxRetry = 1
    MaxEvents = 1
SPECIFICATION PartSpec
PROPERTIES
    RecoveredIsExecuted
CHECK_DEADLOCK FALSE
