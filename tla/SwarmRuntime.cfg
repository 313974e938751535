CONSTANTS
    t1 = t1
    t2 = t2
    Tasks = {t1, t2}
    NoTask = NoTask
    Priority <- TwoPriorities
    Slots = {s1, s2}
    MaxRetry = 1
    MaxEvents = 1
SPECIFICATION PartSpec
INVARIANTS
    SwarmConsistent
PROPERTIES
    PendingIsTaken
CHECK_DEADLOCK FALSE
