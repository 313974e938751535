CONSTANTS
    Tasks = {t1, t2, t3}
    Unknown = u
    Copies = 1
    Agents = {a1, a2}
    MaxConcurrent = 1
    WaveTasks = {w1, w2, w3}
    Missing = w0
    SameKey = {w1, w2}
    Guarded = {w1}
    Slots = 2
    MaxToolRetries = 1
    Goals = {g1, g2}
    PlanWaves = 2
    DailyBudget = 2
    SessionBudget = 2
    MaxCallCost = 2
    GoalTasks = 2
    MaxAsked = 2
SPECIFICATION SumSpec
CHECK_DEADLOCK FALSE
INVARIANTS
    ResolverCorrect
    WaveIsTruthful
PROPERTIES
    ResolveTerminates
    PoolSafe
    PoolDrains
    WaveEnds
    GoalsSafe
