CONSTANTS
    Members = {a1, a2, a3}
    Resources = {r1, r2, r3}
    Uses = {{a1, r1}, {a1, r2}, {a1, r3}, {a2, r1}, {a2, r3}, {a3, r2}, {a3, r3}}
    NoMember = NoMember
    MaxEdges = 4
    Jobs = {j1, j2, j3}
    Waves = {w1}
    Monitors = {m1, m2}
    Nodes = {n1, n2}
    Urls = {u1, u2}
    Calls = {c1}
    Window = 2
    Voters = {v1, v2, v3, v4}
    LocalNode = v1
    Configs = {k1, k2}
    Contents = {d0, d1, d2}
    NoUsers = {d0}
    Restores = {x1, x2}
    MaxFaults = 2
    Messages = {e1, e2}
    Subscribers = {s1}
    Routed = {s1}
    MaxRetry = 2
    Batch = 1
    TaskCount = 2
    MaxIterations = 4
    Executors = {x1, x2, x3}
    Registered = {x1, x2}
    Spawning = {x1}
    Errors = {f1}
    NoExecutor = NoExecutor
    HostedModel = claude
    LocalModel = llama
    Requests = {c1, c2}
    Direct = {d1}
    MaxSlots = 1
    MaxPerMinute = 1
    MaxSends = 1
    MaxStrikes = 2
    StreamLength = 1
    Memories = {m1, m2}
    Texts = {c1}
    Pinned = {m1}
    Shared = {m1}
    NoMemory = NoMemory
    MaxAccess = 2
    ChunkIds = {k1, k2}
    ChunkTexts = {{k1, k2}}
    ChunkCalls = {q1, q2}
    Indexed = {k1}
    MaxAttempts = 2
    WorkingSize = 1
    NoChunk = NoChunk
    Facts = {g1}
    Aliased = {}
    MemoryIds = {i1, i2}
    Updates = {u1, u2}
    MaxVersion = 2
    NoRow = NoRow
    WorkNodes = {1, 2, 3}
    TypesHandled = {1, 2}
    WorkAttempts = 2
    MaxRuns = 2
    SkillIds = {a1, a2}
    BaseSkill = a1
    SkillCalls = {y1, y2}
    NoSkill = NoSkill
    Names = {n1, n2}
    Secrets = {x1, x2}
    MaxKeys = 3
    NoEntry = NoEntry
    Devices = {1, 2}
    SyncClients = {1, 2, 3}
    Edits = {e1, e2}
    VaultEdits = {e1}
    Sessions = {{e1, e2}}
    MaxCount = 2
    MaxTotal = 3
    NoPackage = NoPackage
    Steps = {s1, s2}
    Run = Run
    Policies = {"CONTINUE", "RETRY_STEP"}
    MaxLookup = 2
    LlmCalls = {c1, c2, c3}
    LlmModels = {o1}
    MaxCost = 2
    CallLimit = 1
    WarnAt = 2
    DailyLimit = 3
    MaxSpans = 2
    MaxRecent = 1
    NoSpan = NoSpan
    Personas = {p1, p2}
    IdentityCalls = {z1, z2}
    DefaultPersona = DefaultPersona
    NoPersona = NoPersona
    Episodes = {e1, e2}
    Nameless = {e2}
    GoalName = GoalName
    Extractable = {w1}
    Cycles = {y1, y2}
    MaxRecorded = 2
    Limit = 1
    NoNode = NoNode
    GoalIds = {g1}
    GoalCalls = {z1, z2}
    NoGoalId = NoGoalId
SPECIFICATION SumSpec
CHECK_DEADLOCK FALSE
INVARIANTS
    EventBusSafe
    AgentLoopSafe
    ProvidersSafe
    WorkflowSafe
    SkillsSafe
    StateSafe
    MemorySafe
    RecordsSafe
PROPERTIES
    DeadlocksGo
    JobsAccounted
    FederationSafe
    DecisionsHold
    RestoresAreSafe
    KernelSafe
    MemoryRecordsSafe
