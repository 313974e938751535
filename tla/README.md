# JARVIS: TLA+ specifications

Specifications, model-checking configurations and proofs for JARVIS: the
execution of missions, tasks and waves (`core/mission`, `core/runtime`), the
workflow, tool and reasoning engines (`core/workflow`, `core/tools`,
`core/reasoning`), and the services around them: event bus, memory, skills,
vault, synchronisation, accounting and the kernel that starts them all. Paths in
this file are relative to the repository's root.

## 1. The system

JARVIS is an assistant platform in asyncio Python. Users keep *goals*; the
reasoning engine plans them into waves of tool calls; longer work runs as
*missions* that survive restarts, as tasks of a *swarm* of agents, or as
workflows. Several processes may share missions over Redis and a database.

| Component (`PROJECT.json`) | State | Operations | Hard behaviour | Status |
|---|---|---|---|---|
| Goal dependency resolver | in-degrees, ready list, waves | `resolve` | duplicate, unknown and cyclic dependencies | modelled |
| Mission scheduler | mission and task status, queue, `_running`, budgets, retry counters | schedule, cancel, pause, resume, `run_next`, runner start and stop | callers act while a task is in the executor; nested retries; a limit | modelled |
| Leader election | role and token per candidate; key and TTL in Redis | acquire, renew, release, campaign, close | stale roles across awaits, late commands, cancellation | modelled |
| Worker pool | `worker_registry`, `task_routing_log`, processes | register, heartbeat, route, start and complete a task, mark offline | crashes, missed heartbeats, duplicate deliveries, stale snapshots | partly |
| Mission transports | channels, subscriptions, pumps, leases | publish, subscribe, lease, renew, release, close | a subscription that races a publication, pumps that fail, closing under readers | modelled |
| Mission manager | durable mission rows, `_running_tasks`, loops | create, start, pause, resume, cancel, checkpoint, roll back, recover | a crash between two transactions, overlapping calls, two loops | modelled |
| Swarm runtime and recovery | `SwarmTask` objects, queue, `swarm_tasks` with versions | submit, claim, save, retry, cancel, recover | optimistic locking across awaits, stale versions after recovery | partly |
| Agent runtime coordination | locks, wait-for graph, votes, message envelopes | acquire, detect, resolve, vote, expire, send | deadlock, membership that changes under a vote, repeated sends | partly |
| Agent orchestration | subagents, watchdog, waves of jobs | spawn, heartbeat, terminate, shut down; register, complete, fail, requeue | a lock held while a container stops; stalled agents that finish after all | partly |
| Federation and administration | peers in memory and on file, replay cache, configuration, backups | register, route, receive; configure, back up, restore | late and repeated requests, lost answers, overlapping restores | partly |
| Workflow engine | graph, node states, checkpoint | run, retry, checkpoint, resume | siblings that go on after the run failed | partly |
| Event bus | subscribers, stream position, dispatches | publish, subscribe, poll, retry, stop, restart | batches, timeouts, lost answers | modelled |
| Tool execution | task coroutines, idempotency keys, approvals, run records | run a wave, retry, cancel, record, resume | cancellation before a task began, reports written out of order | partly |
| Kernel and lifecycle | container, services, phases | boot, start, stop, shut down | a failure in any phase, of any service | partly |
| Goal engine | plans, waves, budget; rows of goals | plan, execute, reflect, repair; create, update, complete | budgets checked before and charged after an await | partly |
| Agent loop and providers | task queue, repairs, processes; slots, health, cooldown | dispatch, repair, retry; route, send, back off, stream | nested repairs, slots under cancellation, late answers | partly |
| Identities | rows, cached persona, brain context | create, activate, update, delete | requests that cross | modelled |
| Memory | tiered records, chunks with index, versioned facts, knowledge graph | store, recall, promote, archive, forget, expire; consolidate | an await between the decision and its write | partly |
| Skills | table, registry | install, remove, roll back | several transactions, removed rows that stay | partly |
| Vault and synchronisation | key and secrets in two files; packages and vector clocks | set, rotate, load; push, pull | a stop between two files, pushes that interleave | partly |
| Observability | ledger rows, spans | record, decide; start, end, save | overlapping upserts, saves nobody waits for | partly |
| REST API | none of its own beyond handles | handlers | handlers that commit several times | partly |
| Accounts and authentication | one row per request | log in, refresh, revoke, seed | none across an await | not modelled |
| Browser, desktop, learning | programs outside | automation, scraping | answers are arbitrary | not modelled |
| Command line, scripts, audits | none | inspections | none | not modelled |

How they interact. The scheduler asks the resolver for waves and runs them
through an executor. `LeaderElection` elects the process that routes and is a
client of the transport's leases; the leader's `DistributedRouter` reads the
active workers from `WorkerRegistry`, publishes an envelope on the transport and
records the decision; `WorkerProcess` keeps its worker's row alive.
`MissionManager` gives the steps of a durable mission to the orchestrator; the
swarm runtime claims tasks from its queue through the version column of the
table; the supervisor puts stalled jobs and victims of the deadlock detector back
in that queue. The goal engine plans with a provider and runs waves of tool
calls; the tool orchestrator reports each step on the event bus, and listeners
write the records; a workflow node, an agent loop and a goal each have retries of
their own. The kernel builds all services in phases and hands the long-lived ones
to `LifecycleManager`. Nearly all interaction is by calls and by events; what is
shared is a database row, a dictionary of the process, or a file.

**Atomicity.** A coroutine gives way only where an `await` really suspends: in
executor calls, sleeps, Redis, HTTP and database calls, and publications on the
Redis bus. Entering an uncontended `asyncio.Lock` does not suspend. Every action
of a module is therefore the code between two such points, and every database
transaction is one step. A plain function (the vault, a push to the shared
folder) is divided only where a write to a file may fail or the process may end.

What makes each part correct:

* resolver: every task comes after what it depends on, as early as possible;
  it raises for cycles and for nothing else;
* scheduler, missions, swarm, workflows: nothing is lost, skipped or done twice,
  limits and budgets hold, completion is real, everything queued is run;
* leader election: one leader at a time, and no one loses a live lease to
  somebody else's late command;
* worker pool and agents: load and limits are exact, a live worker is ONLINE, a
  stopped one stays stopped, what is due goes;
* transports, bus, federation: order, no gaps, at most once where promised, and
  an answer says what happened;
* stores (memory, facts, skills, vault, identities, records): memory, index, file
  and table agree, what was deleted stays deleted, what was acknowledged is read
  back by the next process.

## 2. Modules

`PROJECT.json` maps each definition to the lines it stands for. Each module
begins with what it models and where it is suspended, and each variable names
the attribute, column or file it stands for. Definitions that a comment introduces
with "Mutant:" are altered versions of an action which break a property; they
are not part of any specification. Modules that are checked in one run carry the
component in their names (`BusInit`, `PoolNext`), so that they can be extended
together; no two share state.

| Module | Models | Properties |
|---|---|---|
| `DependencyResolver` | `GoalDependencyResolver.resolve` | `ResolverCorrect`, `Terminates` |
| `MissionScheduler` | `GoalScheduler`, `MissionQueue`, `PriorityEngine`, `ExecutionBudgetManager`, `MissionRecovery`, `BackgroundGoalRunner` | `TasksInOrder`, `PlacesKept`, `OvershootBounded`, `MissionsProgress` |
| `LeaderElection` | `LeaderElection`, the Redis lease commands | `AtMostOneLeader`, `LeaderIffToken`, `OnlyHolderFreesLease`, `StaleLeaderStepsDown` |
| `WorkerPool` | `WorkerProcess`, `WorkerRegistry`, `DistributedRouter` | `LoadIsExact`, `StoppedIsOffline`, `OfflineRecovers` |
| `Transport`, `Channel` | `LocalTransport`, `RemoteTransport`, envelopes; what a channel promises | `ImplementsChannel`, `ReadersEnd` |
| `MissionManager` | `core/runtime/mission.py` and its tables | `Accountable`, `LoopsFollowStatus`, `RunningEnds` |
| `SwarmRuntime` | `orchestrator.py`, `queue.py`, `persistence_db.py`, `recovery_manager.py` | `SwarmConsistent`, `PendingIsTaken` |
| `AgentPool`, `Supervisor` | `subagent.py` with `state.py`; `supervisor.py` | `PoolSafe`, `PoolDrains`; `JobsAccounted` |
| `DeadlockDetector`, `Consensus` | `deadlock_detector.py` with `lock.py`; `consensus.py` | `DeadlocksGo`; `DecisionsHold` |
| `Federation`, `Admin` | `federation.py` with its routes; `admin.py` | `FederationSafe`; `RestoresAreSafe` |
| `Kernel` | `Kernel.boot`, `LifecycleManager`, `lifespan()` | `KernelSafe` |
| `EventBus` | both buses, `ReactiveRouter`, `SwarmMessageBus` | `EventBusSafe` |
| `WorkflowEngine` | `core/workflow` | `WorkflowSafe` |
| `ToolWaves`, `RunRecords` | `WaveExecutor`, `RetryManager`, `ExecutionOrchestrator`; compiled workflows and their records | `WaveIsTruthful`, `WaveEnds`; `RunRecordsSafe` |
| `GoalEngine`, `GoalRecords` | `ReasoningExecutionEngine` with reflection, repair and cost governor; goals as rows | `GoalsSafe`; `GoalRecordsSafe` |
| `AgentLoop`, `Providers` | `AgentLoop`, `ToolDispatcher`, `RepairEngine`, runtimes; router, runtime, health, streams | `AgentLoopSafe`; `ProvidersSafe` |
| `Identities` | personas | `IdentitiesSafe` |
| `MemoryRecords`, `MemoryChunks`, `PersonalFacts`, `KnowledgeBase` | the four stores of `core/memory` | `MemoryRecordsSafe`, `MemoryChunksSafe`, `PersonalFactsSafe`, `KnowledgeSafe` |
| `Skills` | installer, repository, registry | `SkillsSafe` |
| `Vault`, `StateSync` | `vault.py`; `sync.py` | `VaultSafe`; `StateSyncSafe` |
| `Observability` | `cost_governor.py`; `tracer.py` | `CostLedgerSafe`; `TracingSafe` |
| `MC...` | instances; `MCMissions`, `MCProgress` and `MCServices` hold several components | |

Most of the properties above are conjunctions of named parts, each with its own
comment where it is defined; a violated conjunction is told apart by evaluating its
parts on the last state. The names ending in `Safe` are what the runs check. In
`MCServices`, `EventBusSafe`, `AgentLoopSafe`, `ProvidersSafe`, `WorkflowSafe`,
`SkillsSafe`, `KernelSafe` and `MemoryRecordsSafe` are the modules' own `BusSafe`,
`LoopSafe`, `ProviderSafe`, `WorkSafe`, `SkillSafe`, `KernelInv` with `KernelSteps`, and
`RecordsInv` with `RecordsSteps`; `StateSafe` joins those of `Vault`, `StateSync` and
`Identities`, `MemorySafe` those of `MemoryChunks`, `PersonalFacts` and `KnowledgeBase`,
`RecordsSafe` those of `RunRecords`, of the two parts of `Observability` and of
`GoalRecords`.

Among the parts, these are the ones a reviewer of the code would ask about:

| Part | Says |
|---|---|
| `NoStepSkipped`, `StoppedMeansStopped` (missions) | pause, roll-back, crash or a second loop pass over no step; after a stop has returned nothing executes the mission |
| `CompletedWasExecuted`, `ClaimedOnce` (swarm) | a row says Completed only after a successful execution; a claim is exclusive until a retry |
| `CancelledStaysDown`, `PoolLimit` (agents) | a caller that waited for the lock revives no cancelled subagent; the limit counts containers being started |
| `RequeuedOnce`, `WaveAdds` (supervisor) | stalls, failures and victims race, and a job is put back once and counted once |
| `NoCycleLeft`, `DeadlockIsBroken` | after a resolution no cycle is left, and each victim lost a lock another agent of a deadlock waits for |
| `DecisionStands`, `NotReversed` (consensus) | the votes on record bear a decision out, also later |
| `AtMostOnce`, `SuccessMeansTaken` (federation) | retries and late copies are published once; success means taken |
| `LoopComesBack`, `UsersSurviveRestore` (admin) | overlapping or failing restores leave the worker loop and the users |
| `BootIsHonest`, `TeardownInOrder` (kernel) | what boot() answers is so, whichever service fails; the order of teardown |
| `NoGaps`, `DispatchedOnce`, `AnswersAreTrue` (bus) | the listen loop reads all in order; answers say what went out |
| `WorkedOff`, `RetryAfterRepair` (agent loop) | a task is passed only when done; a retry runs only after its repair |
| `SlotsAreExact`, `BudgetRoutesLocal` (providers) | slots are the requests under way; without budget only local models are asked |
| `SuccessIsWhole`, `KeyHolds` (tools) | SUCCESS means all, but for a task cancelled before it began; a key is done once |
| `OverspendIsBounded`, `RepairsAreBounded` (goals) | goals, and tasks of a wave, side by side pass the budget by a call each; repairs end |
| `CheckpointIsTrue`, `DoneOnce` (workflow) | a checkpoint names what succeeded, though orphans still write; a resumption repeats none of it |
| `RecoveryIsRight`, `StepRecordsAreTrue` (records) | reports written in order leave true records; a recovery fails nothing completed |
| `ForgottenIsGone`, `RetentionIsDue` (memories) | a late vector recalls nothing forgotten; retention does only what is due |
| `DeletedIsGone`, `IndexedMeansIndexed` (chunks) | a deleted chunk leaves cache and index; a processed event was indexed, unless it was handled before the transaction it is about had ended |
| `LatestIsActive`, `LocksHold` (facts) | one active version, the latest; a lock is not weakened |
| `ConsolidatedIsComplete`, `GraphIsStored` (knowledge) | a noted fingerprint is finished work; the graph is in the database |
| `AnswersHold`, `InsertedOnce` (skills) | the last answer is what table and registry say |
| `SecretsSurvive`, `StillReads` (vault) | acknowledged secrets are read by the next process; half a rotation loses nothing in this one |
| `SkippedIsKnown`, `DominatingContains` (sync) | a skipped pull misses no edit, also after one that stopped between vault and database; a dominating package overwrites only what was not pushed |
| `ActivationIsExclusive`, `ServedIsStored` (identities) | an activation puts out the others; one uncrossed activation repairs the cache |
| `LedgerIsExact`, `EndsStay`, `StatusIsLastCommitted` | ledgers, spans and goals show what was written, whatever crossed |

Many name an exception (`overlapped`, `raced`, `unclear`, `reused` ...): a history variable
remembers that the case has happened in which the code does not hold the property.
Section 7 lists those cases.

### Work: scheduler, missions, swarm

**DependencyResolver.** `listed` holds the entries of all `depends_on` lists: a
task, what it depends on, and a copy number, since lists may repeat an id. `Init`
is `resolve()` up to its loop for *every* set of entries; `AddWave` is one round of
Kahn's algorithm and `Finish` its end. Waves are sets: the order inside a wave has
no meaning.

**MissionScheduler.** Mission and task fields are functions of the mission or
task; `queue` is `MissionQueue._items`, `running` is `GoalScheduler._running`. A
runner is suspended at one of five points (`Points`): asleep, publishing
`mission.started`, in the executor, in the back-off before a retry, publishing the
end. `Schedule`, `Cancel`, `Pause` and `Resume` are the callers' methods, `RunNext`
... `End` the runner's way from one point to the next, `Stop` cancels its loop at
any point: the `finally` clause runs, except while `mission.started` is published,
which is before the `try`. `orphans` is history: the missions whose runner was
stopped, and where. `SortQueue` is a stable sort by
effective priority; `Approach` lets a deadline come closer, which changes
priorities without re-sorting, as in the code. `resolve()` is represented by the
wave of each task (0: on a cycle).

**MissionManager** follows one mission, since missions share only a dictionary
keyed by mission. The row is `status`, `step`, `used`, `checkpoints`; `slot` is its
entry of `_running_tasks`, which a second loop may overwrite; `loop`, `pos` and
`call` say before which transaction each loop and API call is suspended. `Crash`
ends the process there; `Start` recovers what was RUNNING. Any transaction may raise:
one of a loop ends it with FAILED, also over a status it has just written (`Note`),
and where nothing writes a status any more (`CallFails` between RUNNING and
`create_task`, `FailNotWritten`) the history `stranded` remembers it until the next
call or restart. The parts of
`Accountable`: no step is passed over (`NoStepSkipped`), completion, the approval
gate and the budget are real. `LoopsFollowStatus`: one loop for a running mission
unless it is `stranded`, none for a stopped one. Several parts except overlapping API calls, where the code
does not hold them; `overlapped` remembers that.

**SwarmRuntime.** One `SwarmTask` object per task is shared by everything in the
process: `mem`, `retry` and `known` (its version). `row`, `rowRetry` and `version` are
the table. `queue` keeps the first place of each object; an object that is appended
again is dequeued by its status all the same. `save_task()` is three steps: the
version it expects is read, after the SELECT `Flush` compares and raises the object's
version, then `Commit` writes what `put` holds of the save, over any version (the
UPDATE has none in its WHERE); instead of either it may `Raise`, or be cancelled. The
history `torn` has the tasks with a flushed save that was lost so, or committed over a
newer version. `SwarmConsistent`: a row that says Completed was executed, the object's
version is that of the row or of an UPDATE under way (but for recovered and torn
tasks), what is Pending is queued, a claim is exclusive until a retry.

### Coordination

**LeaderElection.** Each call on Redis is three steps: request, execution, reply.
`main` is the coroutine that acquires and renews, `owner` one that calls
`release()` concurrently, and a cancelled `campaign()` runs its own `release()`. A
request of a coroutine that is gone still reaches the server (`strayLease`,
`strayRenew`). Time is counted down: `left` is the rest of the key's TTL, `wait` the
rest of the longest delay of a pending step. Four switches (`Timely`, `Faults`,
`Direct`, `BoundedCampaign`) select the environment.

**WorkerPool.** `status`, `age` and `active` are the columns of `worker_registry`;
`rows` is `task_routing_log` by wave and worker. A row whose `completed_at` is set
is COMPLETED when the worker set it and RETIRED when `mark_routing_complete` did; the
code does not tell them apart, the accounting does. `step`, `wave` and `chosen` are
the local state of each `route()` call, which is suspended before the envelope is
published and before the row is inserted. `Start` is `register()` and the rest of
`start()`; a signal before it is remembered by the handler and forgotten by the
process. *External:* the repository has no consumer of envelopes yet
(`worker_process.py` says so). `StartTask` and `CompleteTask` call
`mark_task_started` and `mark_task_completed` as their documentation asks: any number
of deliveries, completion of what was started; a process that ends drops what it
executes (`Dropped`).

**Transport** is a channel of either backend, chosen in the initial state.
`registered` is the fan-out (the `_channels` entry, or Redis' SUBSCRIBE), `wire` what
Redis has sent to a reader's connection, `inbox` the subscriber's queue, `pump` the
task between them. **Channel** is what the protocol promises: a reader is given
what is published after it joined, in order, without a gap, each once; delivery is
best effort, so it may leave without having read everything. `ImplementsChannel`
maps `log` to what was published as a reader of version 1 sees it, `from` to the
position at registration and `got` to what `__anext__` returned.

**AgentPool**: the lock is held while the driver is awaited, so `poolOp` is the one
call that holds it. Times are two flags of an instance (`old`, `silent`).
**Supervisor**: `tracked` is `_agent_task_map`, and a monitor is suspended only while
it terminates an agent. **DeadlockDetector**: `edges` is the wait-for graph, which
agents keep themselves, `owner` the locks; an agent may wait for several at a time, and
the depth-first search is a recursive function of what is still to be visited. **Consensus**: nothing suspends inside a
call; nodes come and time passes between them.

### Engines

**GoalEngine** has both paths, `execute_goal()` with reflection and repair and
`execute_goal_new()` without, for goals over one budget; how a wave executes its tools
is `ToolWaves`' matter. On the new path the planner and each task of a wave make calls
to the model (`AskModel`, `ModelAnswers`), also those `gather()` leaves behind. **ToolWaves** has each task of a wave at its suspension point
(`stage`); an event is set exactly when its result is stored. **WorkflowEngine** keeps
the nodes of a failed run going beside the run that resumes, since nobody cancels
them. **AgentLoop** nests the three levels of retries: the dispatcher's fallbacks,
the repair inside a dispatch, and the repair task put before the retry. **RunRecords**
has the reports of a run (`unwritten`) in order per run or step, but written by tasks
of their own; a plan names which steps' outputs a step needs and whether as a result or
as the error a failure leaves (`wants`), and a step that misses one ends `unbound`. **Providers** counts slots, sends and failures per provider; the clock
is two facts, whether the cooldown has passed and what the last minute saw; the limit of
tokens per minute, checked and reserved in the same way, is left out.
**EventBus** has the listen loop of Redis with its position (`lastId`, `polling`) and
the dispatch tasks of both buses.

### Stores

**MemoryRecords** is the tiered store on its in-memory repository, which never
suspends; the calls do, while a text is embedded and an event published.
**MemoryChunks** is the table with two services over it, the working memory of one and
the indexer that follows the events of both. Each call has a transaction of its own:
`flushed` is what it has made of a row, which nobody else reads until its caller
commits; it may be rolled back or cut off at any point, while what it has published or
cached stays. Nothing under `src/` commits for the indexer, whose writes count as made
when they return. **PersonalFacts** has requests that read
and write in separate steps. **KnowledgeBase** has consolidations that run at once or
are cut off. **Skills** has installations of several transactions over table and
registry. **Vault** divides its calls at the two file replacements. **StateSync** has
devices that push and pull whole states, a pull in two steps, vault and database, of
which the second may fail. **Identities** and **GoalRecords** divide each
request at its commits. **Observability** has the ledger and the spans, with the tasks
that write behind the caller's back. **Federation** has copies of a request under way (`flying`) and the
entry in the peer's replay cache by its age; **Admin** the restores that stop the
worker loop; **Kernel** a failure in any constructor or hook.

## 3. Runs

| Run | Instance | Shows |
|---|---|---|
| `leader_timely` | two candidates, TTL 6, interval 2, lag 1 | `AtMostOneLeader` |
| `leader_faults` | two candidates, unbounded delays, connection errors, direct calls, fairness | `LeaderIffToken` and `OnlyHolderFreesLease` without any timing; `StaleLeaderStepsDown` |
| `sched_one` | one runner; three missions: two waves, one with a deadline, one cyclic; two pauses, one stop | `TasksInOrder`, `OvershootBounded` |
| `sched_conc` | two runners, limit two, three missions, one pause, one stop and restarts | `PlacesKept` with a mission executed twice and a place lost to a stop; `MissionsProgress`: what is queued is taken up and executions end, for the missions whose runner was not stopped |
| `pool` | two workers, two waves, one caller of `route()`, two launches | `StoppedIsOffline`, `LoadIsExact`, `OfflineRecovers` |
| `missions` | one mission, two loops, two steps, two overlapping calls, a restart; a channel of either backend with two readers | `Accountable`, `LoopsFollowStatus`, `RunningEnds`; `ImplementsChannel`, `ReadersEnd` |
| `swarm` | two workflows; one task with a retry, or two without; one call, failing transaction, stop or restart | `SwarmConsistent`, `PendingIsTaken` |
| `progress` | resolver on every graph over three tasks and an unknown id; two subagents; a wave of three tools; two goals | `ResolverCorrect`, `ResolveTerminates`; `PoolSafe`, `PoolDrains`; `WaveIsTruthful`, `WaveEnds`; `GoalsSafe` |
| `services` | the other twenty-two components, each with two or three of everything that can meet | their safety properties (table in section 2) |
| `sched_terminal` | one runner, two missions of two waves and one | **violated:** `TerminalStatesStay` |
| `pool_signal` | one worker, fairness | **violated:** `SignalStops` |
| `swarm_recover` | one task, fairness | **violated:** `RecoveredIsExecuted` |

`missions`, `progress` and `services` hold several components. The variable `part`,
chosen in the initial state, says whose behaviour it is; only that component moves
and the others stay in one initial state. They share no state, so the behaviours
of the sum are those of its components. A property of a component is checked either
in all behaviours (where it holds trivially for the components that stay) or under
`part = "..."` where the initial state of another would not satisfy it. Each
property of a passing run is broken by the mutant `PROJECT.json` names for it.

### What the violations show

* `sched_terminal`: a mission cancelled during its last task becomes COMPLETED.
* `pool_signal`: a SIGTERM that arrives while `start()` awaits `register()` finds
  nothing to stop; `start()` clears the stop event and the handler ignores every
  further signal. The worker heartbeats for ever.
* `swarm_recover`: recovery gives a stale task the version its row had before the
  recovery itself wrote it; the claim is refused with `AGENT_005` for ever.

### Bounds

* Resolver: three tasks are the smallest set with a cycle, half a diamond and an
  independent task at once. Repeated entries are covered by the proofs.
* Scheduler: `Ceiling`, `Costs` and the retry limits are as small as they can be
  with a task below, at and above the ceiling. `MaxPauses` and `MaxStops` bound
  what callers may repeat for ever. Two pauses suffice for a mission to be
  resumed while it is executed, and again while it waits.
* Leader election: five tokens are one per candidate and one per call, stray
  request or late release of each that can be under way; a token is free again
  when nobody refers to it. TTL, interval and lag are the smallest that satisfy
  `TimeAssumption` with a lag above 0. Candidates and tokens are symmetric; the
  run with liveness uses no symmetry.
* Worker pool: two waves are what the accounting needs to confuse them, two
  workers what routing needs to choose. `Grace = 1` separates a fresh, an ageing
  and a stale heartbeat. `MaxLaunches = 2` lets a worker restart, or both start.
  Concurrent callers of `route()` are covered by the proofs.
* Missions: two loops are what a race needs; two calls overlap. `Plans` has a plan
  with and one without a gated step. Two messages show order and a gap, two
  readers that one's end does not disturb the other.
* Swarm: two slots, so that a retried task meets its former execution. A behaviour has
  one task with a retry or two without (`part` of `MCSwarmRuntime`); `MaxEvents = 1`
  is a call, a fault, a stop or a crash that meets any step of loop and workflows,
  whose own saves overlap without it. More of them are covered by the proof.
* Services: nearly every hazard listed is a meeting of two requests, or of a request
  and a failure, a stop or an expiry, so two calls and one or two objects are enough
  for each, three where one must be passed (the client ids of a synchronisation, the
  calls of a ledger, the nodes of a graph). Three agents and locks with four edges allow
  two deadlocks at once that share an agent, both up to date; two ids of one content let
  two calls store it; the edits of a device, one to its vault and one to its database,
  can be half applied. The exact
  values and their meaning are in `Services.cfg` and in the comments of the
  CONSTANTS. What the code does not bound has a bound of the model, named in the guards
  (`MaxEdges`, `Uses`, `Sessions`, `MaxVersion`, `MaxCount`, `MaxTotal`, `MaxRuns`, `MaxSpans`, `MaxAccess`,
  `MaxKeys`, `MaxRecorded`, `MaxFaults`, `MaxAsked`). Limits of the code (`MaxSlots`, `MaxPerMinute`,
  `MaxSends`, `MaxStrikes`, `WorkingSize`, `MaxRecent`, `MaxRetry`, `MaxAttempts`,
  `MaxIterations`, `MaxLookup`, `DailyLimit`, `Window`) are as small as reaching them
  requires.

Deadlock is checked in the runs of the leader election, the scheduler (passing)
and the worker pool, which go on for ever. The others end: calls, restarts and
messages are bounded, a kernel shuts down, a wave is over.

### Fairness

* `MissionScheduler!FairSpec`: each runner's next step. The event loop resumes
  what can run, and executors return. Callers are under no obligation.
* `LeaderElection!FairSpec`: the steps of calls and sleeps, the server, and time.
  No fairness for starting, cancelling or failing.
* `WorkerPool!FairSpec`: `register()`, heartbeats and `mark_offline()` of a process
  that runs. None for routing or for the worker's tasks.
* `MissionFairness`: the loops' steps, the calls under way, and the start of a
  process that is down (a supervisor restarts it). None for new calls or crashes.
* `TransportFairness`: a reader's next step. None for publishing or closing.
* `SwarmRuntime!FairSpec`: the consumer loop, its start, workflows and calls that
  are under way.
* `PoolFairness`: the driver answers (weak), and the watchdog's sweep and each of its
  terminations get the lock again and again (strong): `asyncio.Lock` wakes its
  waiters in the order they came, so a coroutine that keeps asking gets it.
* `ToolFairness`, `GoalFairness`: the tasks of a wave and the goals under way go on;
  tools end by their timeout, providers answer or fail.
* Resolver: a plain function runs on.

`services` assumes no fairness: all its properties are about safety. Their
initial states leave no fair step of another component enabled, so that a sum
neither assumes nor promises more than its components.

## 4. Proofs

All proofs hold for every value of the constants that satisfies the named
assumptions.

**ProgressProofs**. The resolver (finite `Tasks`, any lists): `TypeCorrect`,
`DependenciesFirst`, `EarliestWave`, `CyclesDetected` and, of the three,
`ResolverIsCorrect`. The inductive invariant says that a task's in-degree is the
number of its entries whose dependency has not been placed, and that `ready` holds
exactly the unplaced tasks with in-degree 0. When nothing is ready, the unplaced
tasks wait for each other. `WavesAreTruthful` (finite `WaveTasks`, any dependencies,
keys, slots and retries) needs that a task past the events of its dependencies has
seen them succeed, that a success leaves its key behind, and that the metrics count
the tasks that ended and their attempts; the sum over the attempts is bounded step by
step.

**MissionSchedulerProofs** (any missions, tasks and runners): `TypeCorrect`,
`NoMissionLost`, `LimitHolds`, `NoPlaceLost` and `PlacesAreKept` from one invariant
that adds what a busy runner has in its hands and that `_running` is finite.
Sorting, enqueueing and removing are shown once to lose no other item; the one
place that is lost is lost to a stop before the `try` (`Leaked`).
`WavesInSequence`, `CompletionIsReal` and `TasksRunInOrder` assume a single runner
(`Sequential`); with several, a mission can be executed by two runners at once and
neither property holds. Their invariant says that the tasks a runner has left
include every task of the mission that is not COMPLETED. `OvershootIsBounded`
assumes finitely many runners. The budget is checked before and charged after
the executor's await, so the bound itself is not inductive; what is: with `c` the
dearest task, `used + c * |Spenders| <= Ceiling + c * |Runners|`, where `Spenders` are
the runners that have passed the check and not charged yet. A runner that passes
found `used` below the ceiling; one that charges leaves `Spenders`.

**LeaderElectionProofs** (any candidates, tokens and durations with
`Interval + 3 * MaxLag < TTL`): `TypeCorrect`, `LeaderHasToken`, `NoSplitBrain`,
`LeaseNeverStolen`. `AtMostOneLeader` is not inductive: it rests on *where in the
renew cycle* a leader is. `Keeps(c)` bounds from below what is left of the key
at each point of the cycle, by the time that can have passed since Redis last
set it; `TokensPrivate` and `AcquiringNotLeading` ensure that no other
coroutine's release carries the token.

**WorkerPoolProofs** (any workers, finite waves, any callers): `TypeCorrect`,
`GracefulStop`, `CountStaysExact`, `NothingUncounted`, `LoadAccounted`,
`LoadStaysExact`, `LogIsAppendOnly`. The invariant adds that only routed waves are executed
(`RunningIsRouted`), without which a later insertion could open a row for a wave
that is executed uncounted. A started wave either finds the count covering all open
waves or raises both by one; a completed one was counted, so both fall by one. The
exact count (`CountIsExact`: open waves whose start was reported) holds for the workers
outside `miscounted`, a history variable that takes up a worker in two places only:
where a report is counted for a wave that was counted already, and where a wave that
had begun is retired. For all workers the two bounds remain.

**MissionsProofs**. Missions (any number of steps, loops, calls and crashes):
`MissionsAreAccountable` and `LoopsFollowTheStatus` from one invariant. It adds to the
two properties where each loop stands in its step: what it is about to execute is the
step of the row, unless a second loop has passed it; a step past the gate was
approved; what is charged had room. As long as no two API calls have overlapped it
says which loop a status requires, *at every point of the call under way*, since status
and loop change in different transactions. Transports (any readers, holders and
envelopes): `MessagesInPlace` and the refinement `TransportImplementsChannel`. The
inductive invariant: what a reader was given, its inbox and the wire to it are, in
this order, consecutive pieces of what was published since it joined; a reader that
is registered has missed nothing up to the last publication; end markers come after
all messages. Every step of a transport then appends one message to the log, joins
one reader, gives one reader the message at its position, or changes nothing of the
channel.

**SwarmRuntimeProofs** (finite `Tasks`, any slots, priorities and retries):
`SwarmIsConsistent`. The invariant adds that what the loop, a workflow or a call has
in hand is an object of the process (`ObjectsInv`), that an object nobody saved expects
version 1 (`VersionsInv`), that an object is at most one version ahead of its row and
then an UPDATE under way has that version (`AheadInv`, `PutsInv`), that Completed is written to the object by a success only,
before the row (`SuccessInv`), and who owns a task until its first retry: the queue,
the loop or one workflow (`OneOwner`). The last is why a claim is exclusive, and a
retry, which puts a task back while its former workflow ends, is why only until then.

**ServicesProofs** has the inductive invariants of four services, of three memories and
of spans.

* Votes (any finite set of voters): `DecisionsAreHeld`. The running counts are the
  cardinalities of the recorded votes; an approval needs more than half of the nodes
  known at the time, a rejection that approval is out of reach, and votes recorded
  later only add to either side.
* The event bus (`BusInv`): how often a subscriber was handed a message is bounded by
  the copies in the part of the stream that has been *passed* (read, or skipped by
  "$"), so that a restart, which moves the position, and a second copy, which
  lengthens the stream, are told apart; a copy has an attempt of its own.
* The agent loop (`LoopInv`): from the cursor on every id is in the queue once, is not
  done, and a repair stands before the retry made for it. With this a task that
  failed cannot be lost between two reflections, and counters and journal agree at
  the end of each iteration.
* Providers (`ProviderInv`): a slot is taken by a request at a point that holds it or
  is leaked by a cancellation, and `SlotMove` says that every step moves one slot at
  most; sends are retries, and one more while a request is out.
* Personal facts (`FactsInv`): an update under way carries a statement that may replace
  the version it matched, and a version that was not overtaken has one row, so that a
  second active version takes two requests that matched the same one.
* The knowledge base (`KnowledgeInv`): an episode is held by one consolidation, and what
  that has left to do is the *end* of what an episode adds, so that what is missing from
  the graph is known at each step; rows follow memory except while somebody saves.
* Chunks (`ChunkInv`): what the transaction of each call has flushed at each of its
  points, and that no other has flushed a chunk of that content; the row each handler
  of an event works on; order and index of the working memory hold the same chunks,
  once each; a vector of a chunk that is deleted, or whose deletion is announced and
  not committed (`Leaving`), still has its event, or a race is on record.
* Spans (`TraceInv`): what the save of the end has written stays, and a save of the start
  that finds the row finds the end reported, so that a start saved late does not take
  an end back. The list is the last `MaxRecent` of the spans in the order they started.

**StoresProofs** has those of seven stores, and the theorems about the run of
`MCServices` that rest on both modules: `EventBusIsSafe`, `AgentLoopIsSafe`,
`ProvidersKeepTheirLimits`, `WorkflowIsSafe`, `SkillsAreSafe`, `StateIsSafe`,
`MemoryIsSafe`, `RecordsAreSafe`. A behaviour of the sum is one of the component it
chose, so `part = "bus" => BusInv` is inductive where `BusInv` is for the bus.

* The vault (any names, secrets and rotations; also `VaultIsSafe` by itself): the key of
  the file is the last generated one outside a rotation, each entry is sealed under
  the key it is read with, and its plain text is what was acknowledged or tried since.
* Workflows (`WorkInv`): levels are begun in order, what counts as finished has
  succeeded in this run or before the checkpoint, and its output is in the shared
  context. Nodes of earlier runs still write; no step takes a success back
  (`NodesAdvance`).
* Skills (`SkillInv`): between the writes of an installation the call alone knows what
  is missing. `Exact(s)` says what table and registry show at each point of that call;
  `Undisturbed` claims it for skills on which no two calls met and none broke off.
* State on several devices (`SyncInv`): that one clock dominates another says nothing
  unless the counts mean the same edits everywhere. The invariant asserts a meaning of
  each count of each client (`Meanings`) under which every package in sight holds
  exactly what its clock counts. A push extends the meaning by the new count, which
  nobody else has seen because a device is ahead of all others on its own count
  (`OwnersAreAhead`); a count that was taken back and is used again ends this, hence the
  exception `reused`. Half a package adds edits to a device and nothing to its clock, so
  what is asserted of both still holds.
* Identities (`IdInv`): what a request that nobody crossed knows of the rows, and that
  memory lags behind them only while a request is between its commit and its side
  effects.
* Records of runs (`RunInv`): of the reports of a step, the ones not written yet are the
  *last* ones, and only the first of them has been looked at, unless handlers crossed;
  what the process leaves behind and what the recovery reports follow from that.
* The cost ledger (`LedgerInv`): what an update has found is never more than what was
  saved, and is all of it when no other update is under way, so the row it writes is
  exact; the total of the day is the sum of what was saved, and a verdict that was not
  guessed is drawn from it. That a sum grows by what is added to the set is proved by
  induction over finite sets, through a least counterexample (`SumExists`, `SumIs`,
  `SumLaws`): the induction theorems of the library cannot be used, the well-founded
  order they rest on can.
* Goals (`GoalInv`): a request that no other crosses carries the status of the row it
  writes, and an event that is missing is one that a request is about to publish.

**Only model-checked.** Liveness (`Terminates`, `MissionsProgress`,
`StaleLeaderStepsDown`, `OfflineRecovers`, `RunningEnds`, `ReadersEnd`,
`PendingIsTaken`, `PoolDrains`, `WaveEnds`, `GoalsEnd`), since the prover does not
handle fairness. The safety of the modules of section 2 that no module of proofs names:
of tiered memory records (`MemoryRecordsSafe`), of agents, supervisor, deadlocks,
federation, administration, kernel and the goal engine. Assumptions about constants (`...Assumption`) are evaluated by TLC in every run.

## 5. Plan

Done: transports with their abstract channel, missions and recovery, coordination,
workflow engine, tool execution, engines and stores, the kernel. Left, in this order:

1. Proofs of `MemoryRecordsSafe`, then of the action properties of agents, supervisor,
   federation, kernel and the goal engine.
2. Abstract specifications: mutual exclusion, implemented by `LeaderElection` under its
   timing assumption; a job queue, implemented by `MissionScheduler` and by
   `SwarmRuntime`; a register per name, implemented by `Vault`.
3. Composition: `LeaderElection` with `WorkerPool` (what a former leader may still
   route), `EventBus` with the listeners of `MemoryChunks` and `RunRecords`.
4. Accounts: refresh tokens and revocation under concurrent requests. The browser's
   pool of contexts. The handlers of the API that stream.

## 6. Not modelled

* Accounts and authentication: each request is one transaction on one row; hashing
  and tokens are calculations.
* Browser, desktop, learning: input and output of programs outside.
* Command line, scripts, audits: tools that inspect the repository once.
* Of components modelled in part: the worker pool's REST heartbeat and the BUSY status
  (nothing sets it), and routing rows that record a failure; the journal, the
  in-memory stores and the replication of the swarm; `AgentScheduler` and
  `ConflictResolver`, which calculate; planner, role assigner and result merger, which
  depend on a model's answer; scaling, deployment and container records; `cancel()`
  of a workflow, whose flag nothing reads, and the deletion of checkpoints, which
  nothing calls; the ping loop's connectivity flag; prompts and plan validation;
  vendors' protocols; search formulas; downloads, signatures and sandboxes; remote
  storage; metrics, logs and health probes; middleware and payload classes.

## 7. Observations

What the models show of the code beside the properties. None of these has a run of
its own; most are the exceptions that a property's comment names.

**Scheduler and leader election.** `stop()` in the middle of a mission leaves it
RUNNING with nobody executing it; while `mission.started` is published (line 433,
before the `try`), it also leaves the mission in `_running`, a place that only
`cancel_mission()` or another execution of that mission frees. A mission paused and resumed while a task is in
the executor is executed twice. `should_retry_mission` requires FAILED but is asked
while the mission is RUNNING, so the mission's `max_retries` has no effect unless a
second runner has set FAILED meanwhile. The queue keeps the order of the last
enqueue while priorities change with time. RELEASED, documented as terminal, is
overwritten by a late reply of `lease()`.

**Worker pool.** With two waves routed, a second delivery of the first is counted
again by `mark_task_started`, although it promises to be "idempotent on repeated calls
for the same (worker_id, wave_run_id) pair" (`worker_registry.py:511`): it compares
`active_tasks` with the number of open rows. `CountIsExact` excepts exactly this. Re-routing a wave publishes a second envelope;
`mark_routing_complete` never gives `active_tasks` back; nothing re-routes the waves
of a worker swept to OFFLINE; a heartbeat of 10 s under a grace of 15 s does not
survive one missed heartbeat.

**Transports.** `LocalSubscriber.aclose()` wakes no waiting consumer.
`RemoteTransport.subscribe` says "eagerly", but its pump subscribes later. The Redis
subscriber's `aclose` unsubscribes `_channel`, not `_chan_name`.

**Missions and swarm.** A crash during planning leaves PLANNING without a plan; paused
and resumed, that mission is COMPLETED with nothing executed. `start_mission` and
`resume_mission` write a timeline event between committing RUNNING and creating the
loop (`mission.py:204`, 261): when that raises, or the write of FAILED (537-547), the
mission is RUNNING with nobody executing it until a call or a restart. A timeline event
that fails after COMPLETED or WAITING_APPROVAL turns the status into FAILED. After a
retry the claim of a swarm task is not exclusive. A save of it that fails or is
cancelled after its flush leaves the object a version ahead of its row, and every later
save is refused (`persistence_db.py:91`); two saves that have both selected are both
committed, and the version of the row may go back. Missions register task ids, not subagent ids, with
the supervisor.

**Agents.** Wave tracking is keyed by wave index alone and `is_complete` is never
reset. `stop_monitoring` during a termination loses a requeue. A victim keeps its other
locks; stale edges report deadlocks that are none. Detector and monitor have no caller.
`update_state(DESTROYED)` leaves the container running, and a spawn under way during a
shutdown survives it. A late `cast_vote` turns APPROVED into EXPIRED.

**Federation and administration.** With a lost answer a message is delivered and
reported failed. An answer after `shutdown()` writes a registry of one. An older call
overwrites a re-registered URL. The replay guarantee assumes synchronised clocks.
Overlapping restores let the worker loop run under the second. A configuration that
could not be saved is reported SUCCESS.

**Kernel and bus.** The event bus is never stopped. After `set_kernel` raises for a
second app nothing is stopped. A kernel whose boot failed after the vault phase cannot
be booted again. `stop` and `shutdown` also run on services that never started. On Redis
"$" is resolved again at each poll until a first message, so messages between polls of
a new topic are lost; a restart forgets the position; `publish_message` repeats a
message that is out; a dead letter may have been delivered; callbacks already dispatched
run after `unsubscribe`.

**Tools and workflows.** A task cancelled while it waits or queues sets no event, so its
dependents hang, and leaves no result, so the wave may be SUCCESS. A refused permission
is retried; a timed-out tool is not audited. `workflow_orchestrator` takes a returned
FAILURE for completed; a step that CONTINUE excused still fails the run when a later
step names any variable of it but `error`. The record of a failed run stays RUNNING until the next
`resume_all`; a late "started" overwrites COMPLETED or adds a second row, after which
later handlers raise. `WorkflowEngine.run` says "checkpoint after each wave" but saves
one at the end, which shares its outputs with orphaned nodes; `failed_node` is just the
first that is not completed. Saving a plan again after its soft deletion does not revive
it.

**Reasoning.** A second failed wave is reported RESOLVED, so SUCCESS may hide it;
`repair_plan` does not rebuild the failed wave; `execute_goal_new` goes on after
PARTIAL_FAILURE. `PlanVersionManager` is shared and keyed by version only. Budgets are
overspent by one call of each goal, by one of each task of a wave under
`execute_goal_new`; without a database session the daily spending never
resets. The shipped `get_provider_for_task` always raises `ROUTER_002`. A recovered agent
loop ends FAILED although every task succeeded; a rejected approval is repaired like a
failure; a cancelled run leaves its child process; a file write removes, then renames.
A provider's slot is held during the back-off, and is leaked when a request is
cancelled between counting and calling; failures are recorded twice per routed call, so
that a provider is OFFLINE after three, and stays so, since the health monitor has no
caller. `LlmRuntime` bypasses router, limits and health.

**Memory.** Storing a forgotten content returns the deleted record's id; `archive()`
brings a forgotten memory back; retention forgets what was touched after it decided,
pinned working memories and only within the first 100. `recall()` with a surviving
candidate raises `TypeError`, and `GET /memory/{id}/score` is always a 500. A chunk stored
again after a soft deletion violates the unique hash; its event is published after a
flush and before the caller commits, although "only after successful persistence"
(`service.py:137`), so that an indexer that is faster finds no row, counts the event as
processed and the chunk is never indexed; a deletion that is rolled back has lost the
vector, a creation leaves its record in working memory; a deletion by the service leaves
the engine's cached record, one by the engine leaves the vector. Two overlapping updates
of a fact leave two active versions, after which `get_memory` raises for good; an update
under way brings a forgotten fact back. Relations of the graph are never restored from
the database; a consolidation that was cut off never repeats its episode.

**Skills, vault, synchronisation.** A removed skill keeps its row, so that it cannot be
installed again, and a rollback revives it; the registry is empty after a restart; the
check of dependencies counts removed rows and the first 50 only. A stop between the
vault's two replacements leaves a new key with old ciphertexts; a failed `set_secret` is
persisted by the next write. When `pull_state` cannot replace the database, which may be on
another file system than the temporary file, the package's vault stays beside the old
database, although a "failed sync never partially overwrites local state"
(`sync.py:373`); the clock is the old one, so the next pull applies the package again. A
dominating pull overwrites local edits that were not pushed; a push may report failure though published, and reuses its count; client id and
clock are not persisted.

**Records.** Overlapping upserts lose cost; the verdict is ALLOW when the total cannot be
read. A completion without `span_id` opens a span that never ends. A persona created
active leaves the other active row, so that a restart may serve either; crossing
requests leave a cached persona that differs from its row until the next one that
crosses none. The response and event of a goal come from a stale copy; a cancelled goal
can be activated again; a completion whose goal is deleted meanwhile is a 500.
