------------------------------ MODULE MCServices ------------------------------
(***************************************************************************)
(* Components that share no state, checked side by side: a behaviour is    *)
(* one of a single component, the others stay in one state where none of   *)
(* their steps that are fair is enabled.                                   *)
(***************************************************************************)
EXTENDS DeadlockDetector, Supervisor, Federation, Consensus, Admin, Kernel, EventBus,
        AgentLoop, Providers, MemoryRecords, MemoryChunks, PersonalFacts,
        WorkflowEngine, Skills, Vault, StateSync, RunRecords, Observability,
        Identities, KnowledgeBase, GoalRecords

VARIABLE part    \* the component whose behaviour this is

sumVars == <<part, detectorVars, supervisorVars, federationVars, consensusVars,
             adminVars, kernelVars, busVars, loopVars, providerVars, recordVars,
             chunkVars, factVars, workVars, skillVars, vaultVars, syncVars, runVars,
             ledgerVars, traceVars, identityVars, knowledgeVars, goalRecordVars>>

Parts ==
    {"detector", "supervisor", "federation", "consensus", "admin",
     "kernel", "bus", "agentloop", "providers", "memories",
     "chunks", "facts", "workflow", "skills", "vault",
     "sync", "records", "costs", "traces", "identities",
     "knowledge", "goalrecords"}

\* Every component is in an initial state, the ones that do not move in one
\* and the same.
SumInit ==
    /\ part \in Parts
    /\ DetectorInit
    /\ SupervisorInit
    /\ FederationInit
    /\ ConsensusInit /\ (part # "consensus" => known = {})
    /\ AdminInit /\ (part # "admin" => AdminAtRest)
    /\ KernelInit /\ (part # "kernel" => handle = "none")
    /\ BusInit /\ (part # "bus" => medium = "memory")
    /\ LoopInit /\ (part # "agentloop" => helper = "plain")
    /\ ProviderInit
    /\ RecordsInit
    /\ ChunksInit
    /\ FactsInit
    /\ WorkInit /\ (part # "workflow" => graph = {})
    /\ SkillsInit
    /\ VaultInit
    /\ SyncInit
    /\ RunInit /\ (part # "records" => (\A x \in Steps : recovery[x] = "CONTINUE" /\ uses[x] = {}))
    /\ LedgerInit
    /\ TraceInit
    /\ IdentityInit
    /\ KnowledgeInit
    /\ GoalRecordInit

SumNext ==
    \/ /\ part = "detector" /\ DetectorNext
       /\ UNCHANGED <<part, supervisorVars, federationVars, consensusVars, adminVars,
                         kernelVars, busVars, loopVars, providerVars, recordVars,
                         chunkVars, factVars, workVars, skillVars, vaultVars, syncVars,
                         runVars, ledgerVars, traceVars, identityVars, knowledgeVars,
                         goalRecordVars>>
    \/ /\ part = "supervisor" /\ SupervisorNext
       /\ UNCHANGED <<part, detectorVars, federationVars, consensusVars, adminVars,
                         kernelVars, busVars, loopVars, providerVars, recordVars,
                         chunkVars, factVars, workVars, skillVars, vaultVars, syncVars,
                         runVars, ledgerVars, traceVars, identityVars, knowledgeVars,
                         goalRecordVars>>
    \/ /\ part = "federation" /\ FederationNext
       /\ UNCHANGED <<part, detectorVars, supervisorVars, consensusVars, adminVars,
                         kernelVars, busVars, loopVars, providerVars, recordVars,
                         chunkVars, factVars, workVars, skillVars, vaultVars, syncVars,
                         runVars, ledgerVars, traceVars, identityVars, knowledgeVars,
                         goalRecordVars>>
    \/ /\ part = "consensus" /\ ConsensusNext
       /\ UNCHANGED <<part, detectorVars, supervisorVars, federationVars, adminVars,
                         kernelVars, busVars, loopVars, providerVars, recordVars,
                         chunkVars, factVars, workVars, skillVars, vaultVars, syncVars,
                         runVars, ledgerVars, traceVars, identityVars, knowledgeVars,
                         goalRecordVars>>
    \/ /\ part = "admin" /\ AdminNext
       /\ UNCHANGED <<part, detectorVars, supervisorVars, federationVars,
                         consensusVars, kernelVars, busVars, loopVars, providerVars,
                         recordVars, chunkVars, factVars, workVars, skillVars,
                         vaultVars, syncVars, runVars, ledgerVars, traceVars,
                         identityVars, knowledgeVars, goalRecordVars>>
    \/ /\ part = "kernel" /\ KernelNext
       /\ UNCHANGED <<part, detectorVars, supervisorVars, federationVars,
                         consensusVars, adminVars, busVars, loopVars, providerVars,
                         recordVars, chunkVars, factVars, workVars, skillVars,
                         vaultVars, syncVars, runVars, ledgerVars, traceVars,
                         identityVars, knowledgeVars, goalRecordVars>>
    \/ /\ part = "bus" /\ BusNext
       /\ UNCHANGED <<part, detectorVars, supervisorVars, federationVars,
                         consensusVars, adminVars, kernelVars, loopVars, providerVars,
                         recordVars, chunkVars, factVars, workVars, skillVars,
                         vaultVars, syncVars, runVars, ledgerVars, traceVars,
                         identityVars, knowledgeVars, goalRecordVars>>
    \/ /\ part = "agentloop" /\ LoopNext
       /\ UNCHANGED <<part, detectorVars, supervisorVars, federationVars,
                         consensusVars, adminVars, kernelVars, busVars, providerVars,
                         recordVars, chunkVars, factVars, workVars, skillVars,
                         vaultVars, syncVars, runVars, ledgerVars, traceVars,
                         identityVars, knowledgeVars, goalRecordVars>>
    \/ /\ part = "providers" /\ ProviderNext
       /\ UNCHANGED <<part, detectorVars, supervisorVars, federationVars,
                         consensusVars, adminVars, kernelVars, busVars, loopVars,
                         recordVars, chunkVars, factVars, workVars, skillVars,
                         vaultVars, syncVars, runVars, ledgerVars, traceVars,
                         identityVars, knowledgeVars, goalRecordVars>>
    \/ /\ part = "memories" /\ RecordsNext
       /\ UNCHANGED <<part, detectorVars, supervisorVars, federationVars,
                         consensusVars, adminVars, kernelVars, busVars, loopVars,
                         providerVars, chunkVars, factVars, workVars, skillVars,
                         vaultVars, syncVars, runVars, ledgerVars, traceVars,
                         identityVars, knowledgeVars, goalRecordVars>>
    \/ /\ part = "chunks" /\ ChunksNext
       /\ UNCHANGED <<part, detectorVars, supervisorVars, federationVars,
                         consensusVars, adminVars, kernelVars, busVars, loopVars,
                         providerVars, recordVars, factVars, workVars, skillVars,
                         vaultVars, syncVars, runVars, ledgerVars, traceVars,
                         identityVars, knowledgeVars, goalRecordVars>>
    \/ /\ part = "facts" /\ FactsNext
       /\ UNCHANGED <<part, detectorVars, supervisorVars, federationVars,
                         consensusVars, adminVars, kernelVars, busVars, loopVars,
                         providerVars, recordVars, chunkVars, workVars, skillVars,
                         vaultVars, syncVars, runVars, ledgerVars, traceVars,
                         identityVars, knowledgeVars, goalRecordVars>>
    \/ /\ part = "workflow" /\ WorkNext
       /\ UNCHANGED <<part, detectorVars, supervisorVars, federationVars,
                         consensusVars, adminVars, kernelVars, busVars, loopVars,
                         providerVars, recordVars, chunkVars, factVars, skillVars,
                         vaultVars, syncVars, runVars, ledgerVars, traceVars,
                         identityVars, knowledgeVars, goalRecordVars>>
    \/ /\ part = "skills" /\ SkillsNext
       /\ UNCHANGED <<part, detectorVars, supervisorVars, federationVars,
                         consensusVars, adminVars, kernelVars, busVars, loopVars,
                         providerVars, recordVars, chunkVars, factVars, workVars,
                         vaultVars, syncVars, runVars, ledgerVars, traceVars,
                         identityVars, knowledgeVars, goalRecordVars>>
    \/ /\ part = "vault" /\ VaultNext
       /\ UNCHANGED <<part, detectorVars, supervisorVars, federationVars,
                         consensusVars, adminVars, kernelVars, busVars, loopVars,
                         providerVars, recordVars, chunkVars, factVars, workVars,
                         skillVars, syncVars, runVars, ledgerVars, traceVars,
                         identityVars, knowledgeVars, goalRecordVars>>
    \/ /\ part = "sync" /\ SyncNext
       /\ UNCHANGED <<part, detectorVars, supervisorVars, federationVars,
                         consensusVars, adminVars, kernelVars, busVars, loopVars,
                         providerVars, recordVars, chunkVars, factVars, workVars,
                         skillVars, vaultVars, runVars, ledgerVars, traceVars,
                         identityVars, knowledgeVars, goalRecordVars>>
    \/ /\ part = "records" /\ RunNext
       /\ UNCHANGED <<part, detectorVars, supervisorVars, federationVars,
                         consensusVars, adminVars, kernelVars, busVars, loopVars,
                         providerVars, recordVars, chunkVars, factVars, workVars,
                         skillVars, vaultVars, syncVars, ledgerVars, traceVars,
                         identityVars, knowledgeVars, goalRecordVars>>
    \/ /\ part = "costs" /\ LedgerNext
       /\ UNCHANGED <<part, detectorVars, supervisorVars, federationVars,
                         consensusVars, adminVars, kernelVars, busVars, loopVars,
                         providerVars, recordVars, chunkVars, factVars, workVars,
                         skillVars, vaultVars, syncVars, runVars, traceVars,
                         identityVars, knowledgeVars, goalRecordVars>>
    \/ /\ part = "traces" /\ TraceNext
       /\ UNCHANGED <<part, detectorVars, supervisorVars, federationVars,
                         consensusVars, adminVars, kernelVars, busVars, loopVars,
                         providerVars, recordVars, chunkVars, factVars, workVars,
                         skillVars, vaultVars, syncVars, runVars, ledgerVars,
                         identityVars, knowledgeVars, goalRecordVars>>
    \/ /\ part = "identities" /\ IdentityNext
       /\ UNCHANGED <<part, detectorVars, supervisorVars, federationVars,
                         consensusVars, adminVars, kernelVars, busVars, loopVars,
                         providerVars, recordVars, chunkVars, factVars, workVars,
                         skillVars, vaultVars, syncVars, runVars, ledgerVars,
                         traceVars, knowledgeVars, goalRecordVars>>
    \/ /\ part = "knowledge" /\ KnowledgeNext
       /\ UNCHANGED <<part, detectorVars, supervisorVars, federationVars,
                         consensusVars, adminVars, kernelVars, busVars, loopVars,
                         providerVars, recordVars, chunkVars, factVars, workVars,
                         skillVars, vaultVars, syncVars, runVars, ledgerVars,
                         traceVars, identityVars, goalRecordVars>>
    \/ /\ part = "goalrecords" /\ GoalRecordNext
       /\ UNCHANGED <<part, detectorVars, supervisorVars, federationVars,
                         consensusVars, adminVars, kernelVars, busVars, loopVars,
                         providerVars, recordVars, chunkVars, factVars, workVars,
                         skillVars, vaultVars, syncVars, runVars, ledgerVars,
                         traceVars, identityVars, knowledgeVars>>

SumSpec == SumInit /\ [][SumNext]_sumVars

\* boot() and the lifecycle are honest about what runs, in every state and every step.
KernelSafe == [](part = "kernel" => KernelInv) /\ KernelSteps

\* What a publisher is told is true and a subscriber misses nothing and gets nothing
\* twice.
EventBusSafe == part = "bus" => BusSafe

\* The agent loop works its queue off, with its repairs and retries in order and its
\* processes reaped.
AgentLoopSafe == part = "agentloop" => LoopSafe

\* The providers' slots, budgets, strikes and streams are exact.
ProvidersSafe == part = "providers" => ProviderSafe

\* A memory is stored once, moves up, and is gone when it was forgotten.
MemoryRecordsSafe == [](part = "memories" => RecordsInv) /\ RecordsSteps

\* A workflow keeps to its graph, and its checkpoint tells the truth to the next run.
WorkflowSafe == part = "workflow" => WorkSafe

\* Table and registry of the skills agree with what callers were told.
SkillsSafe == part = "skills" => SkillSafe

\* What the system is (its secrets, its state on every device, its persona) survives
\* a stop between two writes and writers that cross.
StateSafe ==
    /\ part = "vault" => VaultSafe
    /\ part = "sync" => StateSyncSafe
    /\ part = "identities" => IdentitiesSafe

\* What was taken in is kept, found again and made into knowledge once: the chunks,
\* the personal facts and the graph.
MemorySafe ==
    /\ part = "chunks" => MemoryChunksSafe
    /\ part = "facts" => PersonalFactsSafe
    /\ part = "knowledge" => KnowledgeSafe

\* The records agree with what happened, however late or often they are written: the
\* steps of a workflow, the cost of the calls, the spans and the goals.
RecordsSafe ==
    /\ part = "records" => RunRecordsSafe
    /\ part = "costs" => CostLedgerSafe
    /\ part = "traces" => TracingSafe
    /\ part = "goalrecords" => GoalRecordsSafe
=============================================================================
