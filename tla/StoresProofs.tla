---------------------------- MODULE StoresProofs -----------------------------
(***************************************************************************)
(* Proofs about the stores of MCServices, for any values of their          *)
(* constants: the vault, workflows and their checkpoints, skills, state on *)
(* several devices, identities, and the records of runs, costs and goals.  *)
(* Each has an inductive invariant of its own. The theorems at the end are *)
(* about MCServices itself, with the services of ServicesProofs too.       *)
(***************************************************************************)
EXTENDS MCServices, ServicesProofs, WellFoundedInduction

-----------------------------------------------------------------------------
(* The vault.                                                              *)

VaultSpec == VaultInit /\ [][VaultNext]_vaultVars

\* What was stored under n in these entries, whichever key opens it.
Plain(es, n) == IF es[n] = NoEntry THEN NoEntry ELSE es[n].secret

\* The entries that are there open with this key.
AllOpen(key, es) == \A n \in Names : es[n] # NoEntry => es[n].under = key

\* Only a generated key is used, and the newest is the one in the file.
KeysInv ==
    /\ keyFile = generated /\ inKey <= generated
    /\ keyFile = 0 => ~halfway

\* Both copies hold what callers were told, sealed or not.
ContentsInv ==
    \A n \in Names : Plain(secretsFile, n) \in may[n] /\ (~Locked => Plain(inEntries, n) \in may[n])

\* Only a rotation that stopped halfway leaves file entries under an older key;
\* even then memory goes on under the key of its entries.
SealsInv ==
    /\ ~halfway => AllOpen(keyFile, secretsFile)
    /\ ~Locked /\ ~halfway => inKey = keyFile /\ AllOpen(inKey, inEntries)
    /\ ~Locked /\ inKey # keyFile => AllOpen(inKey, inEntries)

VaultInv == VaultTypeOK /\ KeysInv /\ ContentsInv /\ SealsInv
-----------------------------------------------------------------------------
\* The invariant is what VaultSafe says, and more.
LEMMA VaultInvIsEnough ==
    VaultInv => VaultSafe
<1> SUFFICES ASSUME VaultInv
             PROVE  SecretsSurvive /\ MemoryReads /\ StillReads
  BY DEF VaultSafe, VaultInv
<1>1. SecretsSurvive
  <2> SUFFICES ASSUME ~halfway, NEW n \in Names
               PROVE  Reads(keyFile, secretsFile, n) \in may[n]
    BY DEF SecretsSurvive
  <2>1. Plain(secretsFile, n) \in may[n] /\ AllOpen(keyFile, secretsFile)
    BY DEF VaultInv, ContentsInv, SealsInv
  <2> QED
    BY <2>1 DEF Plain, AllOpen, Reads, Opens
<1>2. MemoryReads
  <2> SUFFICES ASSUME ~Locked, ~halfway, NEW n \in Names
               PROVE  inKey = keyFile /\ Reads(inKey, inEntries, n) \in may[n]
    BY DEF MemoryReads, VaultInv, SealsInv
  <2>1. /\ Plain(inEntries, n) \in may[n]
        /\ inKey = keyFile /\ AllOpen(inKey, inEntries)
    BY DEF VaultInv, ContentsInv, SealsInv
  <2> QED
    BY <2>1 DEF Plain, AllOpen, Reads, Opens
<1>3. StillReads
  BY DEF StillReads, VaultInv, SealsInv, AllOpen, Opens
<1> QED
  BY <1>1, <1>2, <1>3

LEMMA VaultInvInit ==
    VaultInit => VaultInv
<1> SUFFICES ASSUME VaultInit
             PROVE  VaultInv
  OBVIOUS
<1>1. MaxKeys \in Nat /\ 0 \in 0 .. MaxKeys
  BY VaultAssumption
<1>2. Empty \in [Names -> Entries \cup {NoEntry}] /\ \A n \in Names : Empty[n] = NoEntry
  BY DEF Empty
<1>3. VaultTypeOK
  BY <1>1, <1>2 DEF VaultInit, VaultTypeOK
<1>4. KeysInv /\ ContentsInv /\ SealsInv
  BY <1>1, <1>2
     DEF VaultInit, KeysInv, ContentsInv, SealsInv, AllOpen, Plain, Locked
<1> QED
  BY <1>3, <1>4 DEF VaultInv

\* Entries that are made with a key open with it and hold what was put in.
LEMMA Encrypted ==
    ASSUME VaultTypeOK, ~Locked, NEW x \in Secrets
    PROVE  /\ Encrypt(x) \in Entries /\ Encrypt(x) # NoEntry
           /\ Encrypt(x).secret = x /\ Encrypt(x).under = inKey
<1>1. inKey \in 1 .. MaxKeys
  BY VaultAssumption DEF VaultTypeOK, Locked
<1>2. Encrypt(x) \in Entries
  BY <1>1 DEF Encrypt, Entries
<1> QED
  BY <1>2, VaultAssumption DEF Encrypt, Entries

LEMMA InitializeKeeps ==
    ASSUME VaultInv, InitializeVault
    PROVE  VaultInv'
<1>1. /\ UNCHANGED <<secretsFile, may, halfway>>
      /\ inKey' = keyFile' /\ inEntries' = secretsFile
  BY DEF InitializeVault
<1>2. CASE keyFile = 0
  <2>1. generated' = generated + 1 /\ keyFile' = generated + 1 /\ generated < MaxKeys
    BY <1>2 DEF InitializeVault
  <2>2. ~halfway /\ generated = 0
    BY <1>2 DEF VaultInv, KeysInv
  <2>3. \A n \in Names : secretsFile[n] = NoEntry
    <3> SUFFICES ASSUME NEW n \in Names, secretsFile[n] # NoEntry
                 PROVE  FALSE
      OBVIOUS
    <3>1. secretsFile[n].under = 0
      BY <1>2, <2>2 DEF VaultInv, SealsInv, AllOpen
    <3>2. secretsFile[n] \in Entries
      BY DEF VaultInv, VaultTypeOK
    <3>3. secretsFile[n].under \in 1 .. MaxKeys
      BY <3>2 DEF Entries
    <3> QED
      BY <3>1, <3>3
  <2>4. VaultTypeOK' /\ KeysInv'
    BY <1>1, <2>1, <2>2, VaultAssumption DEF VaultInv, VaultTypeOK, KeysInv
  <2>5. ContentsInv'
    BY <1>1 DEF VaultInv, ContentsInv, Plain
  <2>6. SealsInv'
    BY <1>1, <2>3 DEF SealsInv, AllOpen
  <2> QED
    BY <2>4, <2>5, <2>6 DEF VaultInv
<1>3. CASE keyFile # 0
  <2>1. UNCHANGED <<generated, keyFile>>
    BY <1>3 DEF InitializeVault
  <2>2. VaultTypeOK' /\ KeysInv'
    BY <1>1, <2>1, VaultAssumption DEF VaultInv, VaultTypeOK, KeysInv
  <2>3. ContentsInv' /\ SealsInv'
    BY <1>1, <2>1 DEF VaultInv, ContentsInv, SealsInv, AllOpen, Plain
  <2> QED
    BY <2>2, <2>3 DEF VaultInv
<1> QED
  BY <1>2, <1>3

\* set_secret(), whether the file is written or not.
LEMMA SetKeeps ==
    ASSUME VaultInv, NEW n \in Names, NEW x \in Secrets, SetSecret(n, x) \/ SetSecretFails(n, x)
    PROVE  VaultInv'
<1>1. /\ ~Locked /\ inEntries' = [inEntries EXCEPT ![n] = Encrypt(x)]
      /\ \/ secretsFile' = inEntries' /\ may' = [may EXCEPT ![n] = {x}]
         \/ secretsFile' = secretsFile /\ may' = [may EXCEPT ![n] = @ \cup {x}]
      /\ UNCHANGED <<keyFile, inKey, generated, halfway>>
  BY DEF SetSecret, SetSecretFails
<1>2. /\ Encrypt(x) \in Entries /\ Encrypt(x) # NoEntry
      /\ Encrypt(x).secret = x /\ Encrypt(x).under = inKey
  BY <1>1, Encrypted DEF VaultInv
<1>3. VaultTypeOK /\ inEntries \in [Names -> Entries \cup {NoEntry}] /\ may[n] \subseteq Secrets \cup {NoEntry}
  BY DEF VaultInv, VaultTypeOK
<1>4. VaultTypeOK'
  BY <1>1, <1>2, <1>3 DEF VaultTypeOK
<1>5. KeysInv'
  BY <1>1 DEF VaultInv, KeysInv
<1>6. ContentsInv'
  <2>1. inEntries'[n] = Encrypt(x) /\ \A m \in Names \ {n} : inEntries'[m] = inEntries[m]
    BY <1>1, <1>3
  <2>2. x \in may'[n] /\ (may[n] \subseteq may'[n] \/ secretsFile' = inEntries')
    BY <1>1, <1>3 DEF VaultTypeOK
  <2>3. \A m \in Names \ {n} : may'[m] = may[m]
    BY <1>1, <1>3 DEF VaultTypeOK
  <2>4. ASSUME NEW m \in Names
        PROVE  Plain(inEntries', m) \in may'[m]
    BY <1>1, <1>2, <2>1, <2>2, <2>3 DEF VaultInv, ContentsInv, Plain
  <2>5. ASSUME NEW m \in Names
        PROVE  Plain(secretsFile', m) \in may'[m]
    <3>1. CASE secretsFile' = inEntries'
      BY <2>4, <3>1 DEF Plain
    <3>2. CASE secretsFile' = secretsFile /\ may[n] \subseteq may'[n]
      BY <2>3, <3>2 DEF VaultInv, ContentsInv, Plain
    <3> QED
      BY <1>1, <2>2, <3>1, <3>2
  <2> QED
    BY <2>4, <2>5 DEF ContentsInv
<1>7. SealsInv'
  <2>1. AllOpen(inKey, inEntries) => AllOpen(inKey, inEntries')
    BY <1>1, <1>2, <1>3 DEF AllOpen
  <2> QED
    BY <1>1, <2>1 DEF VaultInv, SealsInv, AllOpen, Locked
<1> QED
  BY <1>4, <1>5, <1>6, <1>7 DEF VaultInv

LEMMA RotateKeeps ==
    ASSUME VaultInv, RotateMasterKey
    PROVE  VaultInv'
<1> DEFINE key == generated + 1
<1>1. /\ CanRotate /\ keyFile' = key /\ generated' = key /\ inKey' = key
      /\ secretsFile' = Reencrypted(key) /\ inEntries' = secretsFile'
      /\ halfway' = FALSE /\ may' = may
  BY DEF RotateMasterKey
<1>2. ~Locked /\ key \in 1 .. MaxKeys /\ key \in 0 .. MaxKeys
  BY <1>1, VaultAssumption DEF CanRotate, VaultInv, VaultTypeOK
<1> HIDE DEF key
<1>3. ASSUME NEW n \in Names
      PROVE  \/ inEntries[n] = NoEntry /\ secretsFile'[n] = NoEntry
             \/ /\ inEntries[n] # NoEntry /\ secretsFile'[n] # NoEntry
                /\ secretsFile'[n] \in Entries
                /\ secretsFile'[n].secret = inEntries[n].secret /\ secretsFile'[n].under = key
  <2>1. CASE inEntries[n] = NoEntry
    BY <1>1, <2>1 DEF Reencrypted
  <2>2. CASE inEntries[n] # NoEntry
    <3>1. inEntries[n] \in Entries
      BY <2>2 DEF VaultInv, VaultTypeOK
    <3>2. secretsFile'[n] = [secret |-> inEntries[n].secret, under |-> key]
      BY <1>1, <2>2, <3>1 DEF Reencrypted, Entries
    <3>3. secretsFile'[n] \in Entries
      BY <1>2, <3>1, <3>2 DEF Entries
    <3> QED
      BY <2>2, <3>2, <3>3, VaultAssumption DEF Entries
  <2> QED
    BY <2>1, <2>2
<1>4. secretsFile' \in [Names -> Entries \cup {NoEntry}]
  BY <1>1, <1>3 DEF Reencrypted
<1>5. VaultTypeOK'
  BY <1>1, <1>2, <1>4 DEF VaultInv, VaultTypeOK
<1>6. KeysInv'
  BY <1>1, <1>2 DEF KeysInv
<1>7. ContentsInv'
  BY <1>1, <1>2, <1>3 DEF VaultInv, ContentsInv, Plain
<1>8. SealsInv'
  BY <1>1, <1>3 DEF SealsInv, AllOpen
<1> QED
  BY <1>5, <1>6, <1>7, <1>8 DEF VaultInv

LEMMA RotationStopsKeeps ==
    ASSUME VaultInv, RotationStops
    PROVE  VaultInv'
<1>1. /\ CanRotate /\ keyFile' = generated + 1 /\ generated' = generated + 1
      /\ halfway' = TRUE /\ UNCHANGED <<secretsFile, may>>
      /\ \/ inKey' = 0 /\ inEntries' = Empty
         \/ UNCHANGED <<inKey, inEntries>>
  BY DEF RotationStops
<1>2. ~Locked /\ generated \in 0 .. MaxKeys /\ generated + 1 \in 0 .. MaxKeys /\ generated + 1 # 0
  BY <1>1, VaultAssumption DEF CanRotate, VaultInv, VaultTypeOK
<1>3. VaultTypeOK'
  BY <1>1, <1>2, VaultAssumption DEF VaultInv, VaultTypeOK, Empty
<1>4. KeysInv'
  BY <1>1, <1>2, VaultAssumption DEF VaultInv, VaultTypeOK, KeysInv
<1>5. ContentsInv'
  BY <1>1, <1>2 DEF VaultInv, ContentsInv, Plain, Locked
<1>6. SealsInv'
  BY <1>1 DEF SealsInv, AllOpen, CanRotate, Opens, Locked
<1> QED
  BY <1>3, <1>4, <1>5, <1>6 DEF VaultInv

LEMMA ReplaceKeeps ==
    ASSUME VaultInv, NEW es \in [Names -> Entries \cup {NoEntry}], ReplaceEntries(es)
    PROVE  VaultInv'
<1>1. /\ ~Locked /\ AllOpen(inKey, es) /\ secretsFile' = es /\ inEntries' = es
      /\ may' = [n \in Names |-> {IF es[n] = NoEntry THEN NoEntry ELSE es[n].secret}]
      /\ UNCHANGED <<keyFile, inKey, generated, halfway>>
  BY DEF ReplaceEntries, AllOpen
<1>2. \A n \in Names : es[n] # NoEntry => es[n].secret \in Secrets
  BY DEF Entries
<1>3. VaultTypeOK'
  BY <1>1, <1>2 DEF VaultInv, VaultTypeOK
<1>4. KeysInv' /\ ContentsInv'
  BY <1>1 DEF VaultInv, KeysInv, ContentsInv, Plain
<1>5. SealsInv'
  BY <1>1 DEF VaultInv, SealsInv, AllOpen, Locked
<1> QED
  BY <1>3, <1>4, <1>5 DEF VaultInv

LEMMA ProcessEndsKeeps ==
    ASSUME VaultInv, ProcessEnds
    PROVE  VaultInv'
<1>1. /\ inKey' = 0 /\ inEntries' = Empty
      /\ UNCHANGED <<keyFile, secretsFile, generated, may, halfway>>
  BY DEF ProcessEnds
<1>2. VaultTypeOK'
  BY <1>1, VaultAssumption DEF VaultInv, VaultTypeOK, Empty
<1>3. KeysInv'
  BY <1>1 DEF VaultInv, VaultTypeOK, KeysInv
<1>4. ContentsInv' /\ SealsInv'
  BY <1>1 DEF VaultInv, ContentsInv, SealsInv, AllOpen, Plain, Locked
<1> QED
  BY <1>2, <1>3, <1>4 DEF VaultInv

\* Every step of the vault keeps its invariant.
LEMMA VaultStepKeeps == ASSUME VaultInv, [VaultNext]_vaultVars PROVE VaultInv'
<1>1. CASE UNCHANGED vaultVars
  BY <1>1
     DEF vaultVars, VaultInv, VaultTypeOK, KeysInv, ContentsInv, SealsInv, AllOpen, Plain, Locked
<1> QED
  BY <1>1, InitializeKeeps, SetKeeps, RotateKeeps, RotationStopsKeeps, ReplaceKeeps,
     ProcessEndsKeeps DEF VaultNext

\* Secrets that set_secret() acknowledged are read back, by the running process
\* and by the next one, however processes end, writes fail and keys rotate; and
\* a rotation that stopped halfway leaves memory readable.
THEOREM VaultIsSafe == VaultSpec => []VaultSafe
<1>1. VaultInit => VaultInv
  BY VaultInvInit
<1>2. VaultInv /\ [VaultNext]_vaultVars => VaultInv'
  BY VaultStepKeeps
<1>3. VaultInv => VaultSafe
  BY VaultInvIsEnough
<1> QED
  BY <1>1, <1>2, <1>3, PTL DEF VaultSpec

-----------------------------------------------------------------------------
(* The workflow engine.                                                    *)

\* One workflow, run and resumed.
WorkSpec == WorkInit /\ [][WorkNext]_workVars

\* The types, as far as the model's type invariant leaves them open.
WorkTypes ==
    /\ WorkTypeOK
    /\ outputs \in [RunNos -> SUBSET WorkNodes]
    /\ checkpoint \in [done : SUBSET WorkNodes, out : SUBSET WorkNodes, shared : BOOLEAN]

\* A run exists once it began; the later ones have not touched a node.
RunsInOrder ==
    /\ runNo = 0 <=> runPhase \in {"idle", "invalid"}
    /\ runNo = 0 => finished = {} /\ skipped = {}
    /\ \A r \in RunNos, n \in WorkNodes : r > runNo => nodeState[r][n] = "no"
    /\ runNo \in {0, 1} => checkpoint.out = {}

\* The levels of this run: what was handed out is done or in the last one.
LevelsInOrder ==
    /\ \A r \in RunNos, n \in WorkNodes : r = runNo /\ nodeState[r][n] # "no" => n \in scheduled
    /\ skipped \subseteq finished
    /\ scheduled \subseteq finished \cup level
    /\ \A n \in level : Needs(n) \subseteq finished

\* What counts as done has succeeded, with all it needs, and its output is kept.
FinishedIsTrue ==
    /\ \A r \in RunNos, n \in WorkNodes : nodeState[r][n] = "ok" => n \in outputs[r]
    /\ \A n \in finished : HasSucceeded(n) /\ Needs(n) \subseteq finished
    /\ \A r \in RunNos : r = runNo => finished \subseteq CheckpointOutputs \cup outputs[r]

\* The inductive invariant: WorkSafe holds because a run is levels in order, and
\* because what a checkpoint calls done was done with its output.
WorkInv == WorkTypes /\ RunsInOrder /\ LevelsInOrder /\ FinishedIsTrue /\ WorkSafe

\* What every step leaves of what was achieved.
Advances ==
    /\ graph' = graph
    /\ \A q \in RunNos, m \in WorkNodes : nodeState[q][m] = "ok" => nodeState'[q][m] = "ok"
    /\ \A q \in RunNos : outputs[q] \subseteq outputs'[q]

\* A run that began has a number.
LEMMA RunIsNumbered ==
    ASSUME WorkInv, runPhase \in {"running", "failed", "succeeded"}
    PROVE  runNo \in RunNos /\ runNo \in Nat
BY WorkAssumption DEF WorkInv, WorkTypes, WorkTypeOK, RunsInOrder, RunNos

\* No step undoes a node that succeeded or drops an output.
LEMMA NodesAdvance ==
    ASSUME WorkInv, [WorkNext]_workVars
    PROVE  Advances
<1> USE WorkAssumption DEF WorkInv, WorkTypes, WorkTypeOK, LevelsInOrder, Advances
<1>1. CASE RunWorkflow
  BY <1>1 DEF RunWorkflow, Begin, nodeVars
<1>2. CASE ResumeWorkflow
  BY <1>2 DEF ResumeWorkflow, Begin, nodeVars
<1>3. CASE NextLevel
  <2>1. runNo \in RunNos
    BY <1>3, RunIsNumbered DEF NextLevel
  <2> DEFINE wave == {n \in WorkNodes \ scheduled : Needs(n) \subseteq scheduled}
             pending == wave \ (finished \cup level)
  <2>2. /\ scheduled' = scheduled \cup wave /\ level' = pending /\ finished' = finished \cup level
        /\ nodeState' = [nodeState EXCEPT ![runNo] =
                           [n \in WorkNodes |-> IF n \in pending THEN "run" ELSE nodeState[runNo][n]]]
        /\ nodeTries' = [nodeTries EXCEPT ![runNo] =
                           [n \in WorkNodes |-> IF n \in pending THEN 1 ELSE nodeTries[runNo][n]]]
        /\ \A n \in level : nodeState[runNo][n] = "ok"
        /\ UNCHANGED <<graph, runNo, runPhase, outputs, skipped, checkpoint>> /\ runPhase = "running"
    BY <1>3 DEF NextLevel
  <2>3. ASSUME NEW q \in RunNos, NEW m \in WorkNodes, nodeState[q][m] = "ok"
        PROVE  nodeState'[q][m] = "ok"
    <3>1. CASE q = runNo
      <4>1. m \notin pending
        BY <2>3, <3>1
      <4> QED
        BY <2>1, <2>2, <2>3, <3>1, <4>1
    <3>2. CASE q # runNo
      BY <2>2, <2>3, <3>2
    <3> QED
      BY <3>1, <3>2
  <2> QED
    BY <2>2, <2>3
<1>4. CASE RunFails
  BY <1>4 DEF RunFails, SaveCheckpoint, nodeVars, CheckpointOutputs
<1>5. CASE RunSucceeds
  BY <1>5 DEF RunSucceeds, SaveCheckpoint, nodeVars, CheckpointOutputs
<1>6. ASSUME NEW r \in RunNos, NEW n \in WorkNodes, NodeSucceeds(r, n)
      PROVE  Advances
  BY <1>6 DEF NodeSucceeds, UnchangedRun
<1>7. ASSUME NEW r \in RunNos, NEW n \in WorkNodes, NodeRetries(r, n)
      PROVE  Advances
  BY <1>7 DEF NodeRetries, UnchangedRun
<1>8. ASSUME NEW r \in RunNos, NEW n \in WorkNodes, NodeFails(r, n)
      PROVE  Advances
  BY <1>8 DEF NodeFails, UnchangedRun
<1>9. CASE UNCHANGED workVars
  BY <1>9 DEF workVars, nodeVars
<1> QED
  BY <1>1, <1>2, <1>3, <1>4, <1>5, <1>6, <1>7, <1>8, <1>9
     DEF WorkNext

\* A step keeps the types.
LEMMA WorkTypesKept ==
    ASSUME WorkInv, [WorkNext]_workVars
    PROVE  WorkTypes'
<1> USE WorkAssumption DEF WorkInv, WorkTypes, WorkTypeOK, RunNos, Edges
<1>1. CASE RunWorkflow
  BY <1>1 DEF RunWorkflow, Begin, nodeVars
<1>2. CASE ResumeWorkflow
  BY <1>2 DEF ResumeWorkflow, Begin, nodeVars
<1>3. CASE NextLevel
  <2>1. runNo \in RunNos
    BY <1>3, RunIsNumbered DEF NextLevel
  <2> DEFINE wave == {n \in WorkNodes \ scheduled : Needs(n) \subseteq scheduled}
             pending == wave \ (finished \cup level)
  <2>2. /\ scheduled' = scheduled \cup wave /\ level' = pending /\ finished' = finished \cup level
        /\ nodeState' = [nodeState EXCEPT ![runNo] =
                           [n \in WorkNodes |-> IF n \in pending THEN "run" ELSE nodeState[runNo][n]]]
        /\ nodeTries' = [nodeTries EXCEPT ![runNo] =
                           [n \in WorkNodes |-> IF n \in pending THEN 1 ELSE nodeTries[runNo][n]]]
        /\ \A n \in level : nodeState[runNo][n] = "ok"
        /\ UNCHANGED <<graph, runNo, runPhase, outputs, skipped, checkpoint>> /\ runPhase = "running"
    BY <1>3 DEF NextLevel
  <2>3. nodeState' \in [RunNos -> [WorkNodes -> {"no", "run", "ok", "bad"}]]
    BY <2>1, <2>2
  <2>4. 1 \in 0 .. WorkAttempts
    OBVIOUS
  <2>5. nodeTries' \in [RunNos -> [WorkNodes -> 0 .. WorkAttempts]]
    BY <2>1, <2>2, <2>4
  <2> QED
    BY <2>2, <2>3, <2>5
<1>4. CASE RunFails
  <2>1. runNo \in RunNos /\ 1 \in RunNos
    BY <1>4, RunIsNumbered DEF RunFails, RunNos
  <2>2. outputs[1] \subseteq WorkNodes /\ outputs[runNo] \subseteq WorkNodes /\
        checkpoint.out \subseteq WorkNodes
        /\ finished \cup level \in SUBSET WorkNodes
    BY <2>1
  <2>3. PICK done \in SUBSET WorkNodes, out \in SUBSET WorkNodes, shared \in BOOLEAN :
          checkpoint' = [done |-> done, out |-> out, shared |-> shared]
    BY <1>4, <2>2 DEF RunFails, SaveCheckpoint
  <2> QED
    BY <1>4, <2>3 DEF RunFails, nodeVars
<1>5. CASE RunSucceeds
  <2>1. runNo \in RunNos /\ 1 \in RunNos
    BY <1>5, RunIsNumbered DEF RunSucceeds, RunNos
  <2>2. outputs[1] \subseteq WorkNodes /\ outputs[runNo] \subseteq WorkNodes /\
        checkpoint.out \subseteq WorkNodes
        /\ finished \cup level \in SUBSET WorkNodes
    BY <2>1
  <2>3. PICK done \in SUBSET WorkNodes, out \in SUBSET WorkNodes, shared \in BOOLEAN :
          checkpoint' = [done |-> done, out |-> out, shared |-> shared]
    BY <1>5, <2>2 DEF RunSucceeds, SaveCheckpoint
  <2> QED
    BY <1>5, <2>3 DEF RunSucceeds, nodeVars
<1>6. ASSUME NEW r \in RunNos, NEW n \in WorkNodes, NodeSucceeds(r, n)
      PROVE  WorkTypes'
  BY <1>6 DEF NodeSucceeds, UnchangedRun
<1>7. ASSUME NEW r \in RunNos, NEW n \in WorkNodes, NodeRetries(r, n)
      PROVE  WorkTypes'
  BY <1>7 DEF NodeRetries, UnchangedRun
<1>8. ASSUME NEW r \in RunNos, NEW n \in WorkNodes, NodeFails(r, n)
      PROVE  WorkTypes'
  BY <1>8 DEF NodeFails, UnchangedRun
<1>9. CASE UNCHANGED workVars
  BY <1>9 DEF workVars, nodeVars
<1> QED
  BY <1>1, <1>2, <1>3, <1>4, <1>5, <1>6, <1>7, <1>8, <1>9
     DEF WorkNext

\* A run that begins is the next one, and no node of a later run is touched.
LEMMA RunsInOrderKept ==
    ASSUME WorkInv, [WorkNext]_workVars
    PROVE  RunsInOrder'
<1> USE WorkAssumption DEF WorkInv, WorkTypes, WorkTypeOK, RunsInOrder, RunNos
<1>1. CASE RunWorkflow
  <2>1. CASE ValidGraph /\ Begin({})
    BY <1>1, <2>1 DEF RunWorkflow, Begin, nodeVars
  <2>2. CASE ~ValidGraph
    BY <1>1, <2>2 DEF RunWorkflow, nodeVars
  <2> QED
    BY <1>1, <2>1, <2>2 DEF RunWorkflow
<1>2. CASE ResumeWorkflow
  BY <1>2 DEF ResumeWorkflow, Begin, nodeVars
<1>3. CASE NextLevel
  BY <1>3 DEF NextLevel
<1>4. CASE RunFails
  BY <1>4 DEF RunFails, SaveCheckpoint, nodeVars, CheckpointOutputs
<1>5. CASE RunSucceeds
  BY <1>5 DEF RunSucceeds, SaveCheckpoint, nodeVars, CheckpointOutputs
<1>6. ASSUME NEW r \in RunNos, NEW n \in WorkNodes, NodeSucceeds(r, n)
      PROVE  RunsInOrder'
  BY <1>6 DEF NodeSucceeds, UnchangedRun
<1>7. ASSUME NEW r \in RunNos, NEW n \in WorkNodes, NodeRetries(r, n)
      PROVE  RunsInOrder'
  BY <1>7 DEF NodeRetries, UnchangedRun
<1>8. ASSUME NEW r \in RunNos, NEW n \in WorkNodes, NodeFails(r, n)
      PROVE  RunsInOrder'
  BY <1>8 DEF NodeFails, UnchangedRun
<1>9. CASE UNCHANGED workVars
  BY <1>9 DEF workVars, nodeVars
<1> QED
  BY <1>1, <1>2, <1>3, <1>4, <1>5, <1>6, <1>7, <1>8, <1>9
     DEF WorkNext

\* A level is begun when the one before it is done.
LEMMA LevelsInOrderKept ==
    ASSUME WorkInv, [WorkNext]_workVars
    PROVE  LevelsInOrder'
<1> USE WorkAssumption
        DEF WorkInv, WorkTypes, WorkTypeOK, RunsInOrder, LevelsInOrder, RunNos, Needs,
            WorkSafe, DoneOnce, FinishedIsTrue, CheckpointIsTrue
<1>1. CASE RunWorkflow
  BY <1>1 DEF RunWorkflow, Begin, nodeVars
<1>2. CASE ResumeWorkflow
  BY <1>2 DEF ResumeWorkflow, Begin, nodeVars
<1>3. CASE NextLevel
  BY <1>3 DEF NextLevel
<1>4. CASE RunFails
  BY <1>4 DEF RunFails, SaveCheckpoint, nodeVars, CheckpointOutputs
<1>5. CASE RunSucceeds
  BY <1>5 DEF RunSucceeds, SaveCheckpoint, nodeVars, CheckpointOutputs
<1>6. ASSUME NEW r \in RunNos, NEW n \in WorkNodes, NodeSucceeds(r, n)
      PROVE  LevelsInOrder'
  BY <1>6 DEF NodeSucceeds, UnchangedRun
<1>7. ASSUME NEW r \in RunNos, NEW n \in WorkNodes, NodeRetries(r, n)
      PROVE  LevelsInOrder'
  BY <1>7 DEF NodeRetries, UnchangedRun
<1>8. ASSUME NEW r \in RunNos, NEW n \in WorkNodes, NodeFails(r, n)
      PROVE  LevelsInOrder'
  BY <1>8 DEF NodeFails, UnchangedRun
<1>9. CASE UNCHANGED workVars
  BY <1>9 DEF workVars, nodeVars
<1> QED
  BY <1>1, <1>2, <1>3, <1>4, <1>5, <1>6, <1>7, <1>8, <1>9
     DEF WorkNext

\* A level that counts as done has succeeded, now or before the checkpoint.
LEMMA FinishedIsTrueKept ==
    ASSUME WorkInv, [WorkNext]_workVars
    PROVE  FinishedIsTrue'
<1> USE WorkAssumption
        DEF WorkInv, WorkTypes, WorkTypeOK, RunsInOrder, LevelsInOrder, FinishedIsTrue,
            RunNos, Needs, WorkSafe, CheckpointIsTrue, HasSucceeded, CheckpointOutputs
<1>1. CASE RunWorkflow
  BY <1>1 DEF RunWorkflow, Begin, nodeVars
<1>2. CASE ResumeWorkflow
  BY <1>2 DEF ResumeWorkflow, Begin, nodeVars
<1>3. CASE NextLevel
  BY <1>3 DEF NextLevel
<1>4. CASE RunFails
  BY <1>4 DEF RunFails, SaveCheckpoint, nodeVars, CheckpointOutputs
<1>5. CASE RunSucceeds
  BY <1>5 DEF RunSucceeds, SaveCheckpoint, nodeVars, CheckpointOutputs
<1>6. ASSUME NEW r \in RunNos, NEW n \in WorkNodes, NodeSucceeds(r, n)
      PROVE  FinishedIsTrue'
  <2>1. /\ nodeState' = [nodeState EXCEPT ![r][n] = "ok"] /\
           outputs' = [outputs EXCEPT ![r] = @ \cup {n}]
        /\ UNCHANGED <<graph, runNo, finished, checkpoint>>
    BY <1>6 DEF NodeSucceeds, UnchangedRun
  <2>2. \A q \in RunNos, m \in WorkNodes : nodeState'[q][m] = "ok" => nodeState[q][m] = "ok" \/
        (q = r /\ m = n)
    BY <2>1
  <2>3. Advances
    BY <1>6, NodesAdvance DEF WorkNext
  <2>4. \A q \in RunNos, m \in WorkNodes : nodeState'[q][m] = "ok" => m \in outputs'[q]
    BY <2>1, <2>2, <2>3 DEF Advances
  <2>5. \A m \in finished' : (HasSucceeded(m) /\ Needs(m) \subseteq finished)'
    BY <2>1, <2>3 DEF Advances
  <2>6. \A q \in RunNos : q = runNo => finished' \subseteq CheckpointOutputs' \cup outputs'[q]
    BY <2>1, <2>3 DEF Advances
  <2> QED
    BY <2>1, <2>4, <2>5, <2>6
<1>7. ASSUME NEW r \in RunNos, NEW n \in WorkNodes, NodeRetries(r, n)
      PROVE  FinishedIsTrue'
  BY <1>7 DEF NodeRetries, UnchangedRun
<1>8. ASSUME NEW r \in RunNos, NEW n \in WorkNodes, NodeFails(r, n)
      PROVE  FinishedIsTrue'
  BY <1>8 DEF NodeFails, UnchangedRun
<1>9. CASE UNCHANGED workVars
  BY <1>9 DEF workVars, nodeVars
<1> QED
  BY <1>1, <1>2, <1>3, <1>4, <1>5, <1>6, <1>7, <1>8, <1>9
     DEF WorkNext

\* What WorkSafe says beyond the types is kept.
LEMMA WorkSafeKept ==
    ASSUME WorkInv, [WorkNext]_workVars
    PROVE  (StartsAfterNeeds /\ CheckpointIsTrue /\ DoneOnce /\ SuccessIsComplete)'
<1> USE WorkAssumption
        DEF WorkInv, WorkTypes, WorkTypeOK, RunsInOrder, LevelsInOrder, FinishedIsTrue,
            RunNos, Needs, WorkSafe, StartsAfterNeeds, CheckpointIsTrue, DoneOnce,
            SuccessIsComplete, HasSucceeded, CheckpointOutputs
<1>1. CASE RunWorkflow
  BY <1>1 DEF RunWorkflow, Begin, nodeVars
<1>2. CASE ResumeWorkflow
  BY <1>2 DEF ResumeWorkflow, Begin, nodeVars
<1>3. CASE NextLevel
  <2>1. runNo \in RunNos
    BY <1>3, RunIsNumbered DEF NextLevel
  <2> DEFINE wave == {n \in WorkNodes \ scheduled : Needs(n) \subseteq scheduled}
             pending == wave \ (finished \cup level)
  <2>2. /\ scheduled' = scheduled \cup wave /\ level' = pending /\ finished' = finished \cup level
        /\ nodeState' = [nodeState EXCEPT ![runNo] =
                           [n \in WorkNodes |-> IF n \in pending THEN "run" ELSE nodeState[runNo][n]]]
        /\ nodeTries' = [nodeTries EXCEPT ![runNo] =
                           [n \in WorkNodes |-> IF n \in pending THEN 1 ELSE nodeTries[runNo][n]]]
        /\ \A n \in level : nodeState[runNo][n] = "ok"
        /\ UNCHANGED <<graph, runNo, runPhase, outputs, skipped, checkpoint>> /\ runPhase = "running"
    BY <1>3 DEF NextLevel
  <2>3. \A n \in finished \cup level : HasSucceeded(n)
    BY <2>1, <2>2
  <2>4. \A n \in pending : Needs(n) \subseteq finished \cup level
    OBVIOUS
  <2>5. Advances
    BY <1>3, NodesAdvance DEF WorkNext
  <2> HIDE DEF wave
  <2>6. ASSUME NEW q \in RunNos, NEW x \in WorkNodes, nodeState'[q][x] # "no", NEW m \in Needs(x)
        PROVE  HasSucceeded(m)
    <3>1. CASE nodeState[q][x] # "no"
      BY <3>1, <2>6
    <3>2. CASE nodeState[q][x] = "no"
      <4>1. q = runNo /\ x \in pending
        BY <2>2, <2>6, <3>2
      <4> QED
        BY <2>3, <2>4, <2>6, <4>1
    <3> QED
      BY <3>1, <3>2
  <2>7. \A m \in WorkNodes : HasSucceeded(m) => HasSucceeded(m)'
    BY <2>5 DEF Advances
  <2>8. StartsAfterNeeds'
    BY <2>2, <2>6, <2>7
  <2>9. CheckpointIsTrue'
    BY <2>2, <2>7
  <2>10. DoneOnce'
    <3>1. \A n \in skipped : n \notin pending /\ nodeState[runNo][n] = "no" /\ n \in WorkNodes
      BY <2>2
    <3> QED
      BY <2>1, <2>2, <3>1
  <2> QED
    BY <2>2, <2>8, <2>9, <2>10
<1>4. CASE RunFails
  <2>1. runNo \in RunNos /\ 1 \in RunNos
    BY <1>4, RunIsNumbered DEF RunFails, RunNos
  <2>2. /\ checkpoint'.done = finished /\ checkpoint'.shared = (runNo = 1)
        /\ runNo = 1 => checkpoint'.out = {}
        /\ runNo # 1 =>
           checkpoint'.out = checkpoint.out \cup outputs[runNo] \cup (IF checkpoint.shared THEN outputs[1] ELSE {})
        /\ UNCHANGED <<graph, runNo, level, skipped>> /\ UNCHANGED nodeVars /\
           finished' = finished /\ scheduled' = scheduled
        /\ runPhase = "running" /\ runPhase' = "failed"
    BY <1>4 DEF RunFails, SaveCheckpoint
  <2>3. \A m \in finished : HasSucceeded(m) /\ Needs(m) \subseteq finished /\
        m \in CheckpointOutputs \cup outputs[runNo]
    BY <1>4, <2>1 DEF RunFails
  <2>4. \A m \in finished : m \in CheckpointOutputs'
    <3>1. CASE runNo = 1
      BY <2>1, <2>2, <2>3, <3>1 DEF nodeVars
    <3>2. CASE runNo # 1
      BY <2>1, <2>2, <2>3, <3>2 DEF nodeVars
    <3> QED
      BY <3>1, <3>2
  <2>5. CheckpointIsTrue'
    BY <2>2, <2>3, <2>4 DEF nodeVars
  <2>6. SuccessIsComplete'
    BY <1>4, <2>2 DEF RunFails
  <2> QED
    BY <2>2, <2>5, <2>6 DEF nodeVars
<1>5. CASE RunSucceeds
  <2>1. runNo \in RunNos /\ 1 \in RunNos
    BY <1>5, RunIsNumbered DEF RunSucceeds, RunNos
  <2>2. /\ checkpoint'.done = (finished \cup level) /\ checkpoint'.shared = (runNo = 1)
        /\ runNo = 1 => checkpoint'.out = {}
        /\ runNo # 1 =>
           checkpoint'.out = checkpoint.out \cup outputs[runNo] \cup (IF checkpoint.shared THEN outputs[1] ELSE {})
        /\ UNCHANGED <<graph, runNo, level, skipped>> /\ UNCHANGED nodeVars /\
           finished' = (finished \cup level) /\ scheduled' = scheduled
        /\ runPhase = "running" /\ runPhase' = "succeeded"
    BY <1>5 DEF RunSucceeds, SaveCheckpoint
  <2>3. \A m \in (finished \cup level) : HasSucceeded(m) /\
        Needs(m) \subseteq (finished \cup level) /\ m \in CheckpointOutputs \cup outputs[runNo]
    BY <1>5, <2>1 DEF RunSucceeds
  <2>4. \A m \in (finished \cup level) : m \in CheckpointOutputs'
    <3>1. CASE runNo = 1
      BY <2>1, <2>2, <2>3, <3>1 DEF nodeVars
    <3>2. CASE runNo # 1
      BY <2>1, <2>2, <2>3, <3>2 DEF nodeVars
    <3> QED
      BY <3>1, <3>2
  <2>5. CheckpointIsTrue'
    BY <2>2, <2>3, <2>4 DEF nodeVars
  <2>6. SuccessIsComplete'
    BY <1>5, <2>2 DEF RunSucceeds
  <2> QED
    BY <2>2, <2>5, <2>6 DEF nodeVars
<1>6. ASSUME NEW r \in RunNos, NEW n \in WorkNodes, NodeSucceeds(r, n)
      PROVE  (StartsAfterNeeds /\ CheckpointIsTrue /\ DoneOnce /\ SuccessIsComplete)'
  <2>1. /\ nodeState' = [nodeState EXCEPT ![r][n] = "ok"] /\ nodeState[r][n] = "run"
        /\ UNCHANGED <<graph, runNo, runPhase, finished, skipped, checkpoint>>
    BY <1>6 DEF NodeSucceeds, UnchangedRun
  <2>2. Advances
    BY <1>6, NodesAdvance DEF WorkNext
  <2>3. \A m \in WorkNodes : HasSucceeded(m) => HasSucceeded(m)'
    BY <2>2 DEF Advances
  <2>4. \A q \in RunNos, x \in WorkNodes : (nodeState'[q][x] = "no") <=> (nodeState[q][x] = "no")
    BY <2>1
  <2>5. StartsAfterNeeds'
    BY <2>1, <2>3, <2>4
  <2>6. CheckpointIsTrue'
    BY <2>1, <2>2, <2>3 DEF Advances
  <2>7. DoneOnce'
    BY <2>1, <2>4
  <2> QED
    BY <2>1, <2>5, <2>6, <2>7
<1>7. ASSUME NEW r \in RunNos, NEW n \in WorkNodes, NodeRetries(r, n)
      PROVE  (StartsAfterNeeds /\ CheckpointIsTrue /\ DoneOnce /\ SuccessIsComplete)'
  BY <1>7 DEF NodeRetries, UnchangedRun
<1>8. ASSUME NEW r \in RunNos, NEW n \in WorkNodes, NodeFails(r, n)
      PROVE  (StartsAfterNeeds /\ CheckpointIsTrue /\ DoneOnce /\ SuccessIsComplete)'
  BY SMTT(20), <1>8 DEF NodeFails, UnchangedRun
<1>9. CASE UNCHANGED workVars
  BY <1>9 DEF workVars, nodeVars
<1> QED
  BY <1>1, <1>2, <1>3, <1>4, <1>5, <1>6, <1>7, <1>8, <1>9
     DEF WorkNext

\* A graph of which nothing was run is in the invariant.
LEMMA WorkStarts == ASSUME WorkInit PROVE WorkInv
<1> USE WorkAssumption DEF WorkInit, RunNos
<1>1. WorkTypes
  BY DEF WorkTypes, WorkTypeOK
<1>2. RunsInOrder /\ LevelsInOrder /\ FinishedIsTrue
  BY DEF RunsInOrder, LevelsInOrder, FinishedIsTrue
<1>3. StartsAfterNeeds /\ CheckpointIsTrue /\ DoneOnce /\ SuccessIsComplete
  BY DEF StartsAfterNeeds, CheckpointIsTrue, DoneOnce, SuccessIsComplete
<1> QED
  BY <1>1, <1>2, <1>3 DEF WorkInv, WorkSafe, WorkTypes

\* Every step keeps the invariant.
LEMMA WorkStepKeeps == ASSUME WorkInv, [WorkNext]_workVars PROVE WorkInv'
<1>1. WorkTypes' /\ RunsInOrder' /\ LevelsInOrder' /\ FinishedIsTrue'
  BY WorkTypesKept, RunsInOrderKept, LevelsInOrderKept, FinishedIsTrueKept
<1> QED
  BY <1>1, WorkSafeKept DEF WorkInv, WorkSafe, WorkTypes

-----------------------------------------------------------------------------
(* Skills.                                                                 *)

\* Calls that install, remove and roll back skills.
SkillSpec == SkillsInit /\ [][SkillsNext]_skillVars

\* The types, as far as the model's type invariant leaves them open.
SkillTypes ==
    /\ SkillsTypeOK
    /\ inserted \in [SkillIds -> Nat] /\ disturbed \subseteq SkillIds
    /\ told \in [SkillIds -> {"nothing", "installed", "removed", "rolled back"}]
    /\ \A c \in SkillCalls : callAt[c] = "idle" <=> skill[c] = NoSkill

\* A toRow stays once it was inserted, and its base skill has one too.
RowsInv ==
    \A s \in SkillIds :
        /\ inserted[s] <= 1
        /\ skillRow[s] = "none" => inserted[s] = 0 /\ told[s] = "nothing" /\ registered[s] = "no"
        /\ skillRow[s] # "none" => skillRow[BaseSkill] # "none"

\* What a call has made sure of still holds when it goes on.
SkillCallsInv ==
    \A c \in SkillCalls :
        /\ callAt[c] \in {"name", "sandbox", "approve", "save"} =>
             skill[c] = BaseSkill \/ skillRow[BaseSkill] # "none"
        /\ callAt[c] \in {"details", "activate", "undo", "drop", "restore"} =>
             skillRow[skill[c]] # "none"

\* Table and registry agree with the last said.
Agree(s) ==
    /\ told[s] = "nothing" => registered[s] = "no" /\ skillRow[s] # "ACTIVE"
    /\ told[s] = "installed" => registered[s] = "full" /\ skillRow[s] = "ACTIVE"
    /\ told[s] = "removed" => registered[s] = "no" /\ skillRow[s] = "REMOVED"
    /\ told[s] = "rolled back" => registered[s] = "bare" /\ skillRow[s] = "ACTIVE"

\* A skill nobody disturbed has one call at most; between the writes of an
\* installation the call alone knows what is missing.
Exact(s) ==
    /\ \A c \in SkillCalls, d \in SkillCalls : skill[c] = s /\ skill[d] = s => c = d
    /\ \A c \in SkillCalls : skill[c] = s /\ callAt[c] = "details" =>
         told[s] = "nothing" /\ skillRow[s] = "INSTALLED" /\ registered[s] = "no"
    /\ \A c \in SkillCalls : skill[c] = s /\ callAt[c] \in {"activate", "undo"} =>
         told[s] = "nothing" /\ skillRow[s] = "INSTALLED" /\ registered[s] = "full"
    /\ (\A c \in SkillCalls : skill[c] = s => callAt[c] \notin {"activate", "undo"}) => Agree(s)

\* Skills that no overlapping or broken-off call disturbed are exact.
Undisturbed == \A s \in SkillIds \ disturbed : Exact(s)

\* The inductive invariant. Table and registry may differ while a call is between
\* two writes; the invariant says which call, and what it has left to do.
SkillInv == SkillTypes /\ RowsInv /\ SkillCallsInv /\ Undisturbed

\* What the step of call c on skill s leaves alone.
SkillFrame(c, s) ==
    /\ s \in SkillIds /\ skill[c] = s /\ callAt[c] # "idle"
    /\ callAt' \in [SkillCalls -> Points] /\ skill' \in [SkillCalls -> SkillIds \cup {NoSkill}]
    /\ \A d \in SkillCalls \ {c} : callAt'[d] = callAt[d] /\ skill'[d] = skill[d]
    /\ \A t \in SkillIds \ {s} :
         /\ skillRow'[t] = skillRow[t] /\ inserted'[t] = inserted[t]
         /\ registered'[t] = registered[t] /\ told'[t] = told[t] /\
            (t \in disturbed' <=> t \in disturbed)

\* The call ends.
CallOver(c) == callAt'[c] = "idle" /\ skill'[c] = NoSkill

\* The call goes on at this point.
GoesOnAt(c, point) == callAt'[c] = point /\ skill'[c] = skill[c]

\* The step inserts no row for s, and does not disturb it.
SkillSame(s) ==
    /\ inserted'[s] = inserted[s] /\ (s \in disturbed' <=> s \in disturbed)

\* A step that writes nothing: the call goes on or ends.
Quiet(c, s) ==
    /\ SkillSame(s) /\ skillRow'[s] = skillRow[s] /\ registered'[s] = registered[s] /\
       told'[s] = told[s]
    /\ \/ callAt[c] \in {"list", "name", "sandbox", "approve", "save", "drop", "restore"} /\ CallOver(c)
       \/ callAt[c] = "list" /\ (s = BaseSkill \/ skillRow[BaseSkill] # "none") /\ GoesOnAt(c, "name")
       \/ callAt[c] \in {"name", "sandbox", "approve"} /\
          \E to \in {"sandbox", "approve", "save"} : GoesOnAt(c, to)
       \/ callAt[c] = "activate" /\ GoesOnAt(c, "undo")

\* The row is inserted.
Saves(c, s) ==
    /\ callAt[c] = "save" /\ skillRow[s] = "none" /\ skillRow'[s] = "INSTALLED" /\
       GoesOnAt(c, "details")
    /\ inserted'[s] = inserted[s] + 1 /\ registered'[s] = registered[s] /\ told'[s] = told[s]
    /\ (s \in disturbed' <=> s \in disturbed)

\* The skill is registered.
Details(c, s) ==
    /\ callAt[c] = "details" /\ registered'[s] = "full" /\ GoesOnAt(c, "activate")
    /\ SkillSame(s) /\ skillRow'[s] = skillRow[s] /\ told'[s] = told[s]

\* A step that ends a call with a toRow and an entry: the last three tell the caller.
EndsWith(c, s, from, toRow, reg, said) ==
    /\ callAt[c] = from /\ CallOver(c) /\ SkillSame(s)
    /\ skillRow'[s] = toRow /\ registered'[s] = reg /\ told'[s] = said

\* A call broken off between two writes disturbs its skill.
Cut(c, s) ==
    /\ callAt[c] \in {"details", "undo"} /\ CallOver(c) /\ s \in disturbed'
    /\ inserted'[s] = inserted[s]
    /\ skillRow'[s] = skillRow[s] /\ registered'[s] = registered[s] /\ told'[s] = told[s]

\* What a step of call c does to its skill.
SkillEffect(c, s) ==
    \/ Quiet(c, s) \/ Saves(c, s) \/ Details(c, s) \/ Cut(c, s)
    \/ EndsWith(c, s, "activate", "ACTIVE", registered[s], "installed")
    \/ EndsWith(c, s, "undo", "REMOVED", "no", told[s])
    \/ EndsWith(c, s, "drop", "REMOVED", "no", "removed")
    \/ EndsWith(c, s, "restore", "ACTIVE", "bare", "rolled back")

\* The steps of a call that has begun.
CallStep(c) ==
    \/ ResolveDependencies(c) \/ CheckInstalled(c) \/ Vetted(c) \/ SaveSkill(c) \/ SaveRaises(c)
    \/ SaveDetails(c) \/ ActivateSkill(c) \/ ActivateFails(c) \/ UndoInstall(c)
    \/ RemoveSkill(c) \/ RollbackSkill(c) \/ CutOff(c)

\* The invariant is more than what SkillSafe says.
LEMMA SkillInvSafe == ASSUME SkillInv PROVE SkillSafe
<1> USE SkillAssumption DEF SkillInv
<1>1. ASSUME NEW s \in SkillIds, ~Busy(s), s \notin disturbed
      PROVE  CASE told[s] = "nothing" -> registered[s] = "no" /\ skillRow[s] # "ACTIVE"
               [] told[s] = "installed" -> registered[s] = "full" /\ skillRow[s] = "ACTIVE"
               [] told[s] = "removed" -> registered[s] = "no" /\ skillRow[s] = "REMOVED"
               [] told[s] = "rolled back" -> registered[s] = "bare" /\ skillRow[s] = "ACTIVE"
  <2>1. Agree(s)
    BY <1>1 DEF Undisturbed, Exact, Busy
  <2>2. told[s] \in {"nothing", "installed", "removed", "rolled back"}
    BY DEF SkillTypes
  <2> QED
    BY <2>1, <2>2 DEF Agree
<1>2. AnswersHold
  BY <1>1 DEF AnswersHold
<1>3. InsertedOnce /\ RegisteredIsKnown
  BY DEF InsertedOnce, RegisteredIsKnown, RowsInv
<1> QED
  BY <1>2, <1>3 DEF SkillSafe, SkillTypes

\* A step of a call leaves every other call and skill alone.
LEMMA StepFrame ==
    ASSUME SkillInv, NEW c \in SkillCalls, CallStep(c)
    PROVE  SkillFrame(c, skill[c])
<1> USE SkillAssumption DEF SkillInv, SkillTypes, SkillsTypeOK
<1>0. skill[c] \in SkillIds
  BY DEF CallStep, ResolveDependencies, CheckInstalled, Vetted, SaveSkill, SaveRaises,
         SaveDetails, ActivateSkill, ActivateFails, UndoInstall, RemoveSkill, RollbackSkill,
         CutOff
<1>1. CASE ResolveDependencies(c)
  BY <1>0, <1>1 DEF ResolveDependencies, CallFails, Ends, Reaches, SkillFrame, Points
<1>2. CASE CheckInstalled(c)
  BY <1>0, <1>2 DEF CheckInstalled, CallFails, Ends, Reaches, SkillFrame, Points
<1>3. CASE Vetted(c)
  BY <1>0, <1>3 DEF Vetted, CallFails, Ends, Reaches, SkillFrame, Points
<1>4. CASE SaveSkill(c)
  BY <1>0, <1>4 DEF SaveSkill, Reaches, SkillFrame, Points
<1>5. CASE SaveRaises(c)
  BY <1>0, <1>5 DEF SaveRaises, CallFails, Ends, SkillFrame, Points
<1>6. CASE SaveDetails(c)
  BY <1>0, <1>6 DEF SaveDetails, Reaches, SkillFrame, Points
<1>7. CASE ActivateSkill(c)
  BY <1>0, <1>7 DEF ActivateSkill, Ends, SkillFrame, Points
<1>8. CASE ActivateFails(c)
  BY <1>0, <1>8 DEF ActivateFails, Reaches, SkillFrame, Points
<1>9. CASE UndoInstall(c)
  BY <1>0, <1>9 DEF UndoInstall, Ends, SkillFrame, Points
<1>10. CASE RemoveSkill(c)
  BY <1>0, <1>10 DEF RemoveSkill, Ends, SkillFrame, Points
<1>11. CASE RollbackSkill(c)
  BY <1>0, <1>11 DEF RollbackSkill, Ends, SkillFrame, Points
<1>12. CASE CutOff(c)
  BY <1>0, <1>12 DEF CutOff, Ends, SkillFrame, Points
<1> QED
  BY <1>1, <1>2, <1>3, <1>4, <1>5, <1>6, <1>7, <1>8, <1>9, <1>10, <1>11, <1>12 DEF CallStep

\* It has one of these effects on its own.
LEMMA StepEffect ==
    ASSUME SkillInv, NEW c \in SkillCalls, CallStep(c)
    PROVE  SkillEffect(c, skill[c])
<1> USE SkillAssumption DEF SkillInv, SkillTypes, SkillsTypeOK
<1>0. skill[c] \in SkillIds
  BY DEF CallStep, ResolveDependencies, CheckInstalled, Vetted, SaveSkill, SaveRaises,
         SaveDetails, ActivateSkill, ActivateFails, UndoInstall, RemoveSkill, RollbackSkill,
         CutOff
<1>1. CASE ResolveDependencies(c)
  BY <1>0, <1>1
     DEF ResolveDependencies, CallFails, Ends, Reaches, SkillEffect, Quiet, Saves, Details,
         EndsWith, Cut, CallOver, GoesOnAt, SkillSame, Points
<1>2. CASE CheckInstalled(c)
  BY <1>0, <1>2
     DEF CheckInstalled, CallFails, Ends, Reaches, SkillEffect, Quiet, Saves, Details,
         EndsWith, Cut, CallOver, GoesOnAt, SkillSame, Points
<1>3. CASE Vetted(c)
  BY <1>0, <1>3
     DEF Vetted, CallFails, Ends, Reaches, SkillEffect, Quiet, Saves, Details, EndsWith, Cut,
         CallOver, GoesOnAt, SkillSame, Points
<1>4. CASE SaveSkill(c)
  BY <1>0, <1>4
     DEF SaveSkill, Reaches, SkillEffect, Quiet, Saves, Details, EndsWith, Cut, CallOver,
         GoesOnAt, SkillSame, Points
<1>5. CASE SaveRaises(c)
  BY <1>0, <1>5
     DEF SaveRaises, CallFails, Ends, SkillEffect, Quiet, Saves, Details, EndsWith, Cut,
         CallOver, GoesOnAt, SkillSame, Points
<1>6. CASE SaveDetails(c)
  BY <1>0, <1>6
     DEF SaveDetails, Reaches, SkillEffect, Quiet, Saves, Details, EndsWith, Cut, CallOver,
         GoesOnAt, SkillSame, Points
<1>7. CASE ActivateSkill(c)
  BY <1>0, <1>7
     DEF ActivateSkill, Ends, SkillEffect, Quiet, Saves, Details, EndsWith, Cut, CallOver,
         GoesOnAt, SkillSame, Points
<1>8. CASE ActivateFails(c)
  BY <1>0, <1>8
     DEF ActivateFails, Reaches, SkillEffect, Quiet, Saves, Details, EndsWith, Cut, CallOver,
         GoesOnAt, SkillSame, Points
<1>9. CASE UndoInstall(c)
  BY <1>0, <1>9
     DEF UndoInstall, Ends, SkillEffect, Quiet, Saves, Details, EndsWith, Cut, CallOver,
         GoesOnAt, SkillSame, Points
<1>10. CASE RemoveSkill(c)
  BY <1>0, <1>10
     DEF RemoveSkill, Ends, SkillEffect, Quiet, Saves, Details, EndsWith, Cut, CallOver,
         GoesOnAt, SkillSame, Points
<1>11. CASE RollbackSkill(c)
  BY <1>0, <1>11
     DEF RollbackSkill, Ends, SkillEffect, Quiet, Saves, Details, EndsWith, Cut, CallOver,
         GoesOnAt, SkillSame, Points
<1>12. CASE CutOff(c)
  <2>1. CASE callAt[c] \in {"details", "undo"}
    BY <1>0, <1>12, <2>1
       DEF CutOff, Ends, SkillEffect, Quiet, Saves, Details, EndsWith, Cut, CallOver,
           GoesOnAt, SkillSame, Points
  <2>2. CASE callAt[c] \in {"drop", "restore"}
    BY <1>0, <1>12, <2>2
       DEF CutOff, Ends, SkillEffect, Quiet, Saves, Details, EndsWith, Cut, CallOver,
           GoesOnAt, SkillSame, Points
  <2> QED
    BY <1>12, <2>1, <2>2 DEF CutOff
<1> QED
  BY <1>1, <1>2, <1>3, <1>4, <1>5, <1>6, <1>7, <1>8, <1>9, <1>10, <1>11, <1>12 DEF CallStep

\* A row more is still a number of rows.
LEMMA OneMoreRow == ASSUME NEW n \in Nat PROVE n + 1 \in Nat
OBVIOUS

\* A step keeps the types.
LEMMA SkillTypesKept ==
    ASSUME SkillInv, [SkillsNext]_skillVars
    PROVE  SkillTypes'
<1> USE SkillAssumption DEF SkillInv, SkillTypes, SkillsTypeOK, Points
<1>1. ASSUME NEW c \in SkillCalls, ResolveDependencies(c)
      PROVE  SkillTypes'
  BY ZenonT(20), <1>1 DEF ResolveDependencies, CallFails, Ends, Reaches
<1>2. ASSUME NEW c \in SkillCalls, CheckInstalled(c)
      PROVE  SkillTypes'
  BY <1>2 DEF CheckInstalled, CallFails, Ends, Reaches
<1>3. ASSUME NEW c \in SkillCalls, Vetted(c)
      PROVE  SkillTypes'
  BY <1>3 DEF Vetted, CallFails, Ends, Reaches
<1>4. ASSUME NEW c \in SkillCalls, SaveSkill(c)
      PROVE  SkillTypes'
  <2>1. callAt[c] = "save"
    BY <1>4 DEF SaveSkill
  <2>2. callAt[c] = "idle" <=> skill[c] = NoSkill
    OBVIOUS
  <2>3. skill[c] # NoSkill
    BY <2>1, <2>2
  <2>4. skill[c] \in SkillIds
    BY <2>3
  <2>5. inserted[skill[c]] \in Nat
    BY <2>4
  <2>6. inserted[skill[c]] + 1 \in Nat
    BY <2>5, OneMoreRow
  <2> QED
    BY <1>4, <2>4, <2>6 DEF SaveSkill, Reaches
<1>5. ASSUME NEW c \in SkillCalls, SaveRaises(c)
      PROVE  SkillTypes'
  BY <1>5 DEF SaveRaises, CallFails, Ends
<1>6. ASSUME NEW c \in SkillCalls, SaveDetails(c)
      PROVE  SkillTypes'
  BY <1>6 DEF SaveDetails, Reaches
<1>7. ASSUME NEW c \in SkillCalls, ActivateSkill(c)
      PROVE  SkillTypes'
  BY <1>7 DEF ActivateSkill, Ends
<1>8. ASSUME NEW c \in SkillCalls, ActivateFails(c)
      PROVE  SkillTypes'
  BY <1>8 DEF ActivateFails, Reaches
<1>9. ASSUME NEW c \in SkillCalls, UndoInstall(c)
      PROVE  SkillTypes'
  BY <1>9 DEF UndoInstall, Ends
<1>10. ASSUME NEW c \in SkillCalls, RemoveSkill(c)
      PROVE  SkillTypes'
  BY <1>10 DEF RemoveSkill, Ends
<1>11. ASSUME NEW c \in SkillCalls, RollbackSkill(c)
      PROVE  SkillTypes'
  BY <1>11 DEF RollbackSkill, Ends
<1>12. ASSUME NEW c \in SkillCalls, CutOff(c)
      PROVE  SkillTypes'
  BY <1>12 DEF CutOff, Ends
<1>13. ASSUME NEW c \in SkillCalls, NEW s \in SkillIds, BeginInstall(c, s)
      PROVE  SkillTypes'
  BY <1>13 DEF BeginInstall, StartCall
<1>14. ASSUME NEW c \in SkillCalls, NEW s \in SkillIds, BeginRemove(c, s)
      PROVE  SkillTypes'
  BY <1>14 DEF BeginRemove, StartCall
<1>15. ASSUME NEW c \in SkillCalls, NEW s \in SkillIds, BeginRollback(c, s)
      PROVE  SkillTypes'
  BY <1>15 DEF BeginRollback, StartCall
<1>16. CASE RestartProcess
  BY <1>16 DEF RestartProcess
<1>17. CASE UNCHANGED skillVars
  BY <1>17 DEF skillVars
<1> QED
  BY <1>1, <1>2, <1>3, <1>4, <1>5, <1>6, <1>7, <1>8, <1>9, <1>10, <1>11, <1>12, <1>13,
     <1>14, <1>15, <1>16, <1>17
     DEF SkillsNext

\* No effect takes a row away.
LEMMA SkillScalars ==
    ASSUME SkillInv, NEW c \in SkillCalls, NEW s \in SkillIds, SkillFrame(c, s), SkillEffect(c, s)
    PROVE  /\ skill[c] = s /\ skill'[c] \in {s, NoSkill}
           /\ \A t \in SkillIds : skillRow[t] # "none" => skillRow'[t] # "none"
           /\ \A t \in SkillIds : t \in disturbed => t \in disturbed'
<1> USE SkillAssumption DEF SkillFrame, CallOver, GoesOnAt, SkillSame
<1>1. CASE Quiet(c, s)
  BY <1>1 DEF Quiet
<1>2. CASE Saves(c, s)
  BY <1>2 DEF Saves
<1>3. CASE Details(c, s)
  BY <1>3 DEF Details
<1>4. CASE Cut(c, s)
  BY <1>4 DEF Cut
<1>5. CASE EndsWith(c, s, "activate", "ACTIVE", registered[s], "installed")
  BY <1>5 DEF EndsWith
<1>6. CASE EndsWith(c, s, "undo", "REMOVED", "no", told[s])
  BY <1>6 DEF EndsWith
<1>7. CASE EndsWith(c, s, "drop", "REMOVED", "no", "removed")
  BY <1>7 DEF EndsWith
<1>8. CASE EndsWith(c, s, "restore", "ACTIVE", "bare", "rolled back")
  BY <1>8 DEF EndsWith
<1> QED
  BY <1>1, <1>2, <1>3, <1>4, <1>5, <1>6, <1>7, <1>8 DEF SkillEffect

\* An effect inserts a row for a skill without one only.
LEMMA RowsEffect ==
    ASSUME SkillInv, NEW c \in SkillCalls, NEW s \in SkillIds, SkillFrame(c, s), SkillEffect(c, s)
    PROVE  RowsInv'
<1> USE SkillAssumption
<1>0. /\ \A t \in SkillIds \ {s} : skillRow'[t] = skillRow[t] /\ inserted'[t] = inserted[t] /\
         registered'[t] = registered[t] /\ told'[t] = told[t]
      /\ \A t \in SkillIds : skillRow[t] # "none" => skillRow'[t] # "none"
  BY SkillScalars DEF SkillFrame
<1>a. \A t \in SkillIds : inserted[t] <= 1
                       /\ (skillRow[t] = "none" => inserted[t] = 0 /\ told[t] = "nothing" /\
                          registered[t] = "no")
                       /\ (skillRow[t] # "none" => skillRow[BaseSkill] # "none")
  BY DEF SkillInv, RowsInv
<1>b. (callAt[c] = "save" => s = BaseSkill \/ skillRow[BaseSkill] # "none")
      /\ (callAt[c] \in {"details", "activate", "undo", "drop", "restore"} => skillRow[s] # "none")
  BY DEF SkillInv, SkillCallsInv, SkillFrame
<1>1. CASE Quiet(c, s)
  <2>1. inserted'[s] <= 1 /\ (skillRow'[s] = "none" => inserted'[s] = 0 /\ told'[s] = "nothing" /\
        registered'[s] = "no")
        /\ (skillRow'[s] # "none" => skillRow'[BaseSkill] # "none")
    BY <1>0, <1>a, <1>b, <1>1 DEF Quiet, SkillSame, CallOver, GoesOnAt
  <2> QED
    BY <1>0, <1>a, <2>1 DEF RowsInv
<1>2. CASE Saves(c, s)
  <2>1. inserted'[s] <= 1 /\ (skillRow'[s] = "none" => inserted'[s] = 0 /\ told'[s] = "nothing" /\
        registered'[s] = "no")
        /\ (skillRow'[s] # "none" => skillRow'[BaseSkill] # "none")
    BY <1>0, <1>a, <1>b, <1>2 DEF Saves, SkillSame, CallOver, GoesOnAt
  <2> QED
    BY <1>0, <1>a, <2>1 DEF RowsInv
<1>3. CASE Details(c, s)
  <2>1. inserted'[s] <= 1 /\ (skillRow'[s] = "none" => inserted'[s] = 0 /\ told'[s] = "nothing" /\
        registered'[s] = "no")
        /\ (skillRow'[s] # "none" => skillRow'[BaseSkill] # "none")
    BY <1>0, <1>a, <1>b, <1>3 DEF Details, SkillSame, CallOver, GoesOnAt
  <2> QED
    BY <1>0, <1>a, <2>1 DEF RowsInv
<1>4. CASE Cut(c, s)
  <2>1. inserted'[s] <= 1 /\ (skillRow'[s] = "none" => inserted'[s] = 0 /\ told'[s] = "nothing" /\
        registered'[s] = "no")
        /\ (skillRow'[s] # "none" => skillRow'[BaseSkill] # "none")
    BY <1>0, <1>a, <1>b, <1>4 DEF Cut, SkillSame, CallOver, GoesOnAt
  <2> QED
    BY <1>0, <1>a, <2>1 DEF RowsInv
<1>5. CASE EndsWith(c, s, "activate", "ACTIVE", registered[s], "installed")
  <2>1. inserted'[s] <= 1 /\ (skillRow'[s] = "none" => inserted'[s] = 0 /\ told'[s] = "nothing" /\
        registered'[s] = "no")
        /\ (skillRow'[s] # "none" => skillRow'[BaseSkill] # "none")
    BY <1>0, <1>a, <1>b, <1>5 DEF EndsWith, SkillSame, CallOver, GoesOnAt
  <2> QED
    BY <1>0, <1>a, <2>1 DEF RowsInv
<1>6. CASE EndsWith(c, s, "undo", "REMOVED", "no", told[s])
  <2>1. inserted'[s] <= 1 /\ (skillRow'[s] = "none" => inserted'[s] = 0 /\ told'[s] = "nothing" /\
        registered'[s] = "no")
        /\ (skillRow'[s] # "none" => skillRow'[BaseSkill] # "none")
    BY <1>0, <1>a, <1>b, <1>6 DEF EndsWith, SkillSame, CallOver, GoesOnAt
  <2> QED
    BY <1>0, <1>a, <2>1 DEF RowsInv
<1>7. CASE EndsWith(c, s, "drop", "REMOVED", "no", "removed")
  <2>1. inserted'[s] <= 1 /\ (skillRow'[s] = "none" => inserted'[s] = 0 /\ told'[s] = "nothing" /\
        registered'[s] = "no")
        /\ (skillRow'[s] # "none" => skillRow'[BaseSkill] # "none")
    BY <1>0, <1>a, <1>b, <1>7 DEF EndsWith, SkillSame, CallOver, GoesOnAt
  <2> QED
    BY <1>0, <1>a, <2>1 DEF RowsInv
<1>8. CASE EndsWith(c, s, "restore", "ACTIVE", "bare", "rolled back")
  <2>1. inserted'[s] <= 1 /\ (skillRow'[s] = "none" => inserted'[s] = 0 /\ told'[s] = "nothing" /\
        registered'[s] = "no")
        /\ (skillRow'[s] # "none" => skillRow'[BaseSkill] # "none")
    BY <1>0, <1>a, <1>b, <1>8 DEF EndsWith, SkillSame, CallOver, GoesOnAt
  <2> QED
    BY <1>0, <1>a, <2>1 DEF RowsInv
<1> QED
  BY <1>1, <1>2, <1>3, <1>4, <1>5, <1>6, <1>7, <1>8 DEF SkillEffect

\* What a call relies on is not taken away by another.
LEMMA CallsEffect ==
    ASSUME SkillInv, NEW c \in SkillCalls, NEW s \in SkillIds, SkillFrame(c, s), SkillEffect(c, s)
    PROVE  SkillCallsInv'
<1> USE SkillAssumption
<1>0. /\ \A d \in SkillCalls \ {c} : callAt'[d] = callAt[d] /\ skill'[d] = skill[d]
      /\ \A t \in SkillIds : skillRow[t] # "none" => skillRow'[t] # "none"
  BY SkillScalars DEF SkillFrame
<1>a. \A d \in SkillCalls :
        /\ (callAt[d] \in {"name", "sandbox", "approve", "save"} => skill[d] = BaseSkill \/
           skillRow[BaseSkill] # "none")
        /\ (callAt[d] \in {"details", "activate", "undo", "drop", "restore"} =>
           skillRow[skill[d]] # "none")
        /\ callAt[d] # "idle" => skill[d] \in SkillIds
  BY DEF SkillInv, SkillCallsInv, SkillTypes, SkillsTypeOK
<1>b. skill[c] = s
  BY DEF SkillFrame
<1>c. /\ (callAt'[c] \in {"name", "sandbox", "approve", "save"} => skill'[c] = BaseSkill \/
         skillRow'[BaseSkill] # "none")
      /\ (callAt'[c] \in {"details", "activate", "undo", "drop", "restore"} =>
         skillRow'[skill'[c]] # "none")
<2>1. CASE Quiet(c, s)
  BY <1>0, <1>a, <1>b, <2>1 DEF Quiet, SkillSame, CallOver, GoesOnAt
<2>2. CASE Saves(c, s)
  BY <1>0, <1>a, <1>b, <2>2 DEF Saves, SkillSame, CallOver, GoesOnAt
<2>3. CASE Details(c, s)
  BY <1>0, <1>a, <1>b, <2>3 DEF Details, SkillSame, CallOver, GoesOnAt
<2>4. CASE Cut(c, s)
  BY <1>0, <1>a, <1>b, <2>4 DEF Cut, SkillSame, CallOver, GoesOnAt
<2>5. CASE EndsWith(c, s, "activate", "ACTIVE", registered[s], "installed")
  BY <1>0, <1>a, <1>b, <2>5 DEF EndsWith, SkillSame, CallOver, GoesOnAt
<2>6. CASE EndsWith(c, s, "undo", "REMOVED", "no", told[s])
  BY <1>0, <1>a, <1>b, <2>6 DEF EndsWith, SkillSame, CallOver, GoesOnAt
<2>7. CASE EndsWith(c, s, "drop", "REMOVED", "no", "removed")
  BY <1>0, <1>a, <1>b, <2>7 DEF EndsWith, SkillSame, CallOver, GoesOnAt
<2>8. CASE EndsWith(c, s, "restore", "ACTIVE", "bare", "rolled back")
  BY <1>0, <1>a, <1>b, <2>8 DEF EndsWith, SkillSame, CallOver, GoesOnAt
<2> QED
  BY <2>1, <2>2, <2>3, <2>4, <2>5, <2>6, <2>7, <2>8 DEF SkillEffect

<1>d. ASSUME NEW d \in SkillCalls, d # c
      PROVE  /\ (callAt'[d] \in {"name", "sandbox", "approve", "save"} => skill'[d] = BaseSkill \/
                skillRow'[BaseSkill] # "none")
             /\ (callAt'[d] \in {"details", "activate", "undo", "drop", "restore"} =>
                skillRow'[skill'[d]] # "none")
  BY <1>0, <1>a, <1>d
<1> QED
  BY <1>c, <1>d DEF SkillCallsInv

\* An effect leaves an undisturbed skill exact.
LEMMA ExactEffect ==
    ASSUME SkillInv, NEW c \in SkillCalls, NEW s \in SkillIds, SkillFrame(c, s), SkillEffect(c, s)
    PROVE  Undisturbed'
<1> USE SkillAssumption
<1>0. /\ \A d \in SkillCalls \ {c} : callAt'[d] = callAt[d] /\ skill'[d] = skill[d]
      /\ skill[c] = s /\ skill'[c] \in {s, NoSkill} /\ callAt[c] # "idle"
  BY SkillScalars DEF SkillFrame
<1>1. ASSUME NEW t \in SkillIds \ disturbed', t # s
      PROVE  Exact(t)'
  <2>1. /\ skillRow'[t] = skillRow[t] /\ registered'[t] = registered[t] /\ told'[t] = told[t] /\
           t \notin disturbed
        /\ t # NoSkill
    BY <1>1, SkillScalars DEF SkillFrame
  <2>2. Exact(t)
    BY <1>1, <2>1 DEF SkillInv, Undisturbed
  <2>3. \A d \in SkillCalls : (skill'[d] = t <=> skill[d] = t) /\ (skill[d] = t =>
        callAt'[d] = callAt[d])
    BY <1>0, <1>1, <2>1
  <2> QED
    BY <2>1, <2>2, <2>3 DEF Exact, Agree
<1>2. ASSUME s \notin disturbed'
      PROVE  Exact(s)'
  <2>1. s \notin disturbed
    BY <1>2, SkillScalars
  <2>2. Exact(s)
    BY <2>1 DEF SkillInv, Undisturbed
  <2>3. \A d \in SkillCalls : skill'[d] = s => d = c
    BY <1>0, <2>2 DEF Exact
  <2>4. /\ callAt[c] = "details" => told[s] = "nothing" /\ skillRow[s] = "INSTALLED" /\
           registered[s] = "no"
        /\ callAt[c] \in {"activate", "undo"} => told[s] = "nothing" /\ skillRow[s] = "INSTALLED" /\
           registered[s] = "full"
        /\ callAt[c] \notin {"activate", "undo"} => Agree(s)
        /\ skillRow[s] = "none" => told[s] = "nothing" /\ registered[s] = "no"
    BY <1>0, <2>2 DEF Exact, SkillInv, RowsInv
  <2>5. /\ skill'[c] = s /\ callAt'[c] = "details" => told'[s] = "nothing" /\
           skillRow'[s] = "INSTALLED" /\ registered'[s] = "no"
        /\ skill'[c] = s /\ callAt'[c] \in {"activate", "undo"} => told'[s] = "nothing" /\
           skillRow'[s] = "INSTALLED" /\ registered'[s] = "full"
        /\ ~(skill'[c] = s /\ callAt'[c] \in {"activate", "undo"}) => Agree(s)'
<3>1. CASE Quiet(c, s)
  BY <1>0, <1>2, <2>4, <3>1 DEF Quiet, SkillSame, CallOver, GoesOnAt, Agree
<3>2. CASE Saves(c, s)
  BY <1>0, <1>2, <2>4, <3>2 DEF Saves, SkillSame, CallOver, GoesOnAt, Agree
<3>3. CASE Details(c, s)
  BY <1>0, <1>2, <2>4, <3>3 DEF Details, SkillSame, CallOver, GoesOnAt, Agree
<3>4. CASE Cut(c, s)
  BY <1>0, <1>2, <2>4, <3>4 DEF Cut, SkillSame, CallOver, GoesOnAt, Agree
<3>5. CASE EndsWith(c, s, "activate", "ACTIVE", registered[s], "installed")
  BY <1>0, <1>2, <2>4, <3>5 DEF EndsWith, SkillSame, CallOver, GoesOnAt, Agree
<3>6. CASE EndsWith(c, s, "undo", "REMOVED", "no", told[s])
  BY <1>0, <1>2, <2>4, <3>6 DEF EndsWith, SkillSame, CallOver, GoesOnAt, Agree
<3>7. CASE EndsWith(c, s, "drop", "REMOVED", "no", "removed")
  BY <1>0, <1>2, <2>4, <3>7 DEF EndsWith, SkillSame, CallOver, GoesOnAt, Agree
<3>8. CASE EndsWith(c, s, "restore", "ACTIVE", "bare", "rolled back")
  BY <1>0, <1>2, <2>4, <3>8 DEF EndsWith, SkillSame, CallOver, GoesOnAt, Agree
<3> QED
  BY <3>1, <3>2, <3>3, <3>4, <3>5, <3>6, <3>7, <3>8 DEF SkillEffect

  <2> QED
    BY <2>3, <2>5 DEF Exact
<1> QED
  BY <1>1, <1>2 DEF Undisturbed

\* A call that begins disturbs a skill that is busy, and changes nothing else.
LEMMA BeginEffect ==
    ASSUME SkillInv, NEW c \in SkillCalls, NEW s \in SkillIds,
           NEW point \in {"list", "drop", "restore"}, StartCall(c, s, point),
           point # "list" => skillRow[s] # "none"
    PROVE  RowsInv' /\ SkillCallsInv' /\ Undisturbed'
<1> USE SkillAssumption
<1>0. /\ \A d \in SkillCalls \ {c} : callAt'[d] = callAt[d] /\ skill'[d] = skill[d]
      /\ callAt'[c] = point /\ skill'[c] = s /\ UNCHANGED <<skillRow, inserted, registered, told>>
      /\ callAt[c] = "idle" /\ skill[c] = NoSkill
      /\ disturbed' = IF Busy(s) THEN disturbed \cup {s} ELSE disturbed
  BY DEF StartCall, SkillInv, SkillTypes, SkillsTypeOK
<1>1. RowsInv'
  BY <1>0 DEF SkillInv, RowsInv
<1>2. SkillCallsInv'
  BY <1>0 DEF SkillInv, SkillCallsInv
<1>3. ASSUME NEW t \in SkillIds \ disturbed'
      PROVE  Exact(t)'
  <2>1. t \notin disturbed /\ (t = s => ~Busy(s)) /\ Exact(t)
    BY <1>0, <1>3 DEF SkillInv, Undisturbed
  <2>2. CASE t # s
    <3>1. \A d \in SkillCalls : (skill'[d] = t <=> skill[d] = t) /\ (skill[d] = t =>
          callAt'[d] = callAt[d])
      BY <1>0, <2>2
    <3> QED
      BY <1>0, <2>1, <3>1 DEF Exact, Agree
  <2>3. CASE t = s
    <3>1. \A d \in SkillCalls : skill'[d] = s => d = c
      BY <1>0, <2>1, <2>3 DEF Busy
    <3>2. Agree(s)
      BY <2>1, <2>3 DEF Busy, Exact
    <3> QED
      BY <1>0, <2>3, <3>1, <3>2 DEF Exact, Agree
  <2> QED
    BY <2>2, <2>3
<1> QED
  BY <1>1, <1>2, <1>3 DEF Undisturbed

\* An empty table and registry are in the invariant.
LEMMA SkillsStart == ASSUME SkillsInit PROVE SkillInv
<1> USE SkillAssumption DEF SkillsInit
<1>1. SkillTypes
  BY DEF SkillTypes, SkillsTypeOK, Points
<1>2. RowsInv /\ SkillCallsInv
  BY DEF RowsInv, SkillCallsInv
<1>3. Undisturbed
  BY DEF Undisturbed, Exact, Agree
<1> QED
  BY <1>1, <1>2, <1>3 DEF SkillInv

\* Every step keeps it.
LEMMA SkillStepKeeps == ASSUME SkillInv, [SkillsNext]_skillVars PROVE SkillInv'
<1> USE SkillAssumption
<1>1. ASSUME NEW c \in SkillCalls, CallStep(c)
      PROVE  RowsInv' /\ SkillCallsInv' /\ Undisturbed'
  <2>1. skill[c] \in SkillIds /\ SkillFrame(c, skill[c]) /\ SkillEffect(c, skill[c])
    BY <1>1, StepFrame, StepEffect DEF SkillFrame
  <2> QED
    BY <2>1, RowsEffect, CallsEffect, ExactEffect
<1>2. ASSUME NEW c \in SkillCalls, NEW s \in SkillIds, BeginInstall(c, s) \/ BeginRemove(c, s) \/
             BeginRollback(c, s)
      PROVE  RowsInv' /\ SkillCallsInv' /\ Undisturbed'
  BY <1>2, BeginEffect DEF BeginInstall, BeginRemove, BeginRollback
<1>3. ASSUME RestartProcess PROVE RowsInv' /\ SkillCallsInv' /\ Undisturbed'
  <2>1. /\ \A s \in SkillIds : registered'[s] = "no" /\ (s \notin disturbed' => skillRow[s] = "none")
        /\ \A c \in SkillCalls : callAt'[c] = "idle" /\ skill'[c] = NoSkill
        /\ UNCHANGED <<skillRow, inserted, told>>
    BY <1>3 DEF RestartProcess
  <2>2. RowsInv' /\ SkillCallsInv'
    BY <2>1 DEF SkillInv, RowsInv, SkillCallsInv
  <2>3. ASSUME NEW s \in SkillIds \ disturbed'
        PROVE  Exact(s)'
    <3>1. told[s] = "nothing" /\ skillRow[s] = "none"
      BY <2>1, <2>3 DEF SkillInv, RowsInv
    <3> QED
      BY <2>1, <3>1 DEF Exact, Agree
  <2> QED
    BY <2>2, <2>3 DEF Undisturbed
<1>4. ASSUME UNCHANGED skillVars PROVE RowsInv' /\ SkillCallsInv' /\ Undisturbed'
  <2>1. RowsInv' /\ SkillCallsInv'
    BY <1>4 DEF skillVars, SkillInv, RowsInv, SkillCallsInv
  <2>2. Undisturbed'
    <3>1. \A s \in SkillIds : Exact(s) => Exact(s)'
      BY <1>4 DEF skillVars, Exact, Agree
    <3>2. disturbed' = disturbed
      BY <1>4 DEF skillVars
    <3> QED
      BY <3>1, <3>2 DEF SkillInv, Undisturbed
  <2> QED
    BY <2>1, <2>2
<1>5. RowsInv' /\ SkillCallsInv' /\ Undisturbed'
  BY <1>1, <1>2, <1>3, <1>4 DEF SkillsNext, CallStep
<1> QED
  BY <1>5, SkillTypesKept DEF SkillInv

-----------------------------------------------------------------------------
(* Synchronised state.                                                     *)

\* Devices that push to one server and pull from it.
SyncSpec == SyncInit /\ [][SyncNext]_syncVars

\* The types, as far as the model's type invariant leaves them open.
SyncTypes ==
    /\ SyncTypeOK
    /\ syncStep \in [Devices -> {"idle", "named", "found", "half"}]
    /\ \A d \in Devices, x \in Devices : d # x => client[d] # client[x]
    /\ \A d \in Devices : (syncStep[d] = "idle") <=> (inHand[d] = NoPackage)
    /\ \A d \in Devices : syncStep[d] = "named" =>
         inHand[d].clock = clock[d] /\ inHand[d].clock[client[d]] > 0

\* The packages somebody can still see.
Visible(p) == p # NoPackage /\ (p = latest \/ p = latestTmp \/ \E d \in Devices : p = inHand[d])

\* Nobody has seen more of a client than its device has counted; what is about to be
\* published has been seen by nobody.
OwnersAreAhead ==
    \A d \in Devices :
        /\ \A x \in Devices : clock[x][client[d]] <= clock[d][client[d]]
        /\ \A p \in Packages : Visible(p) => p.clock[client[d]] <= clock[d][client[d]]
        /\ syncStep[d] = "named" /\ latestTmp = inHand[d] =>
             /\ \A x \in Devices \ {d} : clock[x][client[d]] < clock[d][client[d]]
             /\ latest # NoPackage => latest.clock[client[d]] < clock[d][client[d]]
             /\ \A x \in Devices \ {d} :
                  inHand[x] # NoPackage => inHand[x].clock[client[d]] < clock[d][client[d]]

\* The clock a device falls back to when its push fails.
FallsBackTo(d, c) == IF syncStep[d] = "named" /\ c = client[d] THEN clock[d][c] - 1 ELSE clock[d][c]

\* What each count of each client stands for.
Meanings ==
    {k \in [SyncClients -> [0 .. MaxCount -> SUBSET Edits]] :
        \A c \in SyncClients :
            k[c][0] = {} /\ \A m \in 0 .. MaxCount, n \in 0 .. MaxCount : m <= n =>
              k[c][m] \subseteq k[c][n]}

\* k explains a package: it holds what its clock counts, and nothing else.
PackageMeans(k, p) ==
    /\ \A c \in SyncClients : k[c][p.clock[c]] \subseteq p.known
    /\ \A e \in p.known : \E c \in SyncClients : e \in k[c][p.clock[c]]

\* k explains a device: it contains what its clock counts, and what it is based on
\* is counted.
DeviceMeans(k, d) ==
    /\ \A c \in SyncClients : k[c][clock[d][c]] \subseteq contained[d]
    /\ \A e \in based[d] : \E c \in SyncClients : e \in k[c][FallsBackTo(d, c)]

\* k explains all that somebody can still see.
Explains(k) ==
    /\ \A p \in Packages : Visible(p) => PackageMeans(k, p)
    /\ \A d \in Devices : DeviceMeans(k, d)

\* The inductive invariant. That a clock dominates the clock of a package is worth
\* nothing by itself: the counts must mean the same edits on every device, which
\* is what k says, until a client id is reused.
SyncInv ==
    /\ SyncTypes
    /\ ~reused => OwnersAreAhead /\ \E k \in Meanings : Explains(k)

\* The effects of each action, one component at a time.
PackageOf(d) == [clock |-> clock'[d], known |-> contained[d]]

\* What the step of a device leaves alone.
SyncFrame(d) ==
    /\ \A x \in Devices \ {d} : clock'[x] = clock[x] /\ contained'[x] = contained[x] /\
       based'[x] = based[x]
                                /\ syncStep'[x] = syncStep[x] /\ inHand'[x] = inHand[x] /\
                                   client'[x] = client[x]
    /\ reused => reused'

\* Every step is of one device.
LEMMA SyncFramed ==
    ASSUME SyncTypes, NEW d \in Devices,
           \/ BeginPush(d) \/ MoveLatest(d) \/ PushFails(d)
           \/ BeginPull(d) \/ ReplaceVault(d) \/ ReplaceDatabase(d) \/ PullFails(d)
           \/ PullEnds(d) \/ RestartDevice(d)
           \/ \E made \in Sessions : Edit(d, made)
    PROVE  SyncFrame(d)
<1> USE DEF SyncTypes, SyncTypeOK, SyncFrame, SyncGoes
<1>1. CASE BeginPush(d)
  BY <1>1 DEF BeginPush
<1>2. CASE MoveLatest(d)
  BY <1>2 DEF MoveLatest
<1>3. CASE PushFails(d)
  BY <1>3 DEF PushFails
<1>4. CASE BeginPull(d)
  BY <1>4 DEF BeginPull
<1>5. CASE ReplaceDatabase(d)
  BY <1>5 DEF ReplaceDatabase
<1>6. CASE PullEnds(d) \/ PullFails(d)
  BY <1>6 DEF PullEnds, PullFails
<1>7. CASE RestartDevice(d)
  BY <1>7 DEF RestartDevice
<1>8. CASE \E made \in Sessions : Edit(d, made)
  BY <1>8 DEF Edit
<1>9. CASE ReplaceVault(d)
  BY <1>9 DEF ReplaceVault
<1> QED
  BY <1>1, <1>2, <1>3, <1>4, <1>5, <1>6, <1>7, <1>8, <1>9

\* None is no package.
LEMMA NoPackageIsNone == NoPackage \notin Packages
BY SyncAssumption DEF Packages, Clocks

\* A clock within bounds is a clock.
LEMMA ClocksInBounds == ASSUME NEW k, InBounds(k) PROVE k \in Clocks
BY DEF InBounds

\* A push counts one more on the clock of its device, and names its package.
LEMMA PushEffect ==
    ASSUME SyncTypes, NEW d \in Devices, BeginPush(d)
    PROVE  /\ syncStep[d] = "idle" /\ syncStep'[d] = "named"
           /\ clock[d][client[d]] \in 0 .. MaxCount
           /\ clock'[d] \in Clocks /\ clock'[d][client[d]] = clock[d][client[d]] + 1
           /\ \A c \in SyncClients \ {client[d]} : clock'[d][c] = clock[d][c]
           /\ PackageOf(d) \in Packages /\ latestTmp' = PackageOf(d) /\ inHand'[d] = PackageOf(d)
           /\ UNCHANGED <<client, contained, based, latest, reused>>
<1> USE SyncAssumption DEF SyncTypes, SyncTypeOK
<1>1. clock'[d] \in Clocks
  BY ClocksInBounds DEF BeginPush
<1>2. /\ clock'[d][client[d]] = clock[d][client[d]] + 1
      /\ \A c \in SyncClients \ {client[d]} : clock'[d][c] = clock[d][c]
      /\ clock[d][client[d]] \in 0 .. MaxCount
  BY DEF BeginPush, Clocks
<1>3. PackageOf(d) \in Packages
  BY <1>1 DEF PackageOf, Packages
<1>4. latestTmp' = PackageOf(d)
  BY DEF BeginPush, PackageOf
<1> QED
  BY <1>1, <1>2, <1>3, <1>4 DEF BeginPush, SyncGoes

\* A push that fails takes that count back.
LEMMA FailEffect ==
    ASSUME SyncTypes, NEW d \in Devices, PushFails(d)
    PROVE  /\ syncStep[d] = "named" /\ syncStep'[d] = "idle" /\ inHand'[d] = NoPackage
           /\ clock'[d] \in Clocks /\ clock'[d][client[d]] = clock[d][client[d]] - 1
           /\ \A c \in SyncClients \ {client[d]} : clock'[d][c] = clock[d][c]
           /\ latestTmp' \in {latestTmp, NoPackage}
           /\ ~reused' => ~reused /\ latestTmp = inHand[d] /\ latestTmp' = NoPackage
                          /\ \A x \in Devices \ {d} : syncStep[x] # "named"
           /\ reused' \in BOOLEAN
           /\ UNCHANGED <<client, contained, based, latest>>
<1> USE SyncAssumption DEF SyncTypes, SyncTypeOK
<1>1. /\ clock'[d][client[d]] = clock[d][client[d]] - 1
      /\ \A c \in SyncClients \ {client[d]} : clock'[d][c] = clock[d][c]
      /\ syncStep[d] = "named" /\ clock[d] \in Clocks
      /\ clock'[d] = [clock[d] EXCEPT ![client[d]] = clock[d][client[d]] - 1]
  BY DEF PushFails, Clocks
<1>2. clock[d][client[d]] > 0 /\ clock[d][client[d]] \in 0 .. MaxCount
  BY <1>1 DEF Clocks
<1>3. clock[d][client[d]] - 1 \in 0 .. MaxCount
  BY <1>2
<1>4. clock'[d] \in Clocks
  BY <1>1, <1>3 DEF Clocks
<1>5. latestTmp' \in {latestTmp, NoPackage} /\ ((\A x \in Devices \ {d} : syncStep[x] # "named") =>
      latestTmp' = NoPackage)
  BY DEF PushFails, LeftBy
<1>6. reused' = (reused \/ latestTmp # inHand[d] \/ \E x \in Devices \ {d} : syncStep[x] = "named")
  BY DEF PushFails
<1> QED
  BY <1>1, <1>4, <1>5, <1>6 DEF PushFails, SyncGoes

\* Once the database is replaced, too, the pull merges the two clocks and the edits.
LEMMA ApplyEffect ==
    ASSUME SyncTypes, NEW d \in Devices, ReplaceDatabase(d)
    PROVE  /\ syncStep[d] = "half" /\ syncStep'[d] = "idle" /\ inHand'[d] = NoPackage
           /\ inHand[d] \in Packages /\ inHand[d] # NoPackage
           /\ clock'[d] \in Clocks
           /\ clock'[d][client[d]] = Max2(clock[d][client[d]], inHand[d].clock[client[d]]) + 1
           /\ \A c \in SyncClients \ {client[d]} : clock'[d][c] = Max2(clock[d][c], inHand[d].clock[c])
           /\ contained'[d] = contained[d] \cup inHand[d].known /\ based'[d] = contained'[d]
           /\ contained'[d] \in SUBSET Edits
           /\ UNCHANGED <<client, latest, latestTmp, reused>>
<1> USE SyncAssumption DEF SyncTypes, SyncTypeOK
<1>1. InBounds(Merged(d, inHand[d])) /\ clock' = [clock EXCEPT ![d] = Merged(d, inHand[d])]
      /\ syncStep[d] = "half"
  BY DEF ReplaceDatabase
<1>2. Merged(d, inHand[d]) \in Clocks /\ clock'[d] = Merged(d, inHand[d])
  BY <1>1, ClocksInBounds
<1>3. inHand[d] \in Packages /\ inHand[d] # NoPackage
  BY <1>1
<1>4. clock[d] \in Clocks /\ inHand[d].clock \in Clocks /\ client[d] \in SyncClients /\
      inHand[d].known \in SUBSET Edits
  BY <1>3 DEF Packages
<1>5. \A a \in 0 .. MaxCount, b \in 0 .. MaxCount : Max2(a, b) \in 0 .. MaxCount
  BY DEF Max2
<1>6. \A c \in SyncClients : Max2(clock[d][c], inHand[d].clock[c]) \in 0 .. MaxCount
  BY <1>4, <1>5 DEF Clocks
<1>7. /\ clock'[d][client[d]] = Max2(clock[d][client[d]], inHand[d].clock[client[d]]) + 1
      /\ \A c \in SyncClients \ {client[d]} : clock'[d][c] = Max2(clock[d][c], inHand[d].clock[c])
  BY <1>2, <1>4, <1>6 DEF Merged
<1>8. /\ syncStep'[d] = "idle" /\ inHand'[d] = NoPackage
      /\ UNCHANGED <<client, latest, latestTmp, reused>>
      /\ contained'[d] = contained[d] \cup inHand[d].known /\ based'[d] = contained'[d]
  BY DEF ReplaceDatabase, SyncGoes
<1> QED
  BY <1>1, <1>2, <1>3, <1>4, <1>7, <1>8

\* A device that restarts has a new client id and an empty clock.
LEMMA RestartEffect ==
    ASSUME SyncTypes, NEW d \in Devices, RestartDevice(d)
    PROVE  /\ syncStep'[d] = "idle" /\ inHand'[d] = NoPackage
           /\ clock'[d] = NoClock /\ clock'[d] \in Clocks /\ based'[d] = {}
           /\ client'[d] \in SyncClients
           /\ \A x \in Devices : client[x] # client'[d] /\ clock[x][client'[d]] = 0
           /\ \A p \in Packages : Visible(p) => p.clock[client'[d]] = 0
           /\ latestTmp' \in {latestTmp, NoPackage}
           /\ (\E x \in Devices \ {d} : syncStep[x] = "named") => latestTmp' = latestTmp
           /\ UNCHANGED <<contained, latest, reused>>
<1> USE SyncAssumption DEF SyncTypes, SyncTypeOK
<1>1. PICK c \in SyncClients :
         /\ \A x \in Devices : client[x] # c /\ clock[x][c] = 0
         /\ (latest # NoPackage => latest.clock[c] = 0) /\ (latestTmp # NoPackage =>
            latestTmp.clock[c] = 0)
         /\ \A x \in Devices : inHand[x] # NoPackage => inHand[x].clock[c] = 0
         /\ client' = [client EXCEPT ![d] = c]
  BY DEF RestartDevice
<1>2. client'[d] = c
  BY <1>1
<1>3. clock'[d] = NoClock /\ NoClock \in Clocks /\ based'[d] = {}
  BY DEF RestartDevice, NoClock, Clocks
<1>4. \A p \in Packages : Visible(p) => p.clock[c] = 0
  BY <1>1 DEF Visible
<1>5. latestTmp' \in {latestTmp, NoPackage} /\ ((\E x \in Devices \ {d} : syncStep[x] = "named") =>
      latestTmp' = latestTmp)
  BY DEF RestartDevice, LeftBy
<1>6. syncStep'[d] = "idle" /\ inHand'[d] = NoPackage /\ UNCHANGED <<contained, latest, reused>>
  BY DEF RestartDevice, SyncGoes
<1> QED
  BY <1>1, <1>2, <1>3, <1>4, <1>5, <1>6

\* Every step leaves functions on the devices.
LEMMA DomainsKept ==
    ASSUME SyncTypes, NEW d \in Devices,
           \/ BeginPush(d) \/ MoveLatest(d) \/ PushFails(d)
           \/ BeginPull(d) \/ ReplaceVault(d) \/ ReplaceDatabase(d) \/ PullFails(d)
           \/ PullEnds(d) \/ RestartDevice(d)
           \/ \E made \in Sessions : Edit(d, made)
    PROVE  /\ DOMAIN client' = Devices /\ DOMAIN clock' = Devices /\ DOMAIN contained' = Devices /\
              DOMAIN based' = Devices
           /\ DOMAIN inHand' = Devices /\ DOMAIN syncStep' = Devices
           /\ client' = [x \in Devices |-> client'[x]] /\ clock' = [x \in Devices |-> clock'[x]]
           /\ contained' = [x \in Devices |-> contained'[x]] /\ based' = [x \in Devices |-> based'[x]]
           /\ inHand' = [x \in Devices |-> inHand'[x]] /\ syncStep' = [x \in Devices |-> syncStep'[x]]
<1> USE DEF SyncTypes, SyncTypeOK, SyncGoes
<1>1. CASE BeginPush(d)
  BY <1>1 DEF BeginPush
<1>2. CASE MoveLatest(d)
  BY <1>2 DEF MoveLatest
<1>3. CASE PushFails(d)
  BY <1>3 DEF PushFails
<1>4. CASE BeginPull(d)
  BY <1>4 DEF BeginPull
<1>5. CASE ReplaceDatabase(d)
  BY <1>5 DEF ReplaceDatabase
<1>6. CASE PullEnds(d) \/ PullFails(d)
  BY <1>6 DEF PullEnds, PullFails
<1>7. CASE RestartDevice(d)
  BY <1>7 DEF RestartDevice
<1>8. CASE \E made \in Sessions : Edit(d, made)
  BY <1>8 DEF Edit
<1>9. CASE ReplaceVault(d)
  BY <1>9 DEF ReplaceVault
<1> QED
  BY <1>1, <1>2, <1>3, <1>4, <1>5, <1>6, <1>7, <1>8, <1>9

\* Types that hold for the device of the step hold for all.
LEMMA TypesFromFrame ==
    ASSUME SyncTypes, NEW d \in Devices, SyncFrame(d),
           client' = [x \in Devices |-> client'[x]] /\ clock' = [x \in Devices |-> clock'[x]],
           contained' = [x \in Devices |-> contained'[x]] /\ based' = [x \in Devices |-> based'[x]],
           inHand' = [x \in Devices |-> inHand'[x]] /\ syncStep' = [x \in Devices |-> syncStep'[x]],
           client'[d] \in SyncClients /\ clock'[d] \in Clocks,
           contained'[d] \in SUBSET Edits /\ based'[d] \in SUBSET Edits,
           inHand'[d] \in Packages \cup {NoPackage} /\
             syncStep'[d] \in {"idle", "named", "found", "half"},
           latest' \in Packages \cup {NoPackage} /\ latestTmp' \in Packages \cup {NoPackage} /\
             reused' \in BOOLEAN,
           (syncStep'[d] = "idle") <=> (inHand'[d] = NoPackage),
           syncStep'[d] = "named" => inHand'[d].clock = clock'[d] /\ inHand'[d].clock[client'[d]] > 0,
           \A x \in Devices \ {d} : client'[x] # client'[d]
    PROVE  SyncTypes'
<1>1. \A x \in Devices : /\ client'[x] \in SyncClients /\ clock'[x] \in Clocks
                         /\ contained'[x] \in SUBSET Edits /\ based'[x] \in SUBSET Edits
                         /\ inHand'[x] \in Packages \cup {NoPackage} /\
                            syncStep'[x] \in {"idle", "named", "found", "half"}
  BY DEF SyncFrame, SyncTypes, SyncTypeOK
<1>2. client' \in [Devices -> SyncClients] /\ clock' \in [Devices -> Clocks]
  BY <1>1
<1>3. contained' \in [Devices -> SUBSET Edits] /\ based' \in [Devices -> SUBSET Edits]
  BY <1>1
<1>4. inHand' \in [Devices -> Packages \cup {NoPackage}] /\
      syncStep' \in [Devices -> {"idle", "named", "found", "half"}]
  BY <1>1
<1>5. SyncTypeOK'
  BY <1>2, <1>3, <1>4 DEF SyncTypeOK
<1>6. \A y \in Devices, x \in Devices : y # x => client'[y] # client'[x]
  BY DEF SyncFrame, SyncTypes
<1>7. \A y \in Devices : (syncStep'[y] = "idle") <=> (inHand'[y] = NoPackage)
  BY DEF SyncFrame, SyncTypes
<1>8. \A y \in Devices : syncStep'[y] = "named" => inHand'[y].clock = clock'[y] /\
      inHand'[y].clock[client'[y]] > 0
  BY DEF SyncFrame, SyncTypes
<1> QED
  BY <1>4, <1>5, <1>6, <1>7, <1>8 DEF SyncTypes

\* A step keeps the types.
LEMMA SyncTypesKept ==
    ASSUME SyncTypes, NEW d \in Devices,
           \/ BeginPush(d) \/ MoveLatest(d) \/ PushFails(d)
           \/ BeginPull(d) \/ ReplaceVault(d) \/ ReplaceDatabase(d) \/ PullFails(d)
           \/ PullEnds(d) \/ RestartDevice(d)
           \/ \E made \in Sessions : Edit(d, made)
    PROVE  SyncTypes'
<1>0. SyncFrame(d)
  BY SyncFramed
<1>1. CASE BeginPush(d)
  <2>a. inHand'[d].clock = clock'[d] /\ inHand'[d] # NoPackage
    <3>1. inHand'[d] = PackageOf(d) /\ PackageOf(d) \in Packages
      BY <1>1, PushEffect
    <3>2. PackageOf(d).clock = clock'[d]
      BY DEF PackageOf
    <3> QED
      BY <3>1, <3>2, NoPackageIsNone
  <2>1. /\ client'[d] \in SyncClients /\ clock'[d] \in Clocks
        /\ contained'[d] \in SUBSET Edits /\ based'[d] \in SUBSET Edits
        /\ inHand'[d] \in Packages \cup {NoPackage} /\
           syncStep'[d] \in {"idle", "named", "found", "half"}
        /\ latest' \in Packages \cup {NoPackage} /\ latestTmp' \in Packages \cup {NoPackage} /\
           reused' \in BOOLEAN
        /\ (syncStep'[d] = "idle") <=> (inHand'[d] = NoPackage)
        /\ syncStep'[d] = "named" => inHand'[d].clock = clock'[d] /\ inHand'[d].clock[client'[d]] > 0
        /\ \A x \in Devices \ {d} : client'[x] # client'[d]
    BY <1>0, <1>1, <2>a, PushEffect DEF SyncTypes, SyncTypeOK, SyncFrame, Clocks
  <2> QED
    BY <1>0, <2>1, DomainsKept, TypesFromFrame
<1>2. CASE MoveLatest(d)
  <2>1. /\ client'[d] \in SyncClients /\ clock'[d] \in Clocks
        /\ contained'[d] \in SUBSET Edits /\ based'[d] \in SUBSET Edits
        /\ inHand'[d] \in Packages \cup {NoPackage} /\
           syncStep'[d] \in {"idle", "named", "found", "half"}
        /\ latest' \in Packages \cup {NoPackage} /\ latestTmp' \in Packages \cup {NoPackage} /\
           reused' \in BOOLEAN
        /\ (syncStep'[d] = "idle") <=> (inHand'[d] = NoPackage)
        /\ syncStep'[d] = "named" => inHand'[d].clock = clock'[d] /\ inHand'[d].clock[client'[d]] > 0
        /\ \A x \in Devices \ {d} : client'[x] # client'[d]
    BY <1>0, <1>2 DEF SyncTypes, SyncTypeOK, SyncFrame, MoveLatest, SyncGoes, Packages
  <2> QED
    BY <1>0, <2>1, DomainsKept, TypesFromFrame
<1>3. CASE PushFails(d)
  <2>1. /\ client'[d] \in SyncClients /\ clock'[d] \in Clocks
        /\ contained'[d] \in SUBSET Edits /\ based'[d] \in SUBSET Edits
        /\ inHand'[d] \in Packages \cup {NoPackage} /\
           syncStep'[d] \in {"idle", "named", "found", "half"}
        /\ latest' \in Packages \cup {NoPackage} /\ latestTmp' \in Packages \cup {NoPackage} /\
           reused' \in BOOLEAN
        /\ (syncStep'[d] = "idle") <=> (inHand'[d] = NoPackage)
        /\ syncStep'[d] = "named" => inHand'[d].clock = clock'[d] /\ inHand'[d].clock[client'[d]] > 0
        /\ \A x \in Devices \ {d} : client'[x] # client'[d]
    BY <1>0, <1>3, FailEffect DEF SyncTypes, SyncTypeOK, SyncFrame
  <2> QED
    BY <1>0, <2>1, DomainsKept, TypesFromFrame
<1>4. CASE BeginPull(d)
  <2>1. /\ client'[d] \in SyncClients /\ clock'[d] \in Clocks
        /\ contained'[d] \in SUBSET Edits /\ based'[d] \in SUBSET Edits
        /\ inHand'[d] \in Packages \cup {NoPackage} /\
           syncStep'[d] \in {"idle", "named", "found", "half"}
        /\ latest' \in Packages \cup {NoPackage} /\ latestTmp' \in Packages \cup {NoPackage} /\
           reused' \in BOOLEAN
        /\ (syncStep'[d] = "idle") <=> (inHand'[d] = NoPackage)
        /\ syncStep'[d] = "named" => inHand'[d].clock = clock'[d] /\ inHand'[d].clock[client'[d]] > 0
        /\ \A x \in Devices \ {d} : client'[x] # client'[d]
    BY <1>0, <1>4 DEF SyncTypes, SyncTypeOK, SyncFrame, BeginPull, SyncGoes
  <2> QED
    BY <1>0, <2>1, DomainsKept, TypesFromFrame
<1>5. CASE ReplaceDatabase(d)
  <2>1. /\ client'[d] \in SyncClients /\ clock'[d] \in Clocks
        /\ contained'[d] \in SUBSET Edits /\ based'[d] \in SUBSET Edits
        /\ inHand'[d] \in Packages \cup {NoPackage} /\
           syncStep'[d] \in {"idle", "named", "found", "half"}
        /\ latest' \in Packages \cup {NoPackage} /\ latestTmp' \in Packages \cup {NoPackage} /\
           reused' \in BOOLEAN
        /\ (syncStep'[d] = "idle") <=> (inHand'[d] = NoPackage)
        /\ syncStep'[d] = "named" => inHand'[d].clock = clock'[d] /\ inHand'[d].clock[client'[d]] > 0
        /\ \A x \in Devices \ {d} : client'[x] # client'[d]
    BY <1>0, <1>5, ApplyEffect DEF SyncTypes, SyncTypeOK, SyncFrame
  <2> QED
    BY <1>0, <2>1, DomainsKept, TypesFromFrame
<1>6. CASE PullEnds(d) \/ PullFails(d)
  <2>1. /\ client'[d] \in SyncClients /\ clock'[d] \in Clocks
        /\ contained'[d] \in SUBSET Edits /\ based'[d] \in SUBSET Edits
        /\ inHand'[d] \in Packages \cup {NoPackage} /\
           syncStep'[d] \in {"idle", "named", "found", "half"}
        /\ latest' \in Packages \cup {NoPackage} /\ latestTmp' \in Packages \cup {NoPackage} /\
           reused' \in BOOLEAN
        /\ (syncStep'[d] = "idle") <=> (inHand'[d] = NoPackage)
        /\ syncStep'[d] = "named" => inHand'[d].clock = clock'[d] /\ inHand'[d].clock[client'[d]] > 0
        /\ \A x \in Devices \ {d} : client'[x] # client'[d]
    BY <1>0, <1>6 DEF SyncTypes, SyncTypeOK, SyncFrame, PullEnds, PullFails, SyncGoes
  <2> QED
    BY <1>0, <2>1, DomainsKept, TypesFromFrame
<1>7. CASE RestartDevice(d)
  <2>1. /\ client'[d] \in SyncClients /\ clock'[d] \in Clocks
        /\ contained'[d] \in SUBSET Edits /\ based'[d] \in SUBSET Edits
        /\ inHand'[d] \in Packages \cup {NoPackage} /\
           syncStep'[d] \in {"idle", "named", "found", "half"}
        /\ latest' \in Packages \cup {NoPackage} /\ latestTmp' \in Packages \cup {NoPackage} /\
           reused' \in BOOLEAN
        /\ (syncStep'[d] = "idle") <=> (inHand'[d] = NoPackage)
        /\ syncStep'[d] = "named" => inHand'[d].clock = clock'[d] /\ inHand'[d].clock[client'[d]] > 0
        /\ \A x \in Devices \ {d} : client'[x] # client'[d]
    BY <1>0, <1>7, RestartEffect DEF SyncTypes, SyncTypeOK, SyncFrame
  <2> QED
    BY <1>0, <2>1, DomainsKept, TypesFromFrame
<1>8. CASE \E made \in Sessions : Edit(d, made)
  <2>1. /\ client'[d] \in SyncClients /\ clock'[d] \in Clocks
        /\ contained'[d] \in SUBSET Edits /\ based'[d] \in SUBSET Edits
        /\ inHand'[d] \in Packages \cup {NoPackage} /\
           syncStep'[d] \in {"idle", "named", "found", "half"}
        /\ latest' \in Packages \cup {NoPackage} /\ latestTmp' \in Packages \cup {NoPackage} /\
           reused' \in BOOLEAN
        /\ (syncStep'[d] = "idle") <=> (inHand'[d] = NoPackage)
        /\ syncStep'[d] = "named" => inHand'[d].clock = clock'[d] /\ inHand'[d].clock[client'[d]] > 0
        /\ \A x \in Devices \ {d} : client'[x] # client'[d]
    BY <1>0, <1>8, SyncAssumption DEF SyncTypes, SyncTypeOK, SyncFrame, Edit
  <2> QED
    BY <1>0, <2>1, DomainsKept, TypesFromFrame
<1>9. CASE ReplaceVault(d)
  <2>a. inHand[d] \in Packages /\ inHand[d] # NoPackage /\
        contained'[d] = contained[d] \cup (inHand[d].known \cap VaultEdits)
    BY <1>9 DEF ReplaceVault, SyncTypes, SyncTypeOK
  <2>b. contained'[d] \in SUBSET Edits
    BY <2>a DEF SyncTypes, SyncTypeOK, Packages
  <2>1. /\ client'[d] \in SyncClients /\ clock'[d] \in Clocks
        /\ contained'[d] \in SUBSET Edits /\ based'[d] \in SUBSET Edits
        /\ inHand'[d] \in Packages \cup {NoPackage} /\
           syncStep'[d] \in {"idle", "named", "found", "half"}
        /\ latest' \in Packages \cup {NoPackage} /\ latestTmp' \in Packages \cup {NoPackage} /\
           reused' \in BOOLEAN
        /\ (syncStep'[d] = "idle") <=> (inHand'[d] = NoPackage)
        /\ syncStep'[d] = "named" => inHand'[d].clock = clock'[d] /\ inHand'[d].clock[client'[d]] > 0
        /\ \A x \in Devices \ {d} : client'[x] # client'[d]
    BY <1>0, <1>9, <2>a, <2>b DEF SyncTypes, SyncTypeOK, SyncFrame, ReplaceVault, SyncGoes
  <2> QED
    BY <1>0, <2>1, DomainsKept, TypesFromFrame
<1> QED
  BY <1>1, <1>2, <1>3, <1>4, <1>5, <1>6, <1>7, <1>8, <1>9

\* Only a push brings a package into sight ...
LEMMA VisibleShrinks ==
    ASSUME SyncTypes, NEW d \in Devices, NEW p \in Packages, Visible(p)',
           \/ MoveLatest(d) \/ PushFails(d)
           \/ BeginPull(d) \/ ReplaceVault(d) \/ ReplaceDatabase(d) \/ PullFails(d)
           \/ PullEnds(d) \/ RestartDevice(d)
           \/ \E made \in Sessions : Edit(d, made)
    PROVE  Visible(p)
<1>0. SyncFrame(d)
  BY SyncFramed
<1>1. latest' \in {latest, latestTmp} /\ latestTmp' \in {latestTmp, NoPackage} /\
      inHand'[d] \in {inHand[d], NoPackage, latest}
  <2>1. CASE MoveLatest(d)
    BY <2>1 DEF MoveLatest, SyncGoes, SyncTypes, SyncTypeOK
  <2>2. CASE PushFails(d)
    BY <2>2, FailEffect
  <2>3. CASE BeginPull(d)
    BY <2>3 DEF BeginPull, SyncGoes, SyncTypes, SyncTypeOK
  <2>4. CASE ReplaceDatabase(d)
    BY <2>4, ApplyEffect
  <2>5. CASE PullEnds(d) \/ PullFails(d)
    BY <2>5 DEF PullEnds, PullFails, SyncGoes, SyncTypes, SyncTypeOK
  <2>6. CASE RestartDevice(d)
    BY <2>6, RestartEffect
  <2>7. CASE \E made \in Sessions : Edit(d, made)
    BY <2>7 DEF Edit
  <2>8. CASE ReplaceVault(d)
    BY <2>8 DEF ReplaceVault, SyncGoes, SyncTypes, SyncTypeOK
  <2> QED
    BY <2>1, <2>2, <2>3, <2>4, <2>5, <2>6, <2>7, <2>8
<1> QED
  BY <1>0, <1>1 DEF Visible, SyncFrame

\* ... and only its own.
LEMMA VisibleAfterPush ==
    ASSUME SyncTypes, NEW d \in Devices, NEW p \in Packages, Visible(p)', BeginPush(d)
    PROVE  Visible(p) \/ p = PackageOf(d)
<1>0. SyncFrame(d)
  BY SyncFramed
<1> QED
  BY <1>0, PushEffect DEF Visible, SyncFrame

\* A device stays ahead of all others on its own count.
LEMMA OwnersKept ==
    ASSUME SyncInv, ~reused', NEW d \in Devices,
           \/ BeginPush(d) \/ MoveLatest(d) \/ PushFails(d)
           \/ BeginPull(d) \/ ReplaceVault(d) \/ ReplaceDatabase(d) \/ PullFails(d)
           \/ PullEnds(d) \/ RestartDevice(d)
           \/ \E made \in Sessions : Edit(d, made)
    PROVE  OwnersAreAhead'
<1>s. SyncTypes
  BY DEF SyncInv
<1> USE <1>s
<1>t. SyncTypes'
  BY SyncTypesKept DEF SyncInv
<1>h. ~reused /\ OwnersAreAhead
  BY SyncFramed DEF SyncInv, SyncFrame
<1>0. SyncFrame(d) /\ SyncTypes
  BY SyncFramed DEF SyncInv
<1>1. CASE BeginPush(d)
  <2>a. OwnersAreAhead
    BY <1>1, <1>h, PushEffect
  <2>b. PackageOf(d).clock = clock'[d] /\ PackageOf(d) # NoPackage
    <3>1. PackageOf(d) # NoPackage
      BY <1>1, PushEffect, NoPackageIsNone
    <3> QED
      BY <3>1 DEF PackageOf
  <2>c. client' = client /\ (\A x \in Devices : clock[x] \in Clocks /\ client[x] \in SyncClients)
        /\ (\A x \in Devices, c \in SyncClients : clock[x][c] \in 0 .. MaxCount)
    BY <1>1, PushEffect DEF SyncTypes, SyncTypeOK, Clocks
  <2>d. \A x \in Devices, c \in SyncClients : (x # d \/ c # client[d]) => clock'[x][c] = clock[x][c]
    BY <1>0, <1>1, <2>c, PushEffect DEF SyncFrame
  <2>e. clock'[d][client[d]] = clock[d][client[d]] + 1
    BY <1>1, PushEffect
  <2>1. \A y \in Devices, x \in Devices : clock'[x][client'[y]] <= clock'[y][client'[y]]
    <3>1. ASSUME NEW y \in Devices, NEW x \in Devices PROVE clock'[x][client[y]] <= clock'[y][client[y]]
      <4>1. clock[x][client[y]] <= clock[y][client[y]]
        BY <2>a DEF OwnersAreAhead
      <4>2. CASE y = d
        <5>1. CASE x = d
          BY <2>c, <2>e, <4>2, <5>1
        <5>2. CASE x # d
          BY <2>c, <2>d, <2>e, <4>1, <4>2, <5>2
        <5> QED
          BY <5>1, <5>2
      <4>3. CASE y # d
        <5>1. client[y] # client[d]
          BY <4>3 DEF SyncTypes
        <5> QED
          BY <2>c, <2>d, <4>1, <4>3, <5>1
      <4> QED
        BY <4>2, <4>3
    <3> QED
      BY <2>c, <3>1
  <2>2. \A y \in Devices : \A p \in Packages : Visible(p)' =>
        p.clock[client'[y]] <= clock'[y][client'[y]]
    <3>1. ASSUME NEW y \in Devices, NEW p \in Packages, Visible(p)
          PROVE  p.clock[client[y]] <= clock'[y][client[y]]
      <4>1. p.clock[client[y]] <= clock[y][client[y]]
        BY <2>a, <3>1 DEF OwnersAreAhead
      <4>2. p.clock[client[y]] \in Nat
        BY <2>c DEF Packages, Clocks
      <4>3. clock[y][client[y]] <= clock'[y][client[y]] /\ clock[y][client[y]] \in Nat /\
            clock'[y][client[y]] \in Nat
        BY <2>c, <2>d, <2>e
      <4> QED
        BY <4>1, <4>2, <4>3
    <3> QED
      BY <1>1, <2>1, <2>b, <2>c, <3>1, VisibleAfterPush
  <2>3. ASSUME NEW y \in Devices, syncStep'[y] = "named", latestTmp' = inHand'[y]
        PROVE  /\ \A x \in Devices \ {y} : clock'[x][client'[y]] < clock'[y][client'[y]]
               /\ latest' # NoPackage => latest'.clock[client'[y]] < clock'[y][client'[y]]
               /\ \A x \in Devices \ {y} :
                    inHand'[x] # NoPackage => inHand'[x].clock[client'[y]] < clock'[y][client'[y]]
    <3>1. CASE y = d
      <4>1. \A x \in Devices \ {d} : clock[x][client[d]] <= clock[d][client[d]]
        BY <2>a DEF OwnersAreAhead
      <4>2. \A p \in Packages : Visible(p) => p.clock[client[d]] <= clock[d][client[d]] /\
            p.clock[client[d]] \in Nat
        BY <2>a, <2>c DEF OwnersAreAhead, Packages, Clocks
      <4>3. latest \in Packages \cup {NoPackage} /\ (latest # NoPackage => Visible(latest)) /\
            latest' = latest
        BY <1>1, PushEffect DEF SyncTypes, SyncTypeOK, Visible
      <4>4. \A x \in Devices \ {d} : /\ inHand'[x] = inHand[x] /\
                                        inHand[x] \in Packages \cup {NoPackage}
                                     /\ inHand[x] # NoPackage => Visible(inHand[x])
        BY <1>0 DEF SyncTypes, SyncTypeOK, Visible, SyncFrame
      <4>5. \A x \in Devices \ {d} : clock'[x][client[d]] < clock'[d][client[d]]
        BY <2>c, <2>d, <2>e, <4>1
      <4>6. latest' # NoPackage => latest'.clock[client[d]] < clock'[d][client[d]]
        BY <2>c, <2>e, <4>2, <4>3
      <4>7. \A x \in Devices \ {d} : inHand'[x] # NoPackage =>
            inHand'[x].clock[client[d]] < clock'[d][client[d]]
        BY <2>c, <2>e, <4>2, <4>4
      <4> QED
        BY <2>c, <3>1, <4>5, <4>6, <4>7
    <3>2. CASE y # d
      <4>1. inHand[y] = PackageOf(d)
        BY <1>0, <1>1, <2>3, <3>2, PushEffect DEF SyncFrame
      <4>2. Visible(inHand[y])
        BY <4>1, <2>b DEF Visible
      <4>3. PackageOf(d).clock[client[d]] <= clock[d][client[d]]
        BY <1>1, <2>a, <4>1, <4>2, PushEffect DEF OwnersAreAhead
      <4> QED
        BY <2>b, <2>c, <2>e, <4>3
    <3> QED
      BY <3>1, <3>2
  <2> QED
    BY <2>1, <2>2, <2>3 DEF OwnersAreAhead
<1>2. CASE MoveLatest(d)
  <2>a. UNCHANGED <<client, clock, reused>> /\ OwnersAreAhead
    BY <1>2, <1>h DEF MoveLatest
  <2>1. \A y \in Devices, x \in Devices : clock'[x][client'[y]] <= clock'[y][client'[y]]
    BY <2>a DEF OwnersAreAhead
  <2>2. \A y \in Devices : \A p \in Packages : Visible(p)' =>
        p.clock[client'[y]] <= clock'[y][client'[y]]
    BY <1>2, <2>a, VisibleShrinks DEF OwnersAreAhead
  <2>3. ASSUME NEW y \in Devices, syncStep'[y] = "named", latestTmp' = inHand'[y]
        PROVE  /\ \A x \in Devices \ {y} : clock'[x][client'[y]] < clock'[y][client'[y]]
               /\ latest' # NoPackage => latest'.clock[client'[y]] < clock'[y][client'[y]]
               /\ \A x \in Devices \ {y} :
                    inHand'[x] # NoPackage => inHand'[x].clock[client'[y]] < clock'[y][client'[y]]
    <3>1. latestTmp' = NoPackage
      BY <1>2 DEF MoveLatest
    <3>2. inHand'[y] # NoPackage
      BY <2>3, <1>t DEF SyncTypes
    <3> QED
      BY <2>3, <3>1, <3>2
  <2> QED
    BY <2>1, <2>2, <2>3 DEF OwnersAreAhead
<1>3. CASE PushFails(d)
  <2>a. OwnersAreAhead /\ latestTmp = inHand[d] /\ latestTmp' = NoPackage /\ client' = client /\
        syncStep[d] = "named"
    BY <1>3, <1>h, FailEffect
  <2>c. \A x \in Devices, c \in SyncClients : clock[x][c] \in 0 .. MaxCount
    BY DEF SyncTypes, SyncTypeOK, Clocks
  <2>d. \A x \in Devices, c \in SyncClients : (x # d \/ c # client[d]) => clock'[x][c] = clock[x][c]
    BY <1>0, <1>3, FailEffect DEF SyncFrame
  <2>e. clock'[d][client[d]] = clock[d][client[d]] - 1 /\ \A x \in Devices : client[x] \in SyncClients
    BY <1>3, FailEffect DEF SyncTypes, SyncTypeOK
  <2>f. /\ \A x \in Devices \ {d} : clock[x][client[d]] < clock[d][client[d]]
        /\ latest # NoPackage => latest.clock[client[d]] < clock[d][client[d]]
        /\ \A x \in Devices \ {d} : inHand[x] # NoPackage =>
           inHand[x].clock[client[d]] < clock[d][client[d]]
    BY <2>a DEF OwnersAreAhead
  <2>1. \A y \in Devices, x \in Devices : clock'[x][client'[y]] <= clock'[y][client'[y]]
    <3>1. ASSUME NEW y \in Devices, NEW x \in Devices PROVE clock'[x][client[y]] <= clock'[y][client[y]]
      <4>1. clock[x][client[y]] <= clock[y][client[y]]
        BY <2>a DEF OwnersAreAhead
      <4>2. CASE y = d
        <5>1. CASE x = d
          BY <2>c, <2>e, <4>2, <5>1
        <5>2. CASE x # d
          BY <2>c, <2>d, <2>e, <2>f, <4>2, <5>2
        <5> QED
          BY <5>1, <5>2
      <4>3. CASE y # d
        <5>1. client[y] # client[d]
          BY <4>3 DEF SyncTypes
        <5> QED
          BY <2>c, <2>d, <2>e, <4>1, <4>3, <5>1
      <4> QED
        BY <4>2, <4>3
    <3> QED
      BY <2>a, <3>1
  <2>2. \A y \in Devices : \A p \in Packages : Visible(p)' =>
        p.clock[client'[y]] <= clock'[y][client'[y]]
    <3>1. ASSUME NEW y \in Devices, NEW p \in Packages, Visible(p)'
          PROVE  p.clock[client[y]] <= clock'[y][client[y]]
      <4>1. Visible(p) /\ p.clock[client[y]] \in Nat
        BY <1>3, <2>e, <3>1, VisibleShrinks DEF Packages, Clocks
      <4>2. CASE y = d
        <5>1. p = latest \/ \E x \in Devices \ {d} : p = inHand[x]
          BY <1>0, <1>3, <2>a, <3>1, FailEffect DEF Visible, SyncFrame
        <5>2. p # NoPackage
          BY <4>1 DEF Visible
        <5>3. p.clock[client[d]] < clock[d][client[d]]
          BY <2>f, <5>1, <5>2
        <5> QED
          BY <2>c, <2>e, <4>1, <4>2, <5>3
      <4>3. CASE y # d
        <5>1. client[y] # client[d]
          BY <4>3 DEF SyncTypes
        <5>2. p.clock[client[y]] <= clock[y][client[y]]
          BY <2>a, <4>1 DEF OwnersAreAhead
        <5> QED
          BY <2>d, <2>e, <4>3, <5>1, <5>2
      <4> QED
        BY <4>2, <4>3
    <3> QED
      BY <2>a, <3>1
  <2>3. ASSUME NEW y \in Devices, syncStep'[y] = "named", latestTmp' = inHand'[y]
        PROVE  /\ \A x \in Devices \ {y} : clock'[x][client'[y]] < clock'[y][client'[y]]
               /\ latest' # NoPackage => latest'.clock[client'[y]] < clock'[y][client'[y]]
               /\ \A x \in Devices \ {y} :
                    inHand'[x] # NoPackage => inHand'[x].clock[client'[y]] < clock'[y][client'[y]]
    <3>1. latestTmp' = NoPackage
      BY <2>a
    <3>2. inHand'[y] # NoPackage
      BY <2>3, <1>t DEF SyncTypes
    <3> QED
      BY <2>3, <3>1, <3>2
  <2> QED
    BY <2>1, <2>2, <2>3 DEF OwnersAreAhead
<1>4. CASE BeginPull(d)
  <2>a. UNCHANGED <<client, clock, reused>> /\ OwnersAreAhead
    BY <1>4, <1>h DEF BeginPull
  <2>1. \A y \in Devices, x \in Devices : clock'[x][client'[y]] <= clock'[y][client'[y]]
    BY <2>a DEF OwnersAreAhead
  <2>2. \A y \in Devices : \A p \in Packages : Visible(p)' =>
        p.clock[client'[y]] <= clock'[y][client'[y]]
    BY <1>4, <2>a, VisibleShrinks DEF OwnersAreAhead
  <2>3. ASSUME NEW y \in Devices, syncStep'[y] = "named", latestTmp' = inHand'[y]
        PROVE  /\ \A x \in Devices \ {y} : clock'[x][client'[y]] < clock'[y][client'[y]]
               /\ latest' # NoPackage => latest'.clock[client'[y]] < clock'[y][client'[y]]
               /\ \A x \in Devices \ {y} :
                    inHand'[x] # NoPackage => inHand'[x].clock[client'[y]] < clock'[y][client'[y]]
    <3>1. y # d /\ inHand'[d] = latest /\ UNCHANGED <<latest, latestTmp>>
      BY <1>4, <2>3 DEF BeginPull, SyncGoes, SyncTypes, SyncTypeOK
    <3>2. syncStep[y] = "named" /\ latestTmp = inHand[y] /\
          \A x \in Devices \ {d} : inHand'[x] = inHand[x]
      BY <1>0, <2>3, <3>1 DEF SyncFrame
    <3> QED
      BY <2>a, <3>1, <3>2 DEF OwnersAreAhead
  <2> QED
    BY <2>1, <2>2, <2>3 DEF OwnersAreAhead
<1>5. CASE ReplaceDatabase(d)
  <2>a. OwnersAreAhead /\ UNCHANGED <<client, latest, latestTmp>> /\ inHand'[d] = NoPackage /\
        syncStep'[d] = "idle"
    BY <1>5, <1>h, ApplyEffect
  <2>c. \A x \in Devices, c \in SyncClients : clock[x][c] \in Nat
    BY SyncAssumption DEF SyncTypes, SyncTypeOK, Clocks
  <2>d. \A x \in Devices \ {d} : clock'[x] = clock[x]
    BY <1>0 DEF SyncFrame
  <2>e. /\ \A c \in SyncClients : inHand[d].clock[c] \in Nat
        /\ inHand[d] \in Packages /\ Visible(inHand[d]) /\ inHand[d] # NoPackage
    BY <1>5, ApplyEffect, SyncAssumption DEF Packages, Clocks, Visible
  <2>f. /\ \A x \in Devices : client[x] \in SyncClients
        /\ \A x \in Devices : x # d => client[x] # client[d]
    BY DEF SyncTypes, SyncTypeOK
  <2>g. clock'[d][client[d]] = Max2(clock[d][client[d]], inHand[d].clock[client[d]]) + 1
    BY <1>5, ApplyEffect
  <2>h. \A x \in Devices \ {d} : clock'[d][client[x]] = Max2(clock[d][client[x]],
        inHand[d].clock[client[x]])
    BY <1>5, <2>f, ApplyEffect
  <2>i. \A y \in Devices : /\ clock[d][client[y]] <= clock[y][client[y]]
                           /\ inHand[d].clock[client[y]] <= clock[y][client[y]]
    BY <2>a, <2>e DEF OwnersAreAhead
  <2>j. clock'[d][client[d]] = clock[d][client[d]] + 1
    <3>1. inHand[d].clock[client[d]] <= clock[d][client[d]]
      BY <2>i
    <3>2. Max2(clock[d][client[d]], inHand[d].clock[client[d]]) = clock[d][client[d]]
      BY <2>c, <2>e, <2>f, <3>1 DEF Max2
    <3> QED
      BY <2>g, <3>2
  <2>1. \A y \in Devices, x \in Devices : clock'[x][client'[y]] <= clock'[y][client'[y]]
    <3>1. ASSUME NEW y \in Devices, NEW x \in Devices PROVE clock'[x][client[y]] <= clock'[y][client[y]]
      <4>1. clock[x][client[y]] <= clock[y][client[y]] /\ clock[x][client[y]] \in Nat /\
            clock[y][client[y]] \in Nat
        BY <2>a, <2>c, <2>f DEF OwnersAreAhead
      <4>2. CASE x = d /\ y = d
        BY <2>c, <2>f, <2>j, <4>2
      <4>3. CASE x = d /\ y # d
        BY <2>c, <2>d, <2>e, <2>f, <2>h, <2>i, <4>3 DEF Max2
      <4>4. CASE x # d /\ y = d
        BY <2>d, <2>j, <4>1, <4>4
      <4>5. CASE x # d /\ y # d
        BY <2>d, <4>1, <4>5
      <4> QED
        BY <4>2, <4>3, <4>4, <4>5
    <3> QED
      BY <2>a, <3>1
  <2>2. \A y \in Devices : \A p \in Packages : Visible(p)' =>
        p.clock[client'[y]] <= clock'[y][client'[y]]
    <3>1. ASSUME NEW y \in Devices, NEW p \in Packages, Visible(p)'
          PROVE  p.clock[client[y]] <= clock'[y][client[y]]
      <4>1. Visible(p) /\ p.clock[client[y]] \in Nat
        BY <1>5, <2>f, <3>1, VisibleShrinks, SyncAssumption DEF Packages, Clocks
      <4>2. p.clock[client[y]] <= clock[y][client[y]] /\ clock[y][client[y]] \in Nat
        BY <2>a, <2>c, <2>f, <4>1 DEF OwnersAreAhead
      <4>3. CASE y = d
        BY <2>j, <4>1, <4>2, <4>3
      <4>4. CASE y # d
        BY <2>d, <4>2, <4>4
      <4> QED
        BY <4>3, <4>4
    <3> QED
      BY <2>a, <3>1
  <2>3. ASSUME NEW y \in Devices, syncStep'[y] = "named", latestTmp' = inHand'[y]
        PROVE  /\ \A x \in Devices \ {y} : clock'[x][client'[y]] < clock'[y][client'[y]]
               /\ latest' # NoPackage => latest'.clock[client'[y]] < clock'[y][client'[y]]
               /\ \A x \in Devices \ {y} :
                    inHand'[x] # NoPackage => inHand'[x].clock[client'[y]] < clock'[y][client'[y]]
    <3>1. y # d
      BY <2>a, <2>3
    <3>2. syncStep[y] = "named" /\ latestTmp = inHand[y] /\
          \A x \in Devices \ {d} : inHand'[x] = inHand[x]
      BY <1>0, <2>3, <2>a, <3>1 DEF SyncFrame
    <3>3. /\ \A x \in Devices \ {y} : clock[x][client[y]] < clock[y][client[y]]
          /\ latest # NoPackage => latest.clock[client[y]] < clock[y][client[y]]
          /\ \A x \in Devices \ {y} : inHand[x] # NoPackage =>
             inHand[x].clock[client[y]] < clock[y][client[y]]
      BY <2>a, <3>2 DEF OwnersAreAhead
    <3>4. clock[d][client[y]] < clock[y][client[y]] /\ inHand[d].clock[client[y]] < clock[y][client[y]]
      BY <2>e, <3>1, <3>3
    <3>5. clock'[d][client[y]] < clock[y][client[y]]
      BY <2>c, <2>e, <2>f, <2>h, <3>1, <3>4 DEF Max2
    <3>6. \A x \in Devices \ {y} : clock'[x][client'[y]] < clock'[y][client'[y]]
      BY <2>a, <2>d, <3>1, <3>3, <3>5
    <3> QED
      BY <2>a, <2>d, <3>1, <3>2, <3>3, <3>6
  <2> QED
    BY <2>1, <2>2, <2>3 DEF OwnersAreAhead
<1>6. CASE PullEnds(d) \/ PullFails(d)
  <2>a. UNCHANGED <<client, clock, reused>> /\ OwnersAreAhead
    BY <1>6, <1>h DEF PullEnds, PullFails
  <2>1. \A y \in Devices, x \in Devices : clock'[x][client'[y]] <= clock'[y][client'[y]]
    BY <2>a DEF OwnersAreAhead
  <2>2. \A y \in Devices : \A p \in Packages : Visible(p)' =>
        p.clock[client'[y]] <= clock'[y][client'[y]]
    BY <1>6, <2>a, VisibleShrinks DEF OwnersAreAhead
  <2>3. ASSUME NEW y \in Devices, syncStep'[y] = "named", latestTmp' = inHand'[y]
        PROVE  /\ \A x \in Devices \ {y} : clock'[x][client'[y]] < clock'[y][client'[y]]
               /\ latest' # NoPackage => latest'.clock[client'[y]] < clock'[y][client'[y]]
               /\ \A x \in Devices \ {y} :
                    inHand'[x] # NoPackage => inHand'[x].clock[client'[y]] < clock'[y][client'[y]]
    <3>1. y # d /\ inHand'[d] = NoPackage /\ UNCHANGED <<latest, latestTmp>>
      BY <1>6, <2>3 DEF PullEnds, PullFails, SyncGoes, SyncTypes, SyncTypeOK
    <3>2. syncStep[y] = "named" /\ latestTmp = inHand[y] /\
          \A x \in Devices \ {d} : inHand'[x] = inHand[x]
      BY <1>0, <2>3, <3>1 DEF SyncFrame
    <3> QED
      BY <2>a, <3>1, <3>2 DEF OwnersAreAhead
  <2> QED
    BY <2>1, <2>2, <2>3 DEF OwnersAreAhead
<1>7. CASE RestartDevice(d)
  <2>a. OwnersAreAhead /\ latest' = latest /\ inHand'[d] = NoPackage /\ syncStep'[d] = "idle"
    BY <1>7, <1>h, RestartEffect
  <2>c. \A x \in Devices, c \in SyncClients : clock[x][c] \in Nat
    BY SyncAssumption DEF SyncTypes, SyncTypeOK, Clocks
  <2>d. /\ \A x \in Devices \ {d} : clock'[x] = clock[x] /\ client'[x] = client[x]
        /\ \A c \in SyncClients : clock'[d][c] = 0
        /\ \A x \in Devices : clock[x][client'[d]] = 0 /\ client[x] \in SyncClients
        /\ client'[d] \in SyncClients
    BY <1>0, <1>7, RestartEffect DEF SyncFrame, NoClock, SyncTypes, SyncTypeOK
  <2>1. \A y \in Devices, x \in Devices : clock'[x][client'[y]] <= clock'[y][client'[y]]
    <3>1. ASSUME NEW y \in Devices,
                 NEW x \in Devices PROVE clock'[x][client'[y]] <= clock'[y][client'[y]]
      <4>1. CASE y = d
        <5>1. clock'[x][client'[d]] = 0 /\ clock'[d][client'[d]] = 0
          BY <2>d
        <5> QED
          BY <4>1, <5>1
      <4>2. CASE y # d /\ x = d
        <5>1. clock'[x][client'[y]] = 0 /\ clock'[y][client'[y]] \in Nat
          BY <2>c, <2>d, <4>2
        <5> QED
          BY <5>1
      <4>3. CASE y # d /\ x # d
        BY <2>a, <2>d, <4>3 DEF OwnersAreAhead
      <4> QED
        BY <4>1, <4>2, <4>3
    <3> QED
      BY <3>1
  <2>2. \A y \in Devices : \A p \in Packages : Visible(p)' =>
        p.clock[client'[y]] <= clock'[y][client'[y]]
    <3>1. ASSUME NEW y \in Devices, NEW p \in Packages, Visible(p)'
          PROVE  p.clock[client'[y]] <= clock'[y][client'[y]]
      <4>1. Visible(p)
        BY <1>7, <3>1, VisibleShrinks
      <4>2. CASE y = d
        <5>1. p.clock[client'[d]] = 0 /\ clock'[d][client'[d]] = 0
          BY <1>7, <2>d, <4>1, RestartEffect
        <5> QED
          BY <4>2, <5>1
      <4>3. CASE y # d
        BY <2>a, <2>d, <4>1, <4>3 DEF OwnersAreAhead
      <4> QED
        BY <4>2, <4>3
    <3> QED
      BY <3>1
  <2>3. ASSUME NEW y \in Devices, syncStep'[y] = "named", latestTmp' = inHand'[y]
        PROVE  /\ \A x \in Devices \ {y} : clock'[x][client'[y]] < clock'[y][client'[y]]
               /\ latest' # NoPackage => latest'.clock[client'[y]] < clock'[y][client'[y]]
               /\ \A x \in Devices \ {y} :
                    inHand'[x] # NoPackage => inHand'[x].clock[client'[y]] < clock'[y][client'[y]]
    <3>1. y # d
      BY <2>a, <2>3
    <3>2. syncStep[y] = "named" /\ \A x \in Devices \ {d} : inHand'[x] = inHand[x]
      BY <1>0, <2>3, <3>1 DEF SyncFrame
    <3>3. latestTmp = inHand[y] /\ inHand[y] # NoPackage
      BY <1>7, <2>3, <3>1, <3>2, RestartEffect DEF SyncTypes
    <3>4. /\ \A x \in Devices \ {y} : clock[x][client[y]] < clock[y][client[y]]
          /\ latest # NoPackage => latest.clock[client[y]] < clock[y][client[y]]
          /\ \A x \in Devices \ {y} : inHand[x] # NoPackage =>
             inHand[x].clock[client[y]] < clock[y][client[y]]
      BY <2>a, <3>2, <3>3 DEF OwnersAreAhead
    <3>5. clock[y][client[y]] > 0
      BY <3>2 DEF SyncTypes
    <3>6. clock'[d][client[y]] < clock[y][client[y]]
      <4>1. clock'[d][client[y]] = 0
        BY <2>d
      <4> QED
        BY <3>5, <4>1
    <3>7. \A x \in Devices \ {y} : clock'[x][client'[y]] < clock'[y][client'[y]]
      BY <2>d, <3>1, <3>4, <3>6
    <3> QED
      BY <2>a, <2>d, <3>1, <3>2, <3>4, <3>7
  <2> QED
    BY <2>1, <2>2, <2>3 DEF OwnersAreAhead
<1>8. CASE \E made \in Sessions : Edit(d, made)
  <2>a. UNCHANGED <<client, clock, reused>> /\ OwnersAreAhead
    BY <1>8, <1>h DEF Edit
  <2>1. \A y \in Devices, x \in Devices : clock'[x][client'[y]] <= clock'[y][client'[y]]
    BY <2>a DEF OwnersAreAhead
  <2>2. \A y \in Devices : \A p \in Packages : Visible(p)' =>
        p.clock[client'[y]] <= clock'[y][client'[y]]
    BY <1>8, <2>a, VisibleShrinks DEF OwnersAreAhead
  <2>3. ASSUME NEW y \in Devices, syncStep'[y] = "named", latestTmp' = inHand'[y]
        PROVE  /\ \A x \in Devices \ {y} : clock'[x][client'[y]] < clock'[y][client'[y]]
               /\ latest' # NoPackage => latest'.clock[client'[y]] < clock'[y][client'[y]]
               /\ \A x \in Devices \ {y} :
                    inHand'[x] # NoPackage => inHand'[x].clock[client'[y]] < clock'[y][client'[y]]
    <3>1. UNCHANGED <<syncStep, inHand, latest, latestTmp>>
      BY <1>8 DEF Edit
    <3> QED
      BY <2>a, <2>3, <3>1 DEF OwnersAreAhead
  <2> QED
    BY <2>1, <2>2, <2>3 DEF OwnersAreAhead
<1>9. CASE ReplaceVault(d)
  <2>a. UNCHANGED <<client, clock, reused>> /\ OwnersAreAhead
    BY <1>9, <1>h DEF ReplaceVault
  <2>1. \A y \in Devices, x \in Devices : clock'[x][client'[y]] <= clock'[y][client'[y]]
    BY <2>a DEF OwnersAreAhead
  <2>2. \A y \in Devices : \A p \in Packages : Visible(p)' =>
        p.clock[client'[y]] <= clock'[y][client'[y]]
    BY <1>9, <2>a, VisibleShrinks DEF OwnersAreAhead
  <2>3. ASSUME NEW y \in Devices, syncStep'[y] = "named", latestTmp' = inHand'[y]
        PROVE  /\ \A x \in Devices \ {y} : clock'[x][client'[y]] < clock'[y][client'[y]]
               /\ latest' # NoPackage => latest'.clock[client'[y]] < clock'[y][client'[y]]
               /\ \A x \in Devices \ {y} :
                    inHand'[x] # NoPackage => inHand'[x].clock[client'[y]] < clock'[y][client'[y]]
    <3>1. syncStep'[d] = "half" /\ inHand' = inHand /\ UNCHANGED <<latest, latestTmp>>
      BY <1>9 DEF ReplaceVault, SyncGoes, SyncTypes, SyncTypeOK
    <3>2. syncStep[y] = "named" /\ latestTmp = inHand[y]
      BY <1>0, <2>3, <3>1 DEF SyncFrame
    <3> QED
      BY <2>a, <3>1, <3>2 DEF OwnersAreAhead
  <2> QED
    BY <2>1, <2>2, <2>3 DEF OwnersAreAhead
<1> QED
  BY <1>1, <1>2, <1>3, <1>4, <1>5, <1>6, <1>7, <1>8, <1>9

\* k with a new meaning for the counts of client c above n.
Grown(k, c, n, s) ==
    [k EXCEPT ![c] = [m \in 0 .. MaxCount |-> IF m <= n THEN k[c][m] ELSE s]]

\* It is a meaning again, and the same below.
LEMMA GrownMeans ==
    ASSUME NEW k \in Meanings, NEW c \in SyncClients, NEW n \in 0 .. MaxCount,
           NEW s \in SUBSET Edits, k[c][n] \subseteq s
    PROVE  /\ Grown(k, c, n, s) \in Meanings
           /\ \A b \in SyncClients, m \in 0 .. MaxCount : b # c \/ m <= n =>
              Grown(k, c, n, s)[b][m] = k[b][m]
           /\ \A m \in 0 .. MaxCount : m > n => Grown(k, c, n, s)[c][m] = s
<1> DEFINE g == Grown(k, c, n, s)
<1>0. k \in [SyncClients -> [0 .. MaxCount -> SUBSET Edits]] /\ MaxCount \in Nat
  BY SyncAssumption DEF Meanings
<1>a. /\ \A b \in SyncClients : k[b][0] = {}
      /\ \A b \in SyncClients : \A i \in 0 .. MaxCount, j \in 0 .. MaxCount : i <= j =>
         k[b][i] \subseteq k[b][j]
  BY DEF Meanings
<1>1. /\ \A b \in SyncClients \ {c} : g[b] = k[b]
      /\ g[c] = [m \in 0 .. MaxCount |-> IF m <= n THEN k[c][m] ELSE s]
      /\ g \in [SyncClients -> [0 .. MaxCount -> SUBSET Edits]]
  BY <1>0 DEF Grown
<1>2. /\ \A b \in SyncClients, m \in 0 .. MaxCount : b # c \/ m <= n => g[b][m] = k[b][m]
      /\ \A m \in 0 .. MaxCount : m > n => g[c][m] = s
  <2>1. \A m \in 0 .. MaxCount : g[c][m] = IF m <= n THEN k[c][m] ELSE s
    BY <1>1
  <2>2. n \in Nat /\ \A m \in 0 .. MaxCount : m \in Nat
    BY <1>0
  <2> HIDE DEF g
  <2>3. \A b \in SyncClients, m \in 0 .. MaxCount : b # c => g[b][m] = k[b][m]
    BY <1>1
  <2>4. \A m \in 0 .. MaxCount : (m <= n => g[c][m] = k[c][m]) /\ (m > n => g[c][m] = s)
    BY <2>1, <2>2
  <2> QED
    BY <2>3, <2>4
<1>3. \A b \in SyncClients : g[b][0] = {}
  BY <1>0, <1>a, <1>2
<1> HIDE DEF g
<1>4. ASSUME NEW b \in SyncClients, NEW i \in 0 .. MaxCount, NEW j \in 0 .. MaxCount, i <= j
      PROVE  g[b][i] \subseteq g[b][j]
  <2>1. CASE b # c \/ j <= n
    BY <1>2, <1>4, <1>a, <2>1
  <2>2. CASE b = c /\ j > n
    <3>1. g[b][j] = s
      BY <1>2, <2>2
    <3>2. CASE i <= n
      <4>1. g[b][i] = k[c][i]
        BY <1>2, <2>2, <3>2
      <4>2. k[c][i] \subseteq k[c][n]
        BY <1>a, <3>2
      <4> QED
        BY <3>1, <4>1, <4>2
    <3>3. CASE i > n
      BY <1>2, <2>2, <3>1, <3>3
    <3> QED
      BY <3>2, <3>3
  <2> QED
    BY <2>1, <2>2
<1>5. g \in Meanings
  BY <1>1, <1>3, <1>4 DEF Meanings
<1> QED
  BY <1>2, <1>5 DEF g

\* Counts are numbers of clients that exist.
LEMMA SyncNumbers ==
    ASSUME SyncTypes
    PROVE  /\ \A x \in Devices : client[x] \in SyncClients
           /\ \A x \in Devices, c \in SyncClients :
                clock[x][c] \in 0 .. MaxCount /\ FallsBackTo(x, c) \in 0 .. MaxCount /\
                  FallsBackTo(x, c) <= clock[x][c]
           /\ \A p \in Packages : p.known \subseteq Edits /\
              \A c \in SyncClients : p.clock[c] \in 0 .. MaxCount
<1>1. \A x \in Devices, c \in SyncClients : clock[x][c] \in 0 .. MaxCount
  BY DEF SyncTypes, SyncTypeOK, Clocks
<1>2. \A x \in Devices : client[x] \in SyncClients /\ (syncStep[x] = "named" => clock[x][client[x]] > 0)
  BY DEF SyncTypes, SyncTypeOK
<1>3. \A x \in Devices, c \in SyncClients : FallsBackTo(x, c) \in 0 .. MaxCount /\
      FallsBackTo(x, c) <= clock[x][c]
  BY <1>1, <1>2, SyncAssumption DEF FallsBackTo
<1>4. \A p \in Packages : p.known \subseteq Edits /\ \A c \in SyncClients : p.clock[c] \in 0 .. MaxCount
  BY DEF Packages, Clocks
<1> QED
  BY <1>1, <1>2, <1>3, <1>4

\* A device no step touches means what it meant.
LEMMA OthersMean ==
    ASSUME SyncTypes, NEW k \in Meanings, NEW g \in Meanings, NEW d \in Devices,
           NEW x \in Devices \ {d}, SyncFrame(d),
           DeviceMeans(k, x),
           \A c \in SyncClients : \A m \in 0 .. MaxCount : m <= clock[x][c] => g[c][m] = k[c][m]
    PROVE  DeviceMeans(g, x)'
<1>1. /\ clock'[x] = clock[x] /\ contained'[x] = contained[x] /\ based'[x] = based[x]
      /\ \A c \in SyncClients : FallsBackTo(x, c)' = FallsBackTo(x, c)
  BY DEF SyncFrame, FallsBackTo
<1>2. \A c \in SyncClients : g[c][clock[x][c]] = k[c][clock[x][c]] /\
      g[c][FallsBackTo(x, c)] = k[c][FallsBackTo(x, c)]
  BY SyncNumbers
<1> QED
  BY <1>1, <1>2 DEF DeviceMeans

\* A step can still be explained: by the same k, or after a push by one in which
\* the new count stands for what was pushed.
LEMMA MeaningsKept ==
    ASSUME SyncInv, ~reused', NEW d \in Devices,
           \/ BeginPush(d) \/ MoveLatest(d) \/ PushFails(d)
           \/ BeginPull(d) \/ ReplaceVault(d) \/ ReplaceDatabase(d) \/ PullFails(d)
           \/ PullEnds(d) \/ RestartDevice(d)
           \/ \E made \in Sessions : Edit(d, made)
    PROVE  \E k \in Meanings : Explains(k)'
<1>s. SyncTypes
  BY DEF SyncInv
<1> USE <1>s
<1>h. OwnersAreAhead /\ \E k \in Meanings : Explains(k)
  BY SyncFramed DEF SyncInv, SyncFrame
<1>0. SyncFrame(d) /\ SyncTypes
  BY SyncFramed DEF SyncInv
<1>1. CASE BeginPush(d)
  <2>1. PICK k \in Meanings : Explains(k)
    BY <1>h
  <2>a. k[client[d]][clock[d][client[d]]] \subseteq contained[d] /\ contained[d] \in SUBSET Edits
    BY <1>1, <2>1, SyncNumbers DEF Explains, DeviceMeans, SyncTypes, SyncTypeOK
  <2>b. PICK g \in Meanings :
        /\ \A b \in SyncClients, m \in 0 .. MaxCount : b # client[d] \/ m <= clock[d][client[d]] =>
           g[b][m] = k[b][m]
        /\ \A m \in 0 .. MaxCount : m > clock[d][client[d]] => g[client[d]][m] = contained[d]
    <3>1. client[d] \in SyncClients /\ clock[d][client[d]] \in 0 .. MaxCount
      BY SyncNumbers
    <3> DEFINE h == Grown(k, client[d], clock[d][client[d]], contained[d])
    <3>2. /\ h \in Meanings
          /\ \A b \in SyncClients, m \in 0 .. MaxCount : b # client[d] \/ m <= clock[d][client[d]] =>
             h[b][m] = k[b][m]
          /\ \A m \in 0 .. MaxCount : m > clock[d][client[d]] => h[client[d]][m] = contained[d]
      BY <2>a, <3>1, GrownMeans
    <3> HIDE DEF h
    <3> QED
      BY <3>2
  <2>o. \A x \in Devices : clock[x][client[d]] <= clock[d][client[d]]
    BY <1>h DEF OwnersAreAhead
  <2>v. ASSUME NEW p \in Packages, Visible(p)
        PROVE  PackageMeans(g, p)
    <3>1. p.clock[client[d]] <= clock[d][client[d]]
      BY <1>h, <2>v DEF OwnersAreAhead
    <3>2. \A c \in SyncClients : g[c][p.clock[c]] = k[c][p.clock[c]]
      BY <2>b, <3>1, SyncNumbers
    <3> QED
      BY <2>1, <2>v, <3>2 DEF Explains, PackageMeans
  <2>c. /\ clock'[d][client[d]] = clock[d][client[d]] + 1 /\ clock'[d][client[d]] \in 0 .. MaxCount
        /\ \A c \in SyncClients \ {client[d]} : clock'[d][c] = clock[d][c]
        /\ UNCHANGED <<client, contained, based>> /\ syncStep[d] = "idle" /\ syncStep'[d] = "named"
    BY <1>1, PushEffect, SyncNumbers DEF Clocks
  <2>f. \A c \in SyncClients : g[c][clock'[d][c]] \subseteq contained[d]
    <3>1. g[client[d]][clock'[d][client[d]]] = contained[d]
      BY <2>b, <2>c, SyncNumbers
    <3>2. ASSUME NEW c \in SyncClients, c # client[d] PROVE g[c][clock'[d][c]] \subseteq contained[d]
      <4>1. g[c][clock'[d][c]] = k[c][clock[d][c]]
        BY <2>b, <2>c, <3>2, SyncNumbers
      <4> QED
        BY <2>1, <4>1 DEF Explains, DeviceMeans
    <3> QED
      BY <3>1, <3>2
  <2>p. ASSUME NEW p \in Packages, Visible(p)'
        PROVE  PackageMeans(g, p)
    <3>1. CASE Visible(p)
      BY <2>v, <3>1
    <3>2. CASE p = PackageOf(d)
      <4>1. p.clock = clock'[d] /\ p.known = contained[d]
        BY <3>2 DEF PackageOf
      <4>2. contained[d] = g[client[d]][clock'[d][client[d]]]
        BY <2>b, <2>c, SyncNumbers
      <4> QED
        BY <2>f, <4>1, <4>2, SyncNumbers DEF PackageMeans
    <3> QED
      BY <1>1, <2>p, <3>1, <3>2, VisibleAfterPush
  <2>d. DeviceMeans(g, d)'
    <3>1. \A c \in SyncClients : FallsBackTo(d, c)' = clock[d][c] /\ FallsBackTo(d, c) = clock[d][c]
      BY <2>c, SyncNumbers DEF FallsBackTo
    <3>2. \A c \in SyncClients : g[c][clock[d][c]] = k[c][clock[d][c]]
      BY <2>b, SyncNumbers
    <3> QED
      BY <2>1, <2>c, <2>f, <3>1, <3>2 DEF Explains, DeviceMeans
  <2>x. ASSUME NEW x \in Devices, x # d
        PROVE  DeviceMeans(g, x)'
    <3>1. \A c \in SyncClients : \A m \in 0 .. MaxCount : m <= clock[x][c] => g[c][m] = k[c][m]
      BY <2>b, <2>x, <2>o, SyncNumbers
    <3> QED
      BY <1>0, <2>1, <2>b, <2>x, <3>1, OthersMean DEF Explains
  <2>e. \A p \in Packages : Visible(p)' => PackageMeans(g, p)
    BY <2>p
  <2> QED
    BY <2>1, <2>d, <2>x, <2>e, <2>b DEF Explains
<1>2. CASE MoveLatest(d)
  <2>1. PICK k \in Meanings : Explains(k)
    BY <1>h
  <2>p. ASSUME NEW p \in Packages, Visible(p)'
        PROVE  PackageMeans(k, p)
    BY <1>2, <2>1, <2>p, VisibleShrinks DEF Explains
  <2>d. DeviceMeans(k, d)'
    <3>1. /\ clock'[d] = clock[d] /\ contained'[d] = contained[d] /\ based'[d] = inHand[d].known /\
             client' = client
          /\ syncStep[d] = "named" /\ syncStep'[d] = "idle"
      BY <1>2 DEF MoveLatest, SyncGoes, SyncTypes, SyncTypeOK
    <3>2. inHand[d] \in Packages /\ Visible(inHand[d]) /\ inHand[d].clock = clock[d]
      BY <3>1 DEF SyncTypes, SyncTypeOK, Visible
    <3>3. \A e \in inHand[d].known : \E c \in SyncClients : e \in k[c][clock[d][c]]
      BY <2>1, <3>2 DEF Explains, PackageMeans
    <3>4. \A c \in SyncClients : FallsBackTo(d, c)' = clock[d][c]
      BY <3>1 DEF FallsBackTo
    <3> QED
      BY <2>1, <3>1, <3>3, <3>4 DEF Explains, DeviceMeans
  <2>x. ASSUME NEW x \in Devices, x # d
        PROVE  DeviceMeans(k, x)'
    BY <1>0, <2>1, <2>x, OthersMean DEF Explains
  <2>e. \A p \in Packages : Visible(p)' => PackageMeans(k, p)
    BY <2>p
  <2> QED
    BY <2>1, <2>d, <2>x, <2>e DEF Explains
<1>3. CASE PushFails(d)
  <2>1. PICK k \in Meanings : Explains(k)
    BY <1>h
  <2>p. ASSUME NEW p \in Packages, Visible(p)'
        PROVE  PackageMeans(k, p)
    BY <1>3, <2>1, <2>p, VisibleShrinks DEF Explains
  <2>d. DeviceMeans(k, d)'
    <3>1. /\ clock'[d][client[d]] = clock[d][client[d]] - 1
          /\ \A c \in SyncClients \ {client[d]} : clock'[d][c] = clock[d][c]
          /\ UNCHANGED <<client, contained, based>> /\ syncStep[d] = "named" /\ syncStep'[d] = "idle"
      BY <1>3, FailEffect
    <3>2. \A c \in SyncClients : FallsBackTo(d, c)' = FallsBackTo(d, c) /\
          clock'[d][c] = FallsBackTo(d, c)
      BY <3>1 DEF FallsBackTo
    <3>3. \A c \in SyncClients : k[c][clock'[d][c]] \subseteq k[c][clock[d][c]]
      BY <3>2, SyncNumbers DEF Meanings
    <3>4. \A c \in SyncClients : k[c][clock[d][c]] \subseteq contained[d]
      BY <2>1 DEF Explains, DeviceMeans
    <3>5. \A e \in based[d] : \E c \in SyncClients : e \in k[c][FallsBackTo(d, c)]
      BY <2>1 DEF Explains, DeviceMeans
    <3> QED
      BY <3>1, <3>2, <3>3, <3>4, <3>5 DEF DeviceMeans
  <2>x. ASSUME NEW x \in Devices, x # d
        PROVE  DeviceMeans(k, x)'
    BY <1>0, <2>1, <2>x, OthersMean DEF Explains
  <2>e. \A p \in Packages : Visible(p)' => PackageMeans(k, p)
    BY <2>p
  <2> QED
    BY <2>1, <2>d, <2>x, <2>e DEF Explains
<1>4. CASE BeginPull(d)
  <2>1. PICK k \in Meanings : Explains(k)
    BY <1>h
  <2>p. ASSUME NEW p \in Packages, Visible(p)'
        PROVE  PackageMeans(k, p)
    BY <1>4, <2>1, <2>p, VisibleShrinks DEF Explains
  <2>d. DeviceMeans(k, d)'
    <3>1. UNCHANGED <<client, clock, contained, based>> /\ syncStep[d] = "idle" /\
          syncStep'[d] = "found"
      BY <1>4 DEF BeginPull, SyncGoes, SyncTypes
    <3>2. \A c \in SyncClients : FallsBackTo(d, c)' = FallsBackTo(d, c)
      BY <3>1 DEF FallsBackTo
    <3> QED
      BY <2>1, <3>1, <3>2 DEF Explains, DeviceMeans
  <2>x. ASSUME NEW x \in Devices, x # d
        PROVE  DeviceMeans(k, x)'
    BY <1>0, <2>1, <2>x, OthersMean DEF Explains
  <2>e. \A p \in Packages : Visible(p)' => PackageMeans(k, p)
    BY <2>p
  <2> QED
    BY <2>1, <2>d, <2>x, <2>e DEF Explains
<1>5. CASE ReplaceDatabase(d)
  <2>1. PICK k \in Meanings : Explains(k)
    BY <1>h
  <2>a. k[client[d]][clock[d][client[d]]] \subseteq contained'[d] /\ contained'[d] \in SUBSET Edits
    BY <1>5, <2>1, SyncNumbers, ApplyEffect DEF Explains, DeviceMeans, SyncTypes, SyncTypeOK
  <2>b. PICK g \in Meanings :
        /\ \A b \in SyncClients, m \in 0 .. MaxCount : b # client[d] \/ m <= clock[d][client[d]] =>
           g[b][m] = k[b][m]
        /\ \A m \in 0 .. MaxCount : m > clock[d][client[d]] => g[client[d]][m] = contained'[d]
    <3>1. client[d] \in SyncClients /\ clock[d][client[d]] \in 0 .. MaxCount
      BY SyncNumbers
    <3> DEFINE h == Grown(k, client[d], clock[d][client[d]], contained'[d])
    <3>2. /\ h \in Meanings
          /\ \A b \in SyncClients, m \in 0 .. MaxCount : b # client[d] \/ m <= clock[d][client[d]] =>
             h[b][m] = k[b][m]
          /\ \A m \in 0 .. MaxCount : m > clock[d][client[d]] => h[client[d]][m] = contained'[d]
      BY <2>a, <3>1, GrownMeans
    <3> HIDE DEF h
    <3> QED
      BY <3>2
  <2>o. \A x \in Devices : clock[x][client[d]] <= clock[d][client[d]]
    BY <1>h DEF OwnersAreAhead
  <2>v. ASSUME NEW p \in Packages, Visible(p)
        PROVE  PackageMeans(g, p)
    <3>1. p.clock[client[d]] <= clock[d][client[d]]
      BY <1>h, <2>v DEF OwnersAreAhead
    <3>2. \A c \in SyncClients : g[c][p.clock[c]] = k[c][p.clock[c]]
      BY <2>b, <3>1, SyncNumbers
    <3> QED
      BY <2>1, <2>v, <3>2 DEF Explains, PackageMeans
  <2>c. /\ clock'[d][client[d]] \in 0 .. MaxCount /\ clock'[d][client[d]] > clock[d][client[d]]
        /\ \A c \in SyncClients \ {client[d]} : clock'[d][c] \in {clock[d][c], inHand[d].clock[c]}
        /\ UNCHANGED client /\ syncStep'[d] = "idle" /\ based'[d] = contained'[d]
        /\ contained'[d] = contained[d] \cup inHand[d].known
        /\ inHand[d] \in Packages /\ Visible(inHand[d])
    BY <1>5, ApplyEffect, SyncNumbers DEF Clocks, Max2, Visible
  <2>p. ASSUME NEW p \in Packages, Visible(p)'
        PROVE  PackageMeans(g, p)
    BY <1>5, <2>v, <2>p, VisibleShrinks
  <2>d. DeviceMeans(g, d)'
    <3>1. g[client[d]][clock'[d][client[d]]] = contained'[d]
      BY <2>b, <2>c
    <3>2. ASSUME NEW c \in SyncClients, c # client[d] PROVE g[c][clock'[d][c]] \subseteq contained'[d]
      <4>1. k[c][clock[d][c]] \subseteq contained[d] /\
            k[c][inHand[d].clock[c]] \subseteq inHand[d].known
        BY <2>1, <2>c DEF Explains, DeviceMeans, PackageMeans
      <4>2. g[c][clock[d][c]] = k[c][clock[d][c]] /\ g[c][inHand[d].clock[c]] = k[c][inHand[d].clock[c]]
        BY <2>b, <2>c, <3>2, SyncNumbers
      <4> QED
        BY <2>c, <3>2, <4>1, <4>2
    <3>3. \A c \in SyncClients : g[c][clock'[d][c]] \subseteq contained'[d]
      BY <3>1, <3>2
    <3>4. \A c \in SyncClients : FallsBackTo(d, c)' = clock'[d][c]
      BY <2>c DEF FallsBackTo
    <3>5. \A e \in based'[d] : e \in g[client[d]][clock'[d][client[d]]]
      BY <2>c, <3>1
    <3>6. \A e \in based'[d] : \E c \in SyncClients : e \in g[c][FallsBackTo(d, c)']
      BY <3>4, <3>5, SyncNumbers
    <3> QED
      BY <3>3, <3>6 DEF DeviceMeans
  <2>x. ASSUME NEW x \in Devices, x # d
        PROVE  DeviceMeans(g, x)'
    <3>1. \A c \in SyncClients : \A m \in 0 .. MaxCount : m <= clock[x][c] => g[c][m] = k[c][m]
      BY <2>b, <2>x, <2>o, SyncNumbers
    <3> QED
      BY <1>0, <2>1, <2>b, <2>x, <3>1, OthersMean DEF Explains
  <2>e. \A p \in Packages : Visible(p)' => PackageMeans(g, p)
    BY <2>p
  <2> QED
    BY <2>1, <2>d, <2>x, <2>e, <2>b DEF Explains
<1>6. CASE PullEnds(d) \/ PullFails(d)
  <2>1. PICK k \in Meanings : Explains(k)
    BY <1>h
  <2>p. ASSUME NEW p \in Packages, Visible(p)'
        PROVE  PackageMeans(k, p)
    BY <1>6, <2>1, <2>p, VisibleShrinks DEF Explains
  <2>d. DeviceMeans(k, d)'
    <3>1. UNCHANGED <<client, clock, contained, based>> /\ syncStep[d] # "named" /\
          syncStep'[d] = "idle"
      BY <1>6 DEF PullEnds, PullFails, SyncGoes, SyncTypes
    <3>2. \A c \in SyncClients : FallsBackTo(d, c)' = FallsBackTo(d, c)
      BY <3>1 DEF FallsBackTo
    <3> QED
      BY <2>1, <3>1, <3>2 DEF Explains, DeviceMeans
  <2>x. ASSUME NEW x \in Devices, x # d
        PROVE  DeviceMeans(k, x)'
    BY <1>0, <2>1, <2>x, OthersMean DEF Explains
  <2>e. \A p \in Packages : Visible(p)' => PackageMeans(k, p)
    BY <2>p
  <2> QED
    BY <2>1, <2>d, <2>x, <2>e DEF Explains
<1>7. CASE RestartDevice(d)
  <2>1. PICK k \in Meanings : Explains(k)
    BY <1>h
  <2>p. ASSUME NEW p \in Packages, Visible(p)'
        PROVE  PackageMeans(k, p)
    BY <1>7, <2>1, <2>p, VisibleShrinks DEF Explains
  <2>d. DeviceMeans(k, d)'
    <3>1. based'[d] = {} /\ \A c \in SyncClients : clock'[d][c] = 0
      BY <1>7, RestartEffect DEF NoClock
    <3>2. \A c \in SyncClients : k[c][0] = {}
      BY DEF Meanings
    <3> QED
      BY <3>1, <3>2 DEF DeviceMeans
  <2>x. ASSUME NEW x \in Devices, x # d
        PROVE  DeviceMeans(k, x)'
    BY <1>0, <2>1, <2>x, OthersMean DEF Explains
  <2>e. \A p \in Packages : Visible(p)' => PackageMeans(k, p)
    BY <2>p
  <2> QED
    BY <2>1, <2>d, <2>x, <2>e DEF Explains
<1>8. CASE \E made \in Sessions : Edit(d, made)
  <2>1. PICK k \in Meanings : Explains(k)
    BY <1>h
  <2>p. ASSUME NEW p \in Packages, Visible(p)'
        PROVE  PackageMeans(k, p)
    BY <1>8, <2>1, <2>p, VisibleShrinks DEF Explains
  <2>d. DeviceMeans(k, d)'
    <3>1. UNCHANGED <<client, clock, based, syncStep>> /\ contained[d] \subseteq contained'[d]
      BY <1>8 DEF Edit, SyncTypes, SyncTypeOK
    <3>2. \A c \in SyncClients : FallsBackTo(d, c)' = FallsBackTo(d, c)
      BY <3>1 DEF FallsBackTo
    <3> QED
      BY <2>1, <3>1, <3>2 DEF Explains, DeviceMeans
  <2>x. ASSUME NEW x \in Devices, x # d
        PROVE  DeviceMeans(k, x)'
    BY <1>0, <2>1, <2>x, OthersMean DEF Explains
  <2>e. \A p \in Packages : Visible(p)' => PackageMeans(k, p)
    BY <2>p
  <2> QED
    BY <2>1, <2>d, <2>x, <2>e DEF Explains
<1>9. CASE ReplaceVault(d)
  <2>1. PICK k \in Meanings : Explains(k)
    BY <1>h
  <2>p. ASSUME NEW p \in Packages, Visible(p)'
        PROVE  PackageMeans(k, p)
    BY <1>9, <2>1, <2>p, VisibleShrinks DEF Explains
  <2>d. DeviceMeans(k, d)'
    <3>1. /\ UNCHANGED <<client, clock, based>> /\ contained[d] \subseteq contained'[d]
          /\ syncStep[d] # "named" /\ syncStep'[d] # "named"
      BY <1>9 DEF ReplaceVault, SyncGoes, SyncTypes, SyncTypeOK
    <3>2. \A c \in SyncClients : FallsBackTo(d, c)' = FallsBackTo(d, c)
      BY <3>1 DEF FallsBackTo
    <3> QED
      BY <2>1, <3>1, <3>2 DEF Explains, DeviceMeans
  <2>x. ASSUME NEW x \in Devices, x # d
        PROVE  DeviceMeans(k, x)'
    BY <1>0, <2>1, <2>x, OthersMean DEF Explains
  <2>e. \A p \in Packages : Visible(p)' => PackageMeans(k, p)
    BY <2>p
  <2> QED
    BY <2>1, <2>d, <2>x, <2>e DEF Explains
<1> QED
  BY <1>1, <1>2, <1>3, <1>4, <1>5, <1>6, <1>7, <1>8, <1>9

\* Devices that have not synchronised are in the invariant.
LEMMA SyncStarts == ASSUME SyncInit PROVE SyncInv
<1> USE SyncAssumption DEF SyncInit
<1>1. NoClock \in Clocks
  BY DEF NoClock, Clocks
<1>2. SyncTypes
  BY <1>1 DEF SyncTypes, SyncTypeOK
<1>3. \A p \in Packages : ~Visible(p)
  BY DEF Visible
<1>4. OwnersAreAhead
  BY <1>2, <1>3 DEF OwnersAreAhead, SyncTypes, SyncTypeOK, NoClock
<1> DEFINE k == [c \in SyncClients |-> [m \in 0 .. MaxCount |-> {}]]
<1>5. k \in Meanings
  BY DEF Meanings
<1>6. Explains(k)
  BY <1>3 DEF Explains, DeviceMeans, NoClock
<1> QED
  BY <1>2, <1>4, <1>5, <1>6 DEF SyncInv

\* Every step keeps it.
LEMMA SyncStepKeeps == ASSUME SyncInv, [SyncNext]_syncVars PROVE SyncInv'
<1>1. ASSUME NEW d \in Devices,
             \/ BeginPush(d) \/ MoveLatest(d) \/ PushFails(d)
             \/ BeginPull(d) \/ ReplaceVault(d) \/ ReplaceDatabase(d) \/ PullFails(d)
           \/ PullEnds(d) \/ RestartDevice(d)
             \/ \E made \in Sessions : Edit(d, made)
      PROVE  SyncInv'
  <2>1. SyncTypes'
    BY <1>1, SyncTypesKept DEF SyncInv
  <2>2. ~reused' => OwnersAreAhead' /\ \E k \in Meanings : Explains(k)'
    BY <1>1, OwnersKept, MeaningsKept
  <2> QED
    BY <2>1, <2>2 DEF SyncInv
<1>2. ASSUME UNCHANGED syncVars
      PROVE  SyncInv'
  <2> USE <1>2 DEF syncVars
  <2>1. SyncTypes'
    BY DEF SyncInv, SyncTypes, SyncTypeOK
  <2>2. \A p \in Packages : Visible(p)' <=> Visible(p)
    BY DEF Visible
  <2>3. OwnersAreAhead => OwnersAreAhead'
    BY <2>2 DEF OwnersAreAhead
  <2>4. \A d \in Devices, c \in SyncClients : FallsBackTo(d, c)' = FallsBackTo(d, c)
    BY DEF FallsBackTo
  <2>5. ASSUME NEW k \in Meanings, Explains(k)
        PROVE  Explains(k)'
    <3>1. \A d \in Devices : DeviceMeans(k, d)'
      BY <2>4, <2>5 DEF Explains, DeviceMeans
    <3> QED
      BY <2>2, <2>5, <3>1 DEF Explains
  <2> QED
    BY <2>1, <2>3, <2>5 DEF SyncInv
<1> QED
  BY <1>1, <1>2 DEF SyncNext

\* The invariant is more than what StateSyncSafe says.
LEMMA SyncInvSafe == ASSUME SyncInv PROVE StateSyncSafe
<1>1. SyncTypes
  BY DEF SyncInv
<1>2. ASSUME latest # NoPackage, ~reused, NEW d \in Devices
      PROVE  /\ UpTo(latest.clock, clock[d]) => latest.known \subseteq contained[d]
             /\ UpTo(clock[d], latest.clock) => based[d] \subseteq latest.known
  <2>1. PICK k \in Meanings : Explains(k)
    BY <1>2 DEF SyncInv
  <2>2. latest \in Packages /\ Visible(latest)
    BY <1>1, <1>2 DEF SyncTypes, SyncTypeOK, Visible
  <2>3. PackageMeans(k, latest) /\ DeviceMeans(k, d)
    BY <2>1, <2>2 DEF Explains
  <2>4. \A c \in SyncClients : \A m \in 0 .. MaxCount, n \in 0 .. MaxCount : m <= n =>
        k[c][m] \subseteq k[c][n]
    BY DEF Meanings
  <2>5. ASSUME UpTo(latest.clock, clock[d])
        PROVE  latest.known \subseteq contained[d]
    <3>1. \A c \in SyncClients : k[c][latest.clock[c]] \subseteq k[c][clock[d][c]]
      BY <1>1, <2>2, <2>4, <2>5, SyncNumbers DEF UpTo
    <3> QED
      BY <2>3, <3>1 DEF PackageMeans, DeviceMeans
  <2>6. ASSUME UpTo(clock[d], latest.clock)
        PROVE  based[d] \subseteq latest.known
    <3>1. \A c \in SyncClients : FallsBackTo(d, c) <= latest.clock[c]
      <4>1. \A c \in SyncClients : clock[d][c] <= latest.clock[c]
        BY <2>6 DEF UpTo
      <4>2. \A c \in SyncClients : FallsBackTo(d, c) <= clock[d][c] /\
            FallsBackTo(d, c) \in 0 .. MaxCount
                                   /\ clock[d][c] \in 0 .. MaxCount /\ latest.clock[c] \in 0 .. MaxCount
        BY <1>1, <2>2, SyncNumbers
      <4> QED
        BY <4>1, <4>2, SyncAssumption
    <3>2. \A c \in SyncClients : k[c][FallsBackTo(d, c)] \subseteq k[c][latest.clock[c]]
      BY <1>1, <2>2, <2>4, <3>1, SyncNumbers
    <3> QED
      BY <2>3, <3>2 DEF PackageMeans, DeviceMeans
  <2> QED
    BY <2>5, <2>6
<1>3. SyncTypeOK
  BY <1>1 DEF SyncTypes
<1> QED
  BY <1>2, <1>3 DEF StateSyncSafe, SkippedIsKnown, DominatingContains

-----------------------------------------------------------------------------
(* Identities.                                                             *)

\* Requests on the identities, with the rows and the copy in memory.
IdSpec == IdentityInit /\ [][IdentityNext]_identityVars

\* The requests under way.
IdentityRequests == [kind : {"create", "createActive", "activate", "delete", "get"}, id : Personas,
              at : {"write", "apply"}, crossed : BOOLEAN]

\* The types, as far as the model's type invariant leaves them open.
IdTypes ==
    /\ IdentityTypeOK
    /\ idCalls \in [IdentityCalls -> IdentityRequests \cup {Free}]
    /\ \A c \in IdentityCalls : idCalls[c].at = "write" => idCalls[c].kind \in {"activate", "delete"}

\* A request has read its row and not committed.
AtWrite(c) == idCalls[c].at = "write"

\* A request has committed and not brought it to memory.
AtApply(c, kind) == idCalls[c].at = "apply" /\ idCalls[c].kind = kind

\* What a request that nobody crossed knows of the rows.
KnowsRows(c) ==
    ~idCalls[c].crossed =>
        /\ AtWrite(c) => idCalls[c].id \in Stored
        /\ AtApply(c, "activate") => ActiveRows = {idCalls[c].id}
        /\ AtApply(c, "createActive") => idCalls[c].id \in ActiveRows
        /\ AtApply(c, "get") => idCalls[c].id \in ActiveRows /\ cached = NoPersona

\* Memory and what was published agree with the rows ...
MemoryAgrees ==
    /\ ~SeveralActive
    /\ cached # NoPersona => cached \in ActiveRows /\ shown \in {cached, NoPersona}
    /\ shown \in Personas => shown = cached
    /\ shown = DefaultPersona => cached = NoPersona /\ ActiveRows = {}

\* ... but for the row of p, which is just deleted.
AgreesBut(p) ==
    /\ ~SeveralActive /\ p \notin ActiveRows
    /\ cached = p => ActiveRows = {}
    /\ cached # NoPersona /\ cached # p => cached \in ActiveRows
    /\ cached # NoPersona => shown \in {cached, NoPersona}
    /\ shown \in Personas => shown = cached
    /\ shown = DefaultPersona => cached = NoPersona /\ ActiveRows = {}

\* No request that committed was crossed by another.
NothingCrossed == ~crossedOver /\ \A c \in IdentityCalls : idCalls[c].at = "apply" =>
  ~idCalls[c].crossed

\* A request has committed what memory does not show yet.
InFlight(c) == AtApply(c, "activate") \/ AtApply(c, "createActive") \/ AtApply(c, "delete")

\* Unless requests crossed, memory is behind the rows only while one is in flight.
RowsAndMemory ==
    NothingCrossed =>
        /\ (\A c \in IdentityCalls : ~InFlight(c)) => MemoryAgrees
        /\ \A c \in IdentityCalls : AtApply(c, "delete") => AgreesBut(idCalls[c].id)

\* The inductive invariant.
IdInv ==
    /\ IdTypes
    /\ ActivationIsExclusive
    /\ \A c \in IdentityCalls : KnowsRows(c)
    /\ RowsAndMemory

\* A call that is free is no request.
LEMMA FreeIsFree ==
    /\ Free.at = "idle" /\ ~Free.crossed
    /\ \A r \in IdentityRequests : r # Free /\ r.at \in {"write", "apply"} /\ r.id \in Personas /\
       r.crossed \in BOOLEAN
BY DEF Free, IdentityRequests

\* A step of one request marks the others as crossed, and leaves them where they
\* are.
LEMMA GoesEffect ==
    ASSUME IdTypes, NEW c \in IdentityCalls, NEW newCall \in IdentityRequests \cup {Free},
           IdGoes(c, newCall)
    PROVE  /\ idCalls' \in [IdentityCalls -> IdentityRequests \cup {Free}] /\ idCalls'[c] = newCall
           /\ \A d \in IdentityCalls \ {c} :
                /\ idCalls'[d].at = idCalls[d].at /\ idCalls'[d].kind = idCalls[d].kind /\
                   idCalls'[d].id = idCalls[d].id
                /\ idCalls'[d].at # "idle" => idCalls'[d].crossed
<1>1. \A d \in IdentityCalls : idCalls[d] \in IdentityRequests \cup {Free}
  BY DEF IdTypes
<1>2. \A r \in IdentityRequests : /\ [r EXCEPT !.crossed = TRUE] \in IdentityRequests
                           /\ [r EXCEPT !.crossed = TRUE].at = r.at /\
                              [r EXCEPT !.crossed = TRUE].kind = r.kind
                           /\ [r EXCEPT !.crossed = TRUE].id = r.id /\
                              [r EXCEPT !.crossed = TRUE].crossed
  BY DEF IdentityRequests
<1>3. idCalls' = [d \in IdentityCalls |->
          IF d = c THEN newCall
          ELSE IF idCalls[d] = Free THEN Free ELSE [idCalls[d] EXCEPT !.crossed = TRUE]]
  BY DEF IdGoes
<1>4. ASSUME NEW d \in IdentityCalls \ {c}
      PROVE  /\ idCalls'[d] \in IdentityRequests \cup {Free}
             /\ idCalls'[d].at = idCalls[d].at /\ idCalls'[d].kind = idCalls[d].kind /\
                idCalls'[d].id = idCalls[d].id
             /\ idCalls'[d].at # "idle" => idCalls'[d].crossed
  <2>1. CASE idCalls[d] = Free
    <3>1. idCalls'[d] = Free
      BY <1>3, <2>1
    <3> QED
      BY <2>1, <3>1, FreeIsFree
  <2>2. CASE idCalls[d] # Free
    <3>1. idCalls'[d] = [idCalls[d] EXCEPT !.crossed = TRUE] /\ idCalls[d] \in IdentityRequests
      BY <1>1, <1>3, <2>2
    <3> QED
      BY <1>2, <3>1
  <2> QED
    BY <2>1, <2>2
<1>5. idCalls'[c] = newCall
  BY <1>3
<1>6. idCalls' \in [IdentityCalls -> IdentityRequests \cup {Free}]
  <2>1. \A d \in IdentityCalls : idCalls'[d] \in IdentityRequests \cup {Free}
    BY <1>4, <1>5
  <2> QED
    BY <1>3, <2>1
<1> QED
  BY <1>4, <1>5, <1>6

\* After a step that marks them, the other requests know nothing; if nothing is
\* crossed, none of them is past its commit.
LEMMA OthersKnowNothing ==
    ASSUME IdTypes, NEW c \in IdentityCalls, NEW newCall \in IdentityRequests \cup {Free},
           IdGoes(c, newCall), KnowsRows(c)'
    PROVE  /\ \A d \in IdentityCalls : KnowsRows(d)'
           /\ NothingCrossed' => \A d \in IdentityCalls \ {c} : idCalls[d].at # "apply" /\
              idCalls'[d].at # "apply"
<1>1. \A d \in IdentityCalls \ {c} : KnowsRows(d)'
  <2>1. \A d \in IdentityCalls \ {c} : idCalls'[d].crossed \/ idCalls'[d].at \notin {"write", "apply"}
    BY GoesEffect, FreeIsFree
  <2> QED
    BY <2>1 DEF KnowsRows, AtWrite, AtApply
<1>2. NothingCrossed' => \A d \in IdentityCalls \ {c} : idCalls[d].at # "apply" /\
      idCalls'[d].at # "apply"
  BY GoesEffect DEF NothingCrossed
<1> QED
  BY <1>1, <1>2

\* Forgetting the cache keeps the invariant.
LEMMA InvalidateKeeps ==
    ASSUME IdInv, InvalidateCache
    PROVE  IdInv'
<1> USE IdentityAssumption
<1>0. IdTypes /\ ActivationIsExclusive /\ (\A d \in IdentityCalls : KnowsRows(d)) /\ RowsAndMemory
  BY DEF IdInv
<1>a. cached' = NoPersona /\ crossedOver' /\ crossedOver' \in BOOLEAN /\
      UNCHANGED <<personaRows, shown, idCalls, chosen>>
  BY DEF InvalidateCache
<1>1. IdTypes'
  BY <1>0, <1>a DEF IdTypes, IdentityTypeOK
<1>2. ActivationIsExclusive'
  BY <1>0, <1>a DEF ActivationIsExclusive, ActiveRows
<1>3. \A d \in IdentityCalls : KnowsRows(d)'
  BY <1>0, <1>a DEF KnowsRows, AtWrite, AtApply, ActiveRows, Stored
<1>4. RowsAndMemory'
  BY <1>a DEF RowsAndMemory, NothingCrossed
<1> QED
  BY <1>1, <1>2, <1>3, <1>4 DEF IdInv

\* So does a restart: memory is empty, rows stay.
LEMMA RestartKeeps ==
    ASSUME IdInv, RestartIdentities
    PROVE  IdInv'
<1> USE IdentityAssumption
<1>0. IdTypes /\ ActivationIsExclusive /\ (\A d \in IdentityCalls : KnowsRows(d)) /\ RowsAndMemory
  BY DEF IdInv
<1>a. /\ cached' = NoPersona /\ shown' = NoPersona /\ UNCHANGED <<personaRows, chosen>>
      /\ idCalls' = [c \in IdentityCalls |-> Free] /\ crossedOver' = SeveralActive
  BY DEF RestartIdentities
<1>b. \A d \in IdentityCalls : idCalls'[d] = Free /\ idCalls'[d].at = "idle"
  BY <1>a, FreeIsFree
<1>1. IdTypes'
  <2>1. SeveralActive \in BOOLEAN
    BY DEF SeveralActive
  <2> QED
    BY <1>0, <1>a, <1>b, <2>1 DEF IdTypes, IdentityTypeOK
<1>2. ActivationIsExclusive'
  BY <1>0, <1>a DEF ActivationIsExclusive, ActiveRows
<1>3. \A d \in IdentityCalls : KnowsRows(d)'
  BY <1>b DEF KnowsRows, AtWrite, AtApply
<1>4. RowsAndMemory'
  BY <1>a, <1>b DEF RowsAndMemory, NothingCrossed, MemoryAgrees, SeveralActive, ActiveRows, AtApply
<1> QED
  BY <1>1, <1>2, <1>3, <1>4 DEF IdInv

\* Asking for the active identity keeps it ...
LEMMA GetKeeps ==
    ASSUME IdInv, NEW c \in IdentityCalls, NEW p \in Personas, GetActiveIdentity(c, p)
    PROVE  IdInv'
<1> USE IdentityAssumption
<1>0. IdTypes /\ ActivationIsExclusive /\ (\A d \in IdentityCalls : KnowsRows(d)) /\ RowsAndMemory
  BY DEF IdInv
<1> DEFINE r == [kind |-> "get", id |-> p, at |-> "apply", crossed |-> FALSE]
<1>a. /\ idCalls[c] = Free /\ idCalls' = [idCalls EXCEPT ![c] = r]
      /\ UNCHANGED <<personaRows, cached, shown, chosen, crossedOver>>
  BY DEF GetActiveIdentity, BeginRequest
<1>b. r \in IdentityRequests /\ idCalls[c].at = "idle"
  BY <1>a, FreeIsFree DEF IdentityRequests
<1>c. idCalls'[c] = r /\ \A d \in IdentityCalls \ {c} : idCalls'[d] = idCalls[d]
  BY <1>0, <1>a DEF IdTypes
<1> HIDE DEF r
<1>1. IdTypes'
  <2>1. idCalls' \in [IdentityCalls -> IdentityRequests \cup {Free}]
    BY <1>0, <1>a, <1>b DEF IdTypes
  <2>2. \A d \in IdentityCalls : idCalls'[d].at = "write" => idCalls'[d].kind \in {"activate", "delete"}
    BY <1>0, <1>c DEF IdTypes, r
  <2> QED
    BY <1>0, <1>a, <2>1, <2>2 DEF IdTypes, IdentityTypeOK
<1>2. ActivationIsExclusive'
  BY <1>0, <1>a DEF ActivationIsExclusive, ActiveRows
<1>3. \A d \in IdentityCalls : KnowsRows(d)'
  <2>1. KnowsRows(c)'
    BY <1>a, <1>c DEF KnowsRows, AtWrite, AtApply, GetActiveIdentity, ActiveRows, r
  <2>2. \A d \in IdentityCalls \ {c} : KnowsRows(d)'
    BY <1>0, <1>a, <1>c DEF KnowsRows, AtWrite, AtApply, ActiveRows, Stored
  <2> QED
    BY <2>1, <2>2
<1>4. RowsAndMemory'
  <2>1. NothingCrossed' => NothingCrossed
    BY <1>a, <1>b, <1>c DEF NothingCrossed
  <2>2. \A d \in IdentityCalls : (InFlight(d)' <=> InFlight(d)) /\ (AtApply(d, "delete")' =>
        AtApply(d, "delete") /\ idCalls'[d] = idCalls[d])
    BY <1>b, <1>c DEF InFlight, AtApply, r
  <2>3. MemoryAgrees' = MemoryAgrees /\ \A q \in Personas : AgreesBut(q)' = AgreesBut(q)
    BY <1>a DEF MemoryAgrees, AgreesBut, SeveralActive, ActiveRows
  <2>4. \A d \in IdentityCalls : AtApply(d, "delete") => idCalls[d].id \in Personas
    BY <1>0, FreeIsFree DEF IdTypes, AtApply
  <2> QED
    BY <1>0, <2>1, <2>2, <2>3, <2>4 DEF RowsAndMemory
<1> QED
  BY <1>1, <1>2, <1>3, <1>4 DEF IdInv

\* ... reading the row to be activated or deleted ...
LEMMA FindKeeps ==
    ASSUME IdInv, NEW c \in IdentityCalls, NEW p \in Personas, NEW kind \in {"activate", "delete"},
           FindIdentity(c, kind, p)
    PROVE  IdInv'
<1> USE IdentityAssumption
<1>0. IdTypes /\ ActivationIsExclusive /\ (\A d \in IdentityCalls : KnowsRows(d)) /\ RowsAndMemory
  BY DEF IdInv
<1> DEFINE r == [kind |-> kind, id |-> p, at |-> "write", crossed |-> FALSE]
<1>a. /\ idCalls[c] = Free /\ idCalls' = [idCalls EXCEPT ![c] = r]
      /\ UNCHANGED <<personaRows, cached, shown, chosen, crossedOver>>
  BY DEF FindIdentity, BeginRequest
<1>b. r \in IdentityRequests /\ idCalls[c].at = "idle"
  BY <1>a, FreeIsFree DEF IdentityRequests
<1>c. idCalls'[c] = r /\ \A d \in IdentityCalls \ {c} : idCalls'[d] = idCalls[d]
  BY <1>0, <1>a DEF IdTypes
<1> HIDE DEF r
<1>1. IdTypes'
  <2>1. idCalls' \in [IdentityCalls -> IdentityRequests \cup {Free}]
    BY <1>0, <1>a, <1>b DEF IdTypes
  <2>2. \A d \in IdentityCalls : idCalls'[d].at = "write" => idCalls'[d].kind \in {"activate", "delete"}
    BY <1>0, <1>c DEF IdTypes, r
  <2> QED
    BY <1>0, <1>a, <2>1, <2>2 DEF IdTypes, IdentityTypeOK
<1>2. ActivationIsExclusive'
  BY <1>0, <1>a DEF ActivationIsExclusive, ActiveRows
<1>3. \A d \in IdentityCalls : KnowsRows(d)'
  <2>1. KnowsRows(c)'
    BY <1>a, <1>c DEF KnowsRows, AtWrite, AtApply, FindIdentity, Stored, r
  <2>2. \A d \in IdentityCalls \ {c} : KnowsRows(d)'
    BY <1>0, <1>a, <1>c DEF KnowsRows, AtWrite, AtApply, ActiveRows, Stored
  <2> QED
    BY <2>1, <2>2
<1>4. RowsAndMemory'
  <2>1. NothingCrossed' => NothingCrossed
    BY <1>a, <1>b, <1>c DEF NothingCrossed
  <2>2. \A d \in IdentityCalls : (InFlight(d)' <=> InFlight(d)) /\ (AtApply(d, "delete")' =>
        AtApply(d, "delete") /\ idCalls'[d] = idCalls[d])
    BY <1>b, <1>c DEF InFlight, AtApply, r
  <2>3. MemoryAgrees' = MemoryAgrees /\ \A q \in Personas : AgreesBut(q)' = AgreesBut(q)
    BY <1>a DEF MemoryAgrees, AgreesBut, SeveralActive, ActiveRows
  <2>4. \A d \in IdentityCalls : AtApply(d, "delete") => idCalls[d].id \in Personas
    BY <1>0, FreeIsFree DEF IdTypes, AtApply
  <2> QED
    BY <1>0, <2>1, <2>2, <2>3, <2>4 DEF RowsAndMemory
<1> QED
  BY <1>1, <1>2, <1>3, <1>4 DEF IdInv

\* ... a commit that fails ...
LEMMA WriteFailsKeeps ==
    ASSUME IdInv, NEW c \in IdentityCalls, WriteFails(c)
    PROVE  IdInv'
<1> USE IdentityAssumption
<1>0. IdTypes /\ ActivationIsExclusive /\ (\A d \in IdentityCalls : KnowsRows(d)) /\ RowsAndMemory
  BY DEF IdInv
<1>a. /\ idCalls[c].at = "write" /\ idCalls' = [idCalls EXCEPT ![c] = Free]
      /\ UNCHANGED <<personaRows, cached, shown, chosen, crossedOver>>
  BY DEF WriteFails
<1>c. idCalls'[c] = Free /\ idCalls'[c].at = "idle" /\
      \A d \in IdentityCalls \ {c} : idCalls'[d] = idCalls[d]
  BY <1>0, <1>a, FreeIsFree DEF IdTypes
<1>1. IdTypes'
  <2>1. idCalls' \in [IdentityCalls -> IdentityRequests \cup {Free}]
    BY <1>0, <1>a DEF IdTypes
  <2>2. \A d \in IdentityCalls : idCalls'[d].at = "write" => idCalls'[d].kind \in {"activate", "delete"}
    BY <1>0, <1>c DEF IdTypes
  <2> QED
    BY <1>0, <1>a, <2>1, <2>2 DEF IdTypes, IdentityTypeOK
<1>2. ActivationIsExclusive'
  BY <1>0, <1>a DEF ActivationIsExclusive, ActiveRows
<1>3. \A d \in IdentityCalls : KnowsRows(d)'
  BY <1>0, <1>a, <1>c DEF KnowsRows, AtWrite, AtApply, ActiveRows, Stored
<1>4. RowsAndMemory'
  <2>1. NothingCrossed' => NothingCrossed
    BY <1>a, <1>c DEF NothingCrossed
  <2>2. \A d \in IdentityCalls : (InFlight(d)' <=> InFlight(d)) /\ (AtApply(d, "delete")' =>
        AtApply(d, "delete") /\ idCalls'[d] = idCalls[d])
    BY <1>a, <1>c DEF InFlight, AtApply
  <2>3. MemoryAgrees' = MemoryAgrees /\ \A q \in Personas : AgreesBut(q)' = AgreesBut(q)
    BY <1>a DEF MemoryAgrees, AgreesBut, SeveralActive, ActiveRows
  <2>4. \A d \in IdentityCalls : AtApply(d, "delete") => idCalls[d].id \in Personas
    BY <1>0, FreeIsFree DEF IdTypes, AtApply
  <2> QED
    BY <1>0, <2>1, <2>2, <2>3, <2>4 DEF RowsAndMemory
<1> QED
  BY <1>1, <1>2, <1>3, <1>4 DEF IdInv

\* ... creating an identity ...
LEMMA CreateKeeps ==
    ASSUME IdInv, NEW c \in IdentityCalls, NEW p \in Personas, NEW makeActive \in BOOLEAN,
           CreateIdentity(c, p, makeActive)
    PROVE  IdInv'
<1> USE IdentityAssumption
<1>0. IdTypes /\ ActivationIsExclusive /\ (\A d \in IdentityCalls : KnowsRows(d)) /\ RowsAndMemory
  BY DEF IdInv
<1> DEFINE newCall == [kind |-> IF makeActive THEN "createActive" ELSE "create",
                    id |-> p, at |-> "apply", crossed |-> FALSE]
<1>a. IdGoes(c, newCall)
  BY DEF CreateIdentity
<1>b. newCall \in IdentityRequests \cup {Free}
  BY DEF IdentityRequests
<1>c. idCalls'[c] = newCall /\ idCalls' \in [IdentityCalls -> IdentityRequests \cup {Free}]
      /\ \A d \in IdentityCalls \ {c} : idCalls'[d].at = idCalls[d].at /\
         idCalls'[d].kind = idCalls[d].kind
  BY <1>0, <1>a, <1>b, GoesEffect
<1>1. IdTypes'
  <2>1. \A d \in IdentityCalls : idCalls'[d].at = "write" => idCalls'[d].kind \in {"activate", "delete"}
    BY <1>0, <1>c, FreeIsFree DEF IdTypes
  <2>2. personaRows' \in [Personas -> {"new", "idle", "active", "deleted"}] /\
        chosen' \subseteq Personas
        /\ UNCHANGED <<cached, shown, crossedOver>>
    BY <1>0 DEF CreateIdentity, IdTypes, IdentityTypeOK
  <2> QED
    BY <1>0, <1>c, <2>1, <2>2 DEF IdTypes, IdentityTypeOK
<1>2. ActivationIsExclusive'
  <2>1. /\ \A q \in Personas \ {p} : personaRows'[q] = personaRows[q]
        /\ personaRows'[p] = IF makeActive THEN "active" ELSE "idle"
        /\ chosen' = IF makeActive THEN chosen \cup {p} ELSE chosen
    BY <1>0 DEF CreateIdentity, IdTypes, IdentityTypeOK
  <2> QED
    BY <1>0, <2>1 DEF ActivationIsExclusive, ActiveRows
<1>k. KnowsRows(c)'
  <2>1. personaRows'[p] = IF makeActive THEN "active" ELSE "idle"
    BY <1>0 DEF CreateIdentity, IdTypes, IdentityTypeOK
  <2> QED
    BY <1>c, <2>1 DEF KnowsRows, AtWrite, AtApply, ActiveRows
<1>3. \A d \in IdentityCalls : KnowsRows(d)'
  BY <1>0, <1>a, <1>b, <1>k, OthersKnowNothing
<1>n. NothingCrossed' => \A d \in IdentityCalls \ {c} : idCalls[d].at # "apply" /\
      idCalls'[d].at # "apply"
  BY <1>0, <1>a, <1>b, <1>k, OthersKnowNothing
<1>4. RowsAndMemory'
  <2>1. SUFFICES ASSUME NothingCrossed'
                 PROVE  /\ (\A d \in IdentityCalls : ~InFlight(d)') => MemoryAgrees'
                        /\ \A d \in IdentityCalls : ~AtApply(d, "delete")'
    BY DEF RowsAndMemory
  <2>2. \A d \in IdentityCalls : ~AtApply(d, "delete")'
    BY <1>c, <1>n, <2>1 DEF AtApply
  <2>3. idCalls[c] = Free /\ personaRows[p] = "new" /\ UNCHANGED <<cached, shown, crossedOver>>
    BY DEF CreateIdentity
  <2>4. MemoryAgrees
    <3>1. \A d \in IdentityCalls : idCalls[d].at # "apply"
      BY <1>n, <2>1, <2>3, FreeIsFree
    <3> QED
      BY <1>0, <2>1, <2>3, <3>1 DEF RowsAndMemory, NothingCrossed, InFlight, AtApply
  <2>5. ASSUME \A d \in IdentityCalls : ~InFlight(d)'
        PROVE  MemoryAgrees'
    <3>1. ~makeActive
      BY <1>c, <2>5 DEF InFlight, AtApply
    <3>2. personaRows'[p] = "idle" /\ \A q \in Personas \ {p} : personaRows'[q] = personaRows[q]
      BY <1>0, <3>1 DEF CreateIdentity, IdTypes, IdentityTypeOK
    <3>3. ActiveRows' = ActiveRows
      BY <2>3, <3>2 DEF ActiveRows
    <3> QED
      BY <2>3, <2>4, <3>3 DEF MemoryAgrees, SeveralActive
  <2> QED
    BY <2>2, <2>5
<1> QED
  BY <1>1, <1>2, <1>3, <1>4 DEF IdInv

\* ... a commit, which makes one row active and no other ...
LEMMA WriteKeeps ==
    ASSUME IdInv, NEW c \in IdentityCalls, WriteIdentity(c)
    PROVE  IdInv'
<1> USE IdentityAssumption
<1>0. IdTypes /\ ActivationIsExclusive /\ (\A d \in IdentityCalls : KnowsRows(d)) /\ RowsAndMemory
  BY DEF IdInv
<1>w. /\ idCalls[c].at = "write" /\ idCalls[c].kind \in {"activate", "delete"} /\
         idCalls[c] \in IdentityRequests
      /\ idCalls[c].id \in Personas
  BY <1>0, FreeIsFree DEF WriteIdentity, IdTypes
<1> DEFINE newCall == [idCalls[c] EXCEPT !.at = "apply"]
<1>a. IdGoes(c, newCall)
  BY DEF WriteIdentity
<1>b. newCall \in IdentityRequests \cup {Free}
  BY <1>0, <1>w DEF IdTypes, IdentityRequests
<1>c. idCalls'[c] = newCall /\ idCalls' \in [IdentityCalls -> IdentityRequests \cup {Free}]
      /\ \A d \in IdentityCalls \ {c} : idCalls'[d].at = idCalls[d].at /\
         idCalls'[d].kind = idCalls[d].kind
  BY <1>0, <1>a, <1>b, GoesEffect
<1>e. /\ idCalls'[c].at = "apply" /\ idCalls'[c].kind = idCalls[c].kind /\
         idCalls'[c].id = idCalls[c].id
      /\ idCalls'[c].crossed = idCalls[c].crossed
  BY <1>c, <1>w DEF IdentityRequests
<1>1. IdTypes'
  <2>1. \A d \in IdentityCalls : idCalls'[d].at = "write" => idCalls'[d].kind \in {"activate", "delete"}
    BY <1>0, <1>c, <1>e, FreeIsFree DEF IdTypes
  <2>2. personaRows' \in [Personas -> {"new", "idle", "active", "deleted"}] /\
        chosen' \subseteq Personas
        /\ UNCHANGED <<cached, shown, crossedOver>>
    BY <1>0, <1>w DEF WriteIdentity, ActivateRows, IdTypes, IdentityTypeOK
  <2> QED
    BY <1>0, <1>c, <2>1, <2>2 DEF IdTypes, IdentityTypeOK
<1>2. ActivationIsExclusive'
  <2>1. CASE idCalls[c].kind = "activate"
    <3>1. personaRows' = ActivateRows(idCalls[c].id) /\ chosen' = {idCalls[c].id}
      BY <2>1 DEF WriteIdentity
    <3> QED
      BY <3>1 DEF ActivationIsExclusive, ActiveRows, ActivateRows, Stored
  <2>2. CASE idCalls[c].kind = "delete"
    <3>1. personaRows' = [personaRows EXCEPT ![idCalls[c].id] = "deleted"] /\ chosen' = chosen
      BY <2>2 DEF WriteIdentity
    <3> QED
      BY <1>0, <3>1 DEF ActivationIsExclusive, ActiveRows, IdTypes, IdentityTypeOK
  <2> QED
    BY <1>w, <2>1, <2>2
<1>k. KnowsRows(c)'
  <2>1. CASE idCalls[c].kind = "activate" /\ ~idCalls[c].crossed
    <3>1. personaRows' = ActivateRows(idCalls[c].id) /\ idCalls[c].id \in Stored
      BY <1>0, <1>w, <2>1 DEF WriteIdentity, KnowsRows, AtWrite
    <3>2. ActiveRows' = {idCalls[c].id}
      BY <3>1 DEF ActiveRows, ActivateRows, Stored
    <3> QED
      BY <1>e, <2>1, <3>2 DEF KnowsRows, AtWrite, AtApply
  <2>2. CASE idCalls[c].kind = "delete" \/ idCalls[c].crossed
    BY <1>e, <2>2 DEF KnowsRows, AtWrite, AtApply
  <2> QED
    BY <1>w, <2>1, <2>2
<1>3. \A d \in IdentityCalls : KnowsRows(d)'
  BY <1>0, <1>a, <1>b, <1>k, OthersKnowNothing
<1>n. NothingCrossed' => \A d \in IdentityCalls \ {c} : idCalls[d].at # "apply" /\
      idCalls'[d].at # "apply"
  BY <1>0, <1>a, <1>b, <1>k, OthersKnowNothing
<1>4. RowsAndMemory'
  <2>1. SUFFICES ASSUME NothingCrossed'
                 PROVE  /\ (\A d \in IdentityCalls : ~InFlight(d)') => MemoryAgrees'
                        /\ \A d \in IdentityCalls : AtApply(d, "delete")' => AgreesBut(idCalls[d].id)'
    BY DEF RowsAndMemory
  <2>2. \A d \in IdentityCalls : idCalls[d].at # "apply"
    BY <1>n, <1>w, <2>1
  <2>3. UNCHANGED <<cached, shown, crossedOver>>
    BY DEF WriteIdentity
  <2>4. MemoryAgrees
    BY <1>0, <2>1, <2>2, <2>3 DEF RowsAndMemory, NothingCrossed, InFlight, AtApply
  <2>5. InFlight(c)'
    BY <1>e, <1>w DEF InFlight, AtApply
  <2>6. ASSUME NEW d \in IdentityCalls, AtApply(d, "delete")'
        PROVE  AgreesBut(idCalls[d].id)'
    <3>1. d = c
      BY <1>n, <2>1, <2>6 DEF AtApply
    <3>2. personaRows' = [personaRows EXCEPT ![idCalls[c].id] = "deleted"]
      BY <1>e, <2>6, <3>1 DEF WriteIdentity, AtApply
    <3> DEFINE i == idCalls[c].id
    <3>3. ActiveRows' = ActiveRows \ {i}
      BY <1>0, <3>2 DEF ActiveRows, IdTypes, IdentityTypeOK
    <3>4. idCalls'[d].id = i
      BY <1>e, <3>1
    <3> HIDE DEF i
    <3>5. /\ \A q, s \in ActiveRows : q = s
          /\ cached # NoPersona => cached \in ActiveRows /\ shown \in {cached, NoPersona}
          /\ shown \in Personas => shown = cached
          /\ shown = DefaultPersona => cached = NoPersona /\ ActiveRows = {}
      BY <2>4 DEF MemoryAgrees, SeveralActive
    <3>6. /\ \A q, s \in ActiveRows' : q = s
          /\ i \notin ActiveRows'
          /\ cached = i => ActiveRows' = {}
          /\ cached # NoPersona /\ cached # i => cached \in ActiveRows'
      BY <1>w, <3>3, <3>5 DEF i
    <3>7. cached' = cached /\ shown' = shown /\ (shown = DefaultPersona => ActiveRows' = {})
      BY <2>3, <3>3, <3>5
    <3> QED
      BY <3>4, <3>5, <3>6, <3>7 DEF AgreesBut, SeveralActive
  <2> QED
    BY <2>5, <2>6
<1> QED
  BY <1>1, <1>2, <1>3, <1>4 DEF IdInv

\* ... bringing an activation to memory ...
LEMMA ActivationKeeps ==
    ASSUME IdInv, NEW c \in IdentityCalls, ApplyActivation(c)
    PROVE  IdInv'
<1> USE IdentityAssumption
<1>0. IdTypes /\ ActivationIsExclusive /\ (\A d \in IdentityCalls : KnowsRows(d)) /\ RowsAndMemory
  BY DEF IdInv
<1>r. idCalls[c].at = "apply" /\ idCalls[c] \in IdentityRequests /\ idCalls[c].id \in Personas
  BY <1>0, FreeIsFree DEF ApplyActivation, Created, IdTypes
<1> DEFINE newCall == Free
<1>a. IdGoes(c, newCall)
  BY DEF ApplyActivation
<1>b. newCall \in IdentityRequests \cup {Free}
  OBVIOUS
<1>c. idCalls'[c] = newCall /\ idCalls' \in [IdentityCalls -> IdentityRequests \cup {Free}]
      /\ \A d \in IdentityCalls \ {c} : idCalls'[d].at = idCalls[d].at /\
         idCalls'[d].kind = idCalls[d].kind
  BY <1>0, <1>a, <1>b, GoesEffect
<1>1. IdTypes'
  <2>1. \A d \in IdentityCalls : idCalls'[d].at = "write" => idCalls'[d].kind \in {"activate", "delete"}
    BY <1>0, <1>c, FreeIsFree DEF IdTypes
  <2>2. crossedOver' \in BOOLEAN
    BY <1>0, <1>r
       DEF ApplyActivation, Blurs, SeveralActive, IdTypes, IdentityTypeOK, IdentityRequests
  <2>3. cached' \in Personas \cup {NoPersona} /\
        shown' \in Personas \cup {NoPersona, DefaultPersona} /\ UNCHANGED <<personaRows, chosen>>
    BY <1>0, <1>r DEF ApplyActivation, ApplySideEffects, IdTypes, IdentityTypeOK
  <2> QED
    BY <1>0, <1>c, <2>1, <2>2, <2>3 DEF IdTypes, IdentityTypeOK
<1>2. ActivationIsExclusive'
  BY <1>0 DEF ActivationIsExclusive, ActiveRows, ApplyActivation
<1>k. KnowsRows(c)'
  BY <1>c, FreeIsFree DEF KnowsRows, AtWrite, AtApply
<1>3. \A d \in IdentityCalls : KnowsRows(d)'
  BY <1>0, <1>a, <1>b, <1>k, OthersKnowNothing
<1>n. NothingCrossed' => \A d \in IdentityCalls \ {c} : idCalls[d].at # "apply" /\
      idCalls'[d].at # "apply"
  BY <1>0, <1>a, <1>b, <1>k, OthersKnowNothing
<1>4. RowsAndMemory'
  <2>1. SUFFICES ASSUME NothingCrossed'
                 PROVE  MemoryAgrees' /\ \A d \in IdentityCalls : ~AtApply(d, "delete")'
    BY DEF RowsAndMemory
  <2>2. \A d \in IdentityCalls : idCalls'[d].at # "apply"
    BY <1>c, <1>n, <2>1, FreeIsFree
  <2>3. ActiveRows' = ActiveRows
    BY DEF ApplyActivation, ActiveRows
  <2>4. MemoryAgrees'
    <3>1. cached' = idCalls[c].id /\ shown' = idCalls[c].id /\ ~idCalls[c].crossed /\
          AtApply(c, "activate")
      BY <2>1 DEF ApplyActivation, ApplySideEffects, NothingCrossed, AtApply
    <3>2. ActiveRows = {idCalls[c].id}
      BY <1>0, <3>1 DEF KnowsRows
    <3> QED
      BY <1>r, <2>3, <3>1, <3>2 DEF MemoryAgrees, SeveralActive
  <2> QED
    BY <2>2, <2>4 DEF AtApply
<1> QED
  BY <1>1, <1>2, <1>3, <1>4 DEF IdInv

\* ... a creation ...
LEMMA CreationKeeps ==
    ASSUME IdInv, NEW c \in IdentityCalls, ApplyCreation(c)
    PROVE  IdInv'
<1> USE IdentityAssumption
<1>0. IdTypes /\ ActivationIsExclusive /\ (\A d \in IdentityCalls : KnowsRows(d)) /\ RowsAndMemory
  BY DEF IdInv
<1>r. idCalls[c].at = "apply" /\ idCalls[c] \in IdentityRequests /\ idCalls[c].id \in Personas
  BY <1>0, FreeIsFree DEF ApplyCreation, Created, IdTypes
<1> DEFINE newCall == Free
<1>a. IdGoes(c, newCall)
  BY DEF ApplyCreation
<1>b. newCall \in IdentityRequests \cup {Free}
  OBVIOUS
<1>c. idCalls'[c] = newCall /\ idCalls' \in [IdentityCalls -> IdentityRequests \cup {Free}]
      /\ \A d \in IdentityCalls \ {c} : idCalls'[d].at = idCalls[d].at /\
         idCalls'[d].kind = idCalls[d].kind
  BY <1>0, <1>a, <1>b, GoesEffect
<1>1. IdTypes'
  <2>1. \A d \in IdentityCalls : idCalls'[d].at = "write" => idCalls'[d].kind \in {"activate", "delete"}
    BY <1>0, <1>c, FreeIsFree DEF IdTypes
  <2>2. crossedOver' \in BOOLEAN
    BY <1>0, <1>r DEF ApplyCreation, Blurs, SeveralActive, IdTypes, IdentityTypeOK, IdentityRequests
  <2>3. cached' \in Personas \cup {NoPersona} /\
        shown' \in Personas \cup {NoPersona, DefaultPersona} /\ UNCHANGED <<personaRows, chosen>>
    BY <1>0, <1>r DEF ApplyCreation, ApplySideEffects, IdTypes, IdentityTypeOK
  <2> QED
    BY <1>0, <1>c, <2>1, <2>2, <2>3 DEF IdTypes, IdentityTypeOK
<1>2. ActivationIsExclusive'
  BY <1>0 DEF ActivationIsExclusive, ActiveRows, ApplyCreation
<1>k. KnowsRows(c)'
  BY <1>c, FreeIsFree DEF KnowsRows, AtWrite, AtApply
<1>3. \A d \in IdentityCalls : KnowsRows(d)'
  BY <1>0, <1>a, <1>b, <1>k, OthersKnowNothing
<1>n. NothingCrossed' => \A d \in IdentityCalls \ {c} : idCalls[d].at # "apply" /\
      idCalls'[d].at # "apply"
  BY <1>0, <1>a, <1>b, <1>k, OthersKnowNothing
<1>4. RowsAndMemory'
  <2>1. SUFFICES ASSUME NothingCrossed'
                 PROVE  MemoryAgrees' /\ \A d \in IdentityCalls : ~AtApply(d, "delete")'
    BY DEF RowsAndMemory
  <2>2. \A d \in IdentityCalls : idCalls'[d].at # "apply"
    BY <1>c, <1>n, <2>1, FreeIsFree
  <2>3. ActiveRows' = ActiveRows
    BY DEF ApplyCreation, ActiveRows
  <2>4. MemoryAgrees'
    <3>0. NothingCrossed /\ ~idCalls[c].crossed /\ ~SeveralActive
      <4>1. ~crossedOver /\ ~idCalls[c].crossed /\ ~SeveralActive
        BY <2>1 DEF ApplyCreation, Blurs, NothingCrossed
      <4> QED
        BY <1>n, <2>1, <4>1 DEF NothingCrossed
    <3>1. CASE idCalls[c].kind = "createActive"
      <4>1. cached' = idCalls[c].id /\ shown' = idCalls[c].id
        BY <3>1 DEF ApplyCreation, ApplySideEffects
      <4>2. idCalls[c].id \in ActiveRows
        BY <1>0, <1>r, <3>0, <3>1 DEF KnowsRows, AtApply
      <4> QED
        BY <1>r, <2>3, <3>0, <4>1, <4>2 DEF MemoryAgrees, SeveralActive
    <3>2. CASE idCalls[c].kind # "createActive"
      <4>1. UNCHANGED <<cached, shown>> /\ idCalls[c].kind = "create"
        BY <3>2 DEF ApplyCreation, Created
      <4>2. \A d \in IdentityCalls : ~InFlight(d)
        BY <1>n, <2>1, <4>1 DEF InFlight, AtApply
      <4>3. MemoryAgrees
        BY <1>0, <3>0, <4>2 DEF RowsAndMemory
      <4> QED
        BY <2>3, <4>1, <4>3 DEF MemoryAgrees, SeveralActive
    <3> QED
      BY <3>1, <3>2
  <2> QED
    BY <2>2, <2>4 DEF AtApply
<1> QED
  BY <1>1, <1>2, <1>3, <1>4 DEF IdInv

\* ... a deletion ...
LEMMA DeletionKeeps ==
    ASSUME IdInv, NEW c \in IdentityCalls, ApplyDeletion(c)
    PROVE  IdInv'
<1> USE IdentityAssumption
<1>0. IdTypes /\ ActivationIsExclusive /\ (\A d \in IdentityCalls : KnowsRows(d)) /\ RowsAndMemory
  BY DEF IdInv
<1>r. idCalls[c].at = "apply" /\ idCalls[c] \in IdentityRequests /\ idCalls[c].id \in Personas
  BY <1>0, FreeIsFree DEF ApplyDeletion, Created, IdTypes
<1> DEFINE newCall == Free
<1>a. IdGoes(c, newCall)
  BY DEF ApplyDeletion
<1>b. newCall \in IdentityRequests \cup {Free}
  OBVIOUS
<1>c. idCalls'[c] = newCall /\ idCalls' \in [IdentityCalls -> IdentityRequests \cup {Free}]
      /\ \A d \in IdentityCalls \ {c} : idCalls'[d].at = idCalls[d].at /\
         idCalls'[d].kind = idCalls[d].kind
  BY <1>0, <1>a, <1>b, GoesEffect
<1>1. IdTypes'
  <2>1. \A d \in IdentityCalls : idCalls'[d].at = "write" => idCalls'[d].kind \in {"activate", "delete"}
    BY <1>0, <1>c, FreeIsFree DEF IdTypes
  <2>2. crossedOver' \in BOOLEAN
    BY <1>0, <1>r DEF ApplyDeletion, Blurs, SeveralActive, IdTypes, IdentityTypeOK, IdentityRequests
  <2>3. cached' \in Personas \cup {NoPersona} /\
        shown' \in Personas \cup {NoPersona, DefaultPersona} /\ UNCHANGED <<personaRows, chosen>>
    BY <1>0, <1>r DEF ApplyDeletion, ApplySideEffects, IdTypes, IdentityTypeOK
  <2> QED
    BY <1>0, <1>c, <2>1, <2>2, <2>3 DEF IdTypes, IdentityTypeOK
<1>2. ActivationIsExclusive'
  BY <1>0 DEF ActivationIsExclusive, ActiveRows, ApplyDeletion
<1>k. KnowsRows(c)'
  BY <1>c, FreeIsFree DEF KnowsRows, AtWrite, AtApply
<1>3. \A d \in IdentityCalls : KnowsRows(d)'
  BY <1>0, <1>a, <1>b, <1>k, OthersKnowNothing
<1>n. NothingCrossed' => \A d \in IdentityCalls \ {c} : idCalls[d].at # "apply" /\
      idCalls'[d].at # "apply"
  BY <1>0, <1>a, <1>b, <1>k, OthersKnowNothing
<1>4. RowsAndMemory'
  <2>1. SUFFICES ASSUME NothingCrossed'
                 PROVE  MemoryAgrees' /\ \A d \in IdentityCalls : ~AtApply(d, "delete")'
    BY DEF RowsAndMemory
  <2>2. \A d \in IdentityCalls : idCalls'[d].at # "apply"
    BY <1>c, <1>n, <2>1, FreeIsFree
  <2>3. ActiveRows' = ActiveRows
    BY DEF ApplyDeletion, ActiveRows
  <2>4. MemoryAgrees'
    <3>0. NothingCrossed /\ ~idCalls[c].crossed /\ ~SeveralActive
      <4>1. ~crossedOver /\ ~idCalls[c].crossed /\ ~SeveralActive
        BY <2>1 DEF ApplyDeletion, Blurs, NothingCrossed
      <4> QED
        BY <1>n, <2>1, <4>1 DEF NothingCrossed
    <3>1. AgreesBut(idCalls[c].id)
      <4>1. AtApply(c, "delete")
        BY DEF ApplyDeletion, AtApply
      <4> QED
        BY <1>0, <3>0, <4>1 DEF RowsAndMemory
    <3>2. CASE cached = idCalls[c].id
      <4>1. cached' = NoPersona /\ shown' = DefaultPersona
        BY <3>2 DEF ApplyDeletion, ApplySideEffects
      <4>2. ActiveRows' = {}
        BY <2>3, <3>1, <3>2 DEF AgreesBut
      <4> QED
        BY <4>1, <4>2 DEF MemoryAgrees, SeveralActive
    <3>3. CASE cached # idCalls[c].id
      <4>1. UNCHANGED <<cached, shown>>
        BY <3>3 DEF ApplyDeletion
      <4> QED
        BY <2>3, <3>1, <3>3, <4>1 DEF AgreesBut, MemoryAgrees, SeveralActive
    <3> QED
      BY <3>2, <3>3
  <2> QED
    BY <2>2, <2>4 DEF AtApply
<1> QED
  BY <1>1, <1>2, <1>3, <1>4 DEF IdInv

\* ... what was read ...
LEMMA ReadKeeps ==
    ASSUME IdInv, NEW c \in IdentityCalls, ApplyRead(c)
    PROVE  IdInv'
<1> USE IdentityAssumption
<1>0. IdTypes /\ ActivationIsExclusive /\ (\A d \in IdentityCalls : KnowsRows(d)) /\ RowsAndMemory
  BY DEF IdInv
<1>r. idCalls[c].at = "apply" /\ idCalls[c] \in IdentityRequests /\ idCalls[c].id \in Personas
  BY <1>0, FreeIsFree DEF ApplyRead, Created, IdTypes
<1> DEFINE newCall == Free
<1>a. IdGoes(c, newCall)
  BY DEF ApplyRead
<1>b. newCall \in IdentityRequests \cup {Free}
  OBVIOUS
<1>c. idCalls'[c] = newCall /\ idCalls' \in [IdentityCalls -> IdentityRequests \cup {Free}]
      /\ \A d \in IdentityCalls \ {c} : idCalls'[d].at = idCalls[d].at /\
         idCalls'[d].kind = idCalls[d].kind
  BY <1>0, <1>a, <1>b, GoesEffect
<1>1. IdTypes'
  <2>1. \A d \in IdentityCalls : idCalls'[d].at = "write" => idCalls'[d].kind \in {"activate", "delete"}
    BY <1>0, <1>c, FreeIsFree DEF IdTypes
  <2>2. crossedOver' \in BOOLEAN
    BY <1>0, <1>r DEF ApplyRead, Blurs, SeveralActive, IdTypes, IdentityTypeOK, IdentityRequests
  <2>3. cached' \in Personas \cup {NoPersona} /\
        shown' \in Personas \cup {NoPersona, DefaultPersona} /\ UNCHANGED <<personaRows, chosen>>
    BY <1>0, <1>r DEF ApplyRead, ApplySideEffects, IdTypes, IdentityTypeOK
  <2> QED
    BY <1>0, <1>c, <2>1, <2>2, <2>3 DEF IdTypes, IdentityTypeOK
<1>2. ActivationIsExclusive'
  BY <1>0 DEF ActivationIsExclusive, ActiveRows, ApplyRead
<1>k. KnowsRows(c)'
  BY <1>c, FreeIsFree DEF KnowsRows, AtWrite, AtApply
<1>3. \A d \in IdentityCalls : KnowsRows(d)'
  BY <1>0, <1>a, <1>b, <1>k, OthersKnowNothing
<1>n. NothingCrossed' => \A d \in IdentityCalls \ {c} : idCalls[d].at # "apply" /\
      idCalls'[d].at # "apply"
  BY <1>0, <1>a, <1>b, <1>k, OthersKnowNothing
<1>4. RowsAndMemory'
  <2>1. SUFFICES ASSUME NothingCrossed'
                 PROVE  MemoryAgrees' /\ \A d \in IdentityCalls : ~AtApply(d, "delete")'
    BY DEF RowsAndMemory
  <2>2. \A d \in IdentityCalls : idCalls'[d].at # "apply"
    BY <1>c, <1>n, <2>1, FreeIsFree
  <2>3. ActiveRows' = ActiveRows
    BY DEF ApplyRead, ActiveRows
  <2>4. MemoryAgrees'
    <3>0. NothingCrossed /\ ~idCalls[c].crossed /\ ~SeveralActive
      <4>1. ~crossedOver /\ ~idCalls[c].crossed /\ ~SeveralActive
        BY <2>1 DEF ApplyRead, Blurs, NothingCrossed
      <4> QED
        BY <1>n, <2>1, <4>1 DEF NothingCrossed
    <3>1. cached' = idCalls[c].id /\ shown' = shown /\ AtApply(c, "get")
      BY DEF ApplyRead, AtApply
    <3>2. idCalls[c].id \in ActiveRows /\ cached = NoPersona
      BY <1>0, <3>0, <3>1 DEF KnowsRows
    <3>3. \A d \in IdentityCalls : ~InFlight(d)
      BY <1>n, <2>1, <3>1 DEF InFlight, AtApply
    <3>4. MemoryAgrees
      BY <1>0, <3>0, <3>3 DEF RowsAndMemory
    <3>5. shown = NoPersona
      <4>1. shown \in Personas \cup {NoPersona, DefaultPersona}
        BY <1>0 DEF IdTypes, IdentityTypeOK
      <4>2. shown \notin Personas
        BY <3>2, <3>4 DEF MemoryAgrees
      <4>3. shown # DefaultPersona
        BY <3>2, <3>4 DEF MemoryAgrees
      <4> QED
        BY <4>1, <4>2, <4>3
    <3> QED
      BY <1>r, <2>3, <3>0, <3>1, <3>2, <3>5 DEF MemoryAgrees, SeveralActive
  <2> QED
    BY <2>2, <2>4 DEF AtApply
<1> QED
  BY <1>1, <1>2, <1>3, <1>4 DEF IdInv

\* ... and a failure to publish.
LEMMA PublishFailsKeeps ==
    ASSUME IdInv, NEW c \in IdentityCalls, PublishFails(c)
    PROVE  IdInv'
<1> USE IdentityAssumption
<1>0. IdTypes /\ ActivationIsExclusive /\ (\A d \in IdentityCalls : KnowsRows(d)) /\ RowsAndMemory
  BY DEF IdInv
<1>r. idCalls[c].at = "apply" /\ idCalls[c] \in IdentityRequests /\ idCalls[c].id \in Personas
  BY <1>0, FreeIsFree DEF PublishFails, Created, IdTypes
<1> DEFINE newCall == Free
<1>a. IdGoes(c, newCall)
  BY DEF PublishFails
<1>b. newCall \in IdentityRequests \cup {Free}
  OBVIOUS
<1>c. idCalls'[c] = newCall /\ idCalls' \in [IdentityCalls -> IdentityRequests \cup {Free}]
      /\ \A d \in IdentityCalls \ {c} : idCalls'[d].at = idCalls[d].at /\
         idCalls'[d].kind = idCalls[d].kind
  BY <1>0, <1>a, <1>b, GoesEffect
<1>1. IdTypes'
  <2>1. \A d \in IdentityCalls : idCalls'[d].at = "write" => idCalls'[d].kind \in {"activate", "delete"}
    BY <1>0, <1>c, FreeIsFree DEF IdTypes
  <2>2. crossedOver' \in BOOLEAN
    BY <1>0, <1>r DEF PublishFails, Blurs, SeveralActive, IdTypes, IdentityTypeOK, IdentityRequests
  <2>3. cached' \in Personas \cup {NoPersona} /\
        shown' \in Personas \cup {NoPersona, DefaultPersona} /\ UNCHANGED <<personaRows, chosen>>
    BY <1>0, <1>r DEF PublishFails, ApplySideEffects, IdTypes, IdentityTypeOK
  <2> QED
    BY <1>0, <1>c, <2>1, <2>2, <2>3 DEF IdTypes, IdentityTypeOK
<1>2. ActivationIsExclusive'
  BY <1>0 DEF ActivationIsExclusive, ActiveRows, PublishFails
<1>k. KnowsRows(c)'
  BY <1>c, FreeIsFree DEF KnowsRows, AtWrite, AtApply
<1>3. \A d \in IdentityCalls : KnowsRows(d)'
  BY <1>0, <1>a, <1>b, <1>k, OthersKnowNothing
<1>n. NothingCrossed' => \A d \in IdentityCalls \ {c} : idCalls[d].at # "apply" /\
      idCalls'[d].at # "apply"
  BY <1>0, <1>a, <1>b, <1>k, OthersKnowNothing
<1>4. RowsAndMemory'
  <2>1. SUFFICES ASSUME NothingCrossed'
                 PROVE  MemoryAgrees' /\ \A d \in IdentityCalls : ~AtApply(d, "delete")'
    BY DEF RowsAndMemory
  <2>2. \A d \in IdentityCalls : idCalls'[d].at # "apply"
    BY <1>c, <1>n, <2>1, FreeIsFree
  <2>3. ActiveRows' = ActiveRows
    BY DEF PublishFails, ActiveRows
  <2>4. MemoryAgrees'
    <3> QED
      BY <2>1 DEF PublishFails, NothingCrossed
  <2> QED
    BY <2>2, <2>4 DEF AtApply
<1> QED
  BY <1>1, <1>2, <1>3, <1>4 DEF IdInv

\* Empty tables and memory are in the invariant.
LEMMA IdStarts == ASSUME IdentityInit PROVE IdInv
<1> USE IdentityAssumption
<1>1. ActiveRows = {}
  BY DEF IdentityInit, ActiveRows
<1>2. \A c \in IdentityCalls : idCalls[c] = Free /\ idCalls[c].at = "idle"
  BY FreeIsFree DEF IdentityInit
<1>3. IdTypes
  BY <1>2 DEF IdentityInit, IdTypes, IdentityTypeOK
<1>4. ActivationIsExclusive
  BY <1>1 DEF ActivationIsExclusive
<1>5. \A c \in IdentityCalls : KnowsRows(c)
  BY <1>2 DEF KnowsRows, AtWrite, AtApply
<1>6. RowsAndMemory
  BY <1>1, <1>2 DEF IdentityInit, RowsAndMemory, MemoryAgrees, SeveralActive, AtApply
<1> QED
  BY <1>3, <1>4, <1>5, <1>6 DEF IdInv

\* Every step keeps it.
LEMMA IdStepKeeps == ASSUME IdInv, [IdentityNext]_identityVars PROVE IdInv'
<1>1. CASE UNCHANGED identityVars
  <2> USE <1>1 DEF identityVars
  <2>1. IdTypes'
    BY DEF IdInv, IdTypes, IdentityTypeOK
  <2>2. ActivationIsExclusive'
    BY DEF IdInv, ActivationIsExclusive, ActiveRows
  <2>3. \A c \in IdentityCalls : KnowsRows(c)'
    BY DEF IdInv, KnowsRows, AtWrite, AtApply, ActiveRows, Stored
  <2>4. NothingCrossed' = NothingCrossed /\ MemoryAgrees' = MemoryAgrees
    BY DEF NothingCrossed, MemoryAgrees, SeveralActive, ActiveRows
  <2>5. \A c \in IdentityCalls : InFlight(c)' = InFlight(c) /\
        (AtApply(c, "delete")' = AtApply(c, "delete"))
                                 /\ AgreesBut(idCalls[c].id)' = AgreesBut(idCalls[c].id)
    BY DEF InFlight, AtApply, AgreesBut, SeveralActive, ActiveRows
  <2>6. RowsAndMemory'
    BY <2>4, <2>5 DEF IdInv, RowsAndMemory
  <2> QED
    BY <2>1, <2>2, <2>3, <2>6 DEF IdInv
<1>2. CASE IdentityNext
  BY <1>2, InvalidateKeeps, RestartKeeps, GetKeeps, CreateKeeps, FindKeeps, WriteKeeps,
     WriteFailsKeeps, PublishFailsKeeps,
     ActivationKeeps, CreationKeeps, DeletionKeeps, ReadKeeps DEF IdentityNext
<1> QED
  BY <1>1, <1>2

\* The invariant is more than what IdentitiesSafe says.
LEMMA IdInvSafe == ASSUME IdInv PROVE IdentitiesSafe
<1>1. ASSUME AtRest, ~crossedOver
      PROVE  MemoryAgrees
  <2>1. \A c \in IdentityCalls : idCalls[c].at = "idle"
    BY <1>1, FreeIsFree DEF AtRest
  <2> QED
    BY <1>1, <2>1 DEF IdInv, RowsAndMemory, NothingCrossed, InFlight, AtApply
<1> QED
  BY <1>1 DEF IdInv, IdTypes, IdentitiesSafe, ServedIsStored, MemoryAgrees

-----------------------------------------------------------------------------
(* The records of workflow runs.                                           *)

\* The states that are reported.
ReportStates == {"RUNNING", "COMPLETED", "FAILED"}

\* A report, with what its handler has found: not looked yet, no record, or one.
Reporting == [state : ReportStates, row : {-1, 0, 1}]

\* What has been reported of a step or of the run, in order.
Reports(x) ==
    IF x = Run THEN CASE run = "accepted" -> <<>>
                      [] run = "completed" -> <<"RUNNING", "COMPLETED">>
                      [] OTHER -> <<"RUNNING">>
    ELSE CASE stepNow[x] \in {"waiting", "unbound"} -> <<>>
           [] stepNow[x] = "running" -> <<"RUNNING">>
           [] stepNow[x] = "completed" -> <<"RUNNING", "COMPLETED">>
           [] OTHER -> <<"RUNNING", "FAILED">>

\* The types, as far as the model's type invariant leaves them open.
RunTypes ==
    /\ refs \in [Steps -> SUBSET Steps] /\ wants \in [Steps -> {"result", "error"}]
    /\ run \in {"accepted", "running", "completed", "failed", "gone"} /\
       process \in {"up", "down", "again"}
    /\ stepNow \in [Steps -> {"waiting", "running", "gone"} \cup Ended]
    /\ unwritten \in [Things -> Seq(Reporting)] /\ stepRows \in [Things -> Seq(ReportStates)]
    /\ crossed \subseteq Things /\ written \subseteq Things

\* The plan of the run, and how far its steps can be.
PlanInv ==
    /\ process = "up" =>
         /\ run # "gone" /\ \A s \in Steps : stepNow[s] # "gone" /\ refs[s] \subseteq Earlier(uses, s)
         /\ run = "accepted" => \A s \in Steps : stepNow[s] = "waiting"
         /\ run = "completed" => \A s \in Steps : stepNow[s] \in {"completed", "excused"}
    /\ process # "up" => \A s \in Steps : stepNow[s] = "gone"

\* A report makes one record at most.
OneRecordInv ==
    \A x \in Things :
        /\ Len(stepRows[x]) + Len(unwritten[x]) <= IF process = "up" THEN Len(Reports(x)) ELSE 2
        /\ \A i \in 1 .. Len(unwritten[x]) : unwritten[x][i].row <= Len(stepRows[x])

\* The reports not written yet are the last ones, only the first of them has been looked at,
\* and the record shows the one before.
WrittenInOrder(x) ==
    LET done == Len(Reports(x)) - Len(unwritten[x])
    IN /\ \A i \in 1 .. Len(unwritten[x]) :
            /\ unwritten[x][i].state = Reports(x)[done + i]
            /\ unwritten[x][i].row = -1 \/ (i = 1 /\ unwritten[x][i].row = Len(stepRows[x]))
       /\ stepRows[x] = IF done = 0 THEN <<>> ELSE <<Reports(x)[done]>>
       /\ x \in written => done > 0 /\ Reports(x)[done] = "COMPLETED"

\* ... while the process is up and handlers do not cross.
ReportOrderInv == process = "up" => \A x \in Things \ crossed : WrittenInOrder(x)

\* What the process leaves behind.
LeftInv ==
    process = "down" => \A x \in Things :
        /\ unwritten[x] = <<>>
        /\ x \notin crossed =>
             /\ stepRows[x] \in {<<>>, <<"RUNNING">>, <<"COMPLETED">>, <<"FAILED">>}
             /\ x = Run => stepRows[x] # <<"FAILED">>
             /\ x \in written => stepRows[x] = <<"COMPLETED">>

\* What the recovery reports has been written already.
ResumedInv ==
    process = "again" => \A x \in Things : unwritten[x] # <<>> =>
        /\ Len(unwritten[x]) = 1 /\ unwritten[x][1].state = "FAILED" /\ unwritten[x][1].row \in {-1, 1}
        /\ stepRows[x] = <<"FAILED">>

\* The inductive invariant. That a record ends with the last report needs what each
\* report not written yet has found, and where the process was when it ended.
RunInv ==
    /\ RunTypes /\ PlanInv /\ OneRecordInv /\ ReportOrderInv /\ LeftInv /\ ResumedInv
    /\ VariablesAreThere /\ RecoveryIsRight
-----------------------------------------------------------------------------
\* A sequence without one of its elements.
LEMMA RemoveAtIs ==
    ASSUME NEW S, NEW s \in Seq(S), NEW i \in 1 .. Len(s)
    PROVE  /\ RemoveAt(s, i) \in Seq(S) /\ Len(RemoveAt(s, i)) = Len(s) - 1
           /\ \A j \in 1 .. Len(s) - 1 : RemoveAt(s, i)[j] = s[IF j < i THEN j ELSE j + 1]
<1> DEFINE n == Len(s)
           a == SubSeq(s, 1, i - 1)
           b == SubSeq(s, i + 1, n)
           t == a \o b
<1>1. n \in Nat /\ DOMAIN s = 1 .. n
  OBVIOUS
<1>2. i \in 1 .. n
  OBVIOUS
<1>3. \A j \in 1 .. n : s[j] \in S
  BY <1>1
<1>4. RemoveAt(s, i) = t
  BY DEF RemoveAt
<1> HIDE DEF n
<1>5. a \in Seq(S) /\ Len(a) = i - 1 /\ \A j \in 1 .. i - 1 : a[j] = s[j]
  <2>1. 1 \in Int /\ i - 1 \in Int /\ \A j \in 1 .. i - 1 : s[j] \in S
    BY <1>1, <1>2, <1>3
  <2>2. /\ a \in Seq(S) /\ Len(a) = IF 1 <= i - 1 THEN (i - 1) - 1 + 1 ELSE 0
        /\ \A j \in 1 .. (i - 1) - 1 + 1 : a[j] = s[1 + j - 1]
    BY <2>1, SubSeqProperties
  <2> HIDE DEF a
  <2> QED
    BY <1>1, <1>2, <2>2
<1>6. b \in Seq(S) /\ Len(b) = n - i /\ \A j \in 1 .. n - i : b[j] = s[i + j]
  <2>1. i + 1 \in Int /\ n \in Int /\ \A j \in i + 1 .. n : s[j] \in S
    BY <1>1, <1>2, <1>3
  <2>2. /\ b \in Seq(S) /\ Len(b) = IF i + 1 <= n THEN n - (i + 1) + 1 ELSE 0
        /\ \A j \in 1 .. n - (i + 1) + 1 : b[j] = s[(i + 1) + j - 1]
    BY <2>1, SubSeqProperties
  <2> HIDE DEF b
  <2>3. Len(b) = n - i
    BY <1>1, <1>2, <2>2
  <2>4. ASSUME NEW j \in 1 .. n - i
        PROVE  b[j] = s[i + j]
    <3>1. j \in 1 .. n - (i + 1) + 1 /\ (i + 1) + j - 1 = i + j
      BY <1>1, <1>2
    <3> QED
      BY <2>2, <3>1
  <2> QED
    BY <2>2, <2>3, <2>4
<1> HIDE DEF a, b
<1>7. /\ t \in Seq(S) /\ Len(t) = n - 1
      /\ \A j \in 1 .. n - 1 : t[j] = s[IF j < i THEN j ELSE j + 1]
  <2>1. /\ t \in Seq(S) /\ Len(t) = Len(a) + Len(b)
        /\ \A j \in 1 .. Len(a) + Len(b) : t[j] = IF j <= Len(a) THEN a[j] ELSE b[j - Len(a)]
    BY <1>5, <1>6, ConcatProperties
  <2>2. Len(a) + Len(b) = n - 1
    BY <1>1, <1>2, <1>5, <1>6
  <2>3. ASSUME NEW j \in 1 .. n - 1
        PROVE  t[j] = s[IF j < i THEN j ELSE j + 1]
    <3>1. CASE j < i
      <4>1. j \in 1 .. i - 1 /\ j <= Len(a)
        BY <1>1, <1>2, <1>5, <3>1
      <4> QED
        BY <1>5, <2>1, <2>2, <3>1, <4>1
    <3>2. CASE ~(j < i)
      <4>1. j - (i - 1) \in 1 .. n - i /\ ~(j <= Len(a)) /\ i + (j - (i - 1)) = j + 1
        BY <1>1, <1>2, <1>5, <3>2
      <4>2. t[j] = b[j - (i - 1)]
        BY <1>5, <2>1, <2>2, <4>1
      <4> QED
        BY <1>6, <3>2, <4>1, <4>2
    <3> QED
      BY <3>1, <3>2
  <2> QED
    BY <2>1, <2>2, <2>3
<1> QED
  BY <1>4, <1>7 DEF n

\* No more than two reports, the first of a beginning.
LEMMA ReportsAre ==
    ASSUME RunTypes, NEW x \in Things
    PROVE  /\ Reports(x) \in Seq(ReportStates) /\ Len(Reports(x)) \in 0 .. 2
           /\ Len(Reports(x)) > 0 => Reports(x)[1] = "RUNNING"
           /\ x = Run => Reports(x) \in {<<>>, <<"RUNNING">>, <<"RUNNING", "COMPLETED">>}
<1> DEFINE none == <<>>
           one == <<"RUNNING">>
           good == <<"RUNNING", "COMPLETED">>
           bad == <<"RUNNING", "FAILED">>
<1>1. Reports(x) \in {none, one, good, bad} /\ (x = Run => Reports(x) \in {none, one, good})
  BY DEF Reports
<1>2. none \in Seq(ReportStates) /\ Len(none) = 0
  OBVIOUS
<1>3. one \in Seq(ReportStates) /\ Len(one) = 1 /\ one[1] = "RUNNING"
  BY DEF ReportStates
<1>4. good \in Seq(ReportStates) /\ Len(good) = 2 /\ good[1] = "RUNNING"
  BY DEF ReportStates
<1>5. bad \in Seq(ReportStates) /\ Len(bad) = 2 /\ bad[1] = "RUNNING"
  BY DEF ReportStates
<1> HIDE DEF none, one, good, bad
<1>6. Reports(x) \in Seq(ReportStates) /\ Len(Reports(x)) \in 0 .. 2 /\ (Len(Reports(x)) > 0 =>
      Reports(x)[1] = "RUNNING")
  <2>1. CASE Reports(x) = none
    BY <2>1, <1>2
  <2>2. CASE Reports(x) = one
    BY <2>2, <1>3
  <2>3. CASE Reports(x) = good
    BY <2>3, <1>4
  <2>4. CASE Reports(x) = bad
    BY <2>4, <1>5
  <2> QED
    BY <1>1, <2>1, <2>2, <2>3, <2>4
<1> QED
  BY <1>1, <1>6 DEF none, one, good

\* A step keeps the types.
LEMMA RunTypesKept == ASSUME RunInv, [RunNext]_runVars PROVE RunTypes'
<1> USE DEF RunInv
<1>1. CASE UNCHANGED runVars
  BY <1>1 DEF RunTypes, runVars, planVars
<1>2. ASSUME NEW x \in Things, NEW st \in ReportStates, ReportStep(x, st)
      PROVE  unwritten' \in [Things -> Seq(Reporting)]
  <2>1. [state |-> st, row |-> -1] \in Reporting
    BY DEF Reporting
  <2>2. Append(unwritten[x], [state |-> st, row |-> -1]) \in Seq(Reporting)
    BY <2>1 DEF RunTypes
  <2> QED
    BY <1>2, <2>2 DEF ReportStep, RunTypes
<1>3. Run \in Things /\ Steps \subseteq Things /\ ReportStates = {"RUNNING", "COMPLETED", "FAILED"}
  BY DEF Things, ReportStates
<1>4. CASE StartRun \/ RunCompletes
  BY <1>2, <1>3, <1>4 DEF StartRun, RunCompletes, RunTypes, planVars
<1>5. ASSUME NEW s \in Steps, StartStep(s) \/ StepCompletes(s) \/ StepFails(s) PROVE RunTypes'
  BY <1>2, <1>3, <1>5
     DEF StartStep, BindAndStart, StepCompletes, StepFails, RunTypes, planVars, Ended
<1>6. CASE EndProcess
  BY <1>6 DEF EndProcess, RunTypes
<1>7. CASE ResumeAll
  <2> DEFINE m == [state |-> "FAILED", row |-> -1]
  <2>1. m \in Reporting /\ "FAILED" \in ReportStates
    BY DEF Reporting, ReportStates
  <2>2. <<m>> \in Seq(Reporting) /\ <<>> \in Seq(Reporting) /\ <<"FAILED">> \in Seq(ReportStates)
    BY <2>1
  <2> HIDE DEF m
  <2>3. unwritten' \in [Things -> Seq(Reporting)] /\ stepRows' \in [Things -> Seq(ReportStates)]
    BY <1>7, <2>2 DEF ResumeAll, RunTypes, m
  <2> QED
    BY <1>7, <2>3 DEF ResumeAll, RunTypes, planVars
<1>8. ASSUME NEW x \in Things, NEW i \in 1 .. 2, FindRecord(x, i) PROVE RunTypes'
  <2>1. i \in 1 .. Len(unwritten[x]) /\ unwritten[x] \in Seq(Reporting)
    BY <1>8 DEF FindRecord, RunTypes
  <2>2. RemoveAt(unwritten[x], i) \in Seq(Reporting)
    BY <2>1, RemoveAtIs
  <2>3. Len(stepRows[x]) <= 1 => [unwritten[x] EXCEPT ![i].row = Len(stepRows[x])] \in Seq(Reporting)
    <3> DEFINE w == unwritten[x][i]
    <3>1. w \in Reporting
      BY <2>1
    <3>2. Len(stepRows[x]) \in Nat
      BY DEF RunTypes
    <3>3. Len(stepRows[x]) <= 1 => [w EXCEPT !.row = Len(stepRows[x])] \in Reporting
      BY <3>1, <3>2 DEF Reporting
    <3> QED
      BY <2>1, <3>3
  <2>4. unwritten' \in [Things -> Seq(Reporting)]
    BY <1>8, <2>2, <2>3 DEF FindRecord, RunTypes
  <2> QED
    BY <1>8, <2>4 DEF FindRecord, RunTypes, planVars
<1>9. ASSUME NEW x \in Things, NEW i \in 1 .. 2, WriteRecord(x, i) PROVE RunTypes'
  <2>1. i \in 1 .. Len(unwritten[x]) /\ unwritten[x] \in Seq(Reporting) /\
        stepRows[x] \in Seq(ReportStates)
    BY <1>9 DEF WriteRecord, RunTypes
  <2>2. RemoveAt(unwritten[x], i) \in Seq(Reporting)
    BY <2>1, RemoveAtIs
  <2> DEFINE w == unwritten[x][i]
  <2>3. w.state \in ReportStates /\ w.row \in {-1, 0, 1} /\ w.row <= Len(stepRows[x])
    <3>1. w \in Reporting
      BY <2>1
    <3>2. w.row <= Len(stepRows[x])
      BY <2>1 DEF OneRecordInv
    <3> QED
      BY <3>1, <3>2 DEF Reporting
  <2>4. w.row # -1 => (IF w.row = 0 THEN Append(stepRows[x],
        w.state) ELSE [stepRows[x] EXCEPT ![w.row] = w.state]) \in Seq(ReportStates)
    BY <2>1, <2>3
  <2>5. stepRows' \in [Things -> Seq(ReportStates)] /\ written' \subseteq Things
    BY <1>9, <2>4 DEF WriteRecord, RunTypes
  <2> QED
    BY <1>9, <2>2, <2>5 DEF WriteRecord, RunTypes, planVars
<1> QED
  BY <1>1, <1>4, <1>5, <1>6, <1>7, <1>8, <1>9 DEF RunNext

\* Nothing of a step or of the run is reported, found or written.
LEMMA ThingRests ==
    ASSUME RunTypes, NEW x \in Things, WrittenInOrder(x), unwritten'[x] = unwritten[x],
           stepRows'[x] = stepRows[x],
           Reports(x)' = Reports(x), written' = written
    PROVE  WrittenInOrder(x)'
BY DEF WrittenInOrder

\* A report is sent.
LEMMA ReportKeeps ==
    ASSUME RunInv, RunTypes', process = "up", process' = "up", NEW x \in Things,
           NEW st \in ReportStates,
           ReportStep(x, st), Reports(x)' = Append(Reports(x), st),
           \A y \in Things : y # x => Reports(y)' = Reports(y),
           UNCHANGED <<stepRows, written, crossed>>
    PROVE  OneRecordInv' /\ ReportOrderInv'
<1> DEFINE r == Reports(x)
           q == unwritten[x]
           m == [state |-> st, row |-> -1]
           p == Append(q, m)
           t == Append(r, st)
<1>1. /\ unwritten'[x] = p /\ \A y \in Things : y # x => unwritten'[y] = unwritten[y]
  BY DEF ReportStep, RunInv, RunTypes
<1>2. r \in Seq(ReportStates) /\ q \in Seq(Reporting) /\ m \in Reporting /\ m.row = -1 /\
      m.state = st /\ stepRows[x] \in Seq(ReportStates)
  BY ReportsAre DEF RunInv, RunTypes, Reporting
<1>3. Reports(x)' = t
  OBVIOUS
<1> HIDE DEF m
<1>4. Len(p) = Len(q) + 1 /\ p[Len(q) + 1] = m /\ \A i \in 1 .. Len(q) : p[i] = q[i]
  BY <1>2
<1>5. Len(t) = Len(r) + 1 /\ t[Len(r) + 1] = st /\ \A i \in 1 .. Len(r) : t[i] = r[i]
  BY <1>2
<1>6. Len(q) \in Nat /\ Len(r) \in Nat /\ Len(stepRows[x]) \in Nat
  BY <1>2
<1>7. Len(stepRows[x]) + Len(q) <= Len(r) /\ \A i \in 1 .. Len(q) : q[i].row <= Len(stepRows[x])
  BY DEF RunInv, OneRecordInv
<1>8. x \notin crossed => WrittenInOrder(x)
  BY DEF RunInv, ReportOrderInv
<1> HIDE DEF p, t, r, q
<1>9. OneRecordInv'
  <2> SUFFICES ASSUME NEW y \in Things
               PROVE  /\ Len(stepRows'[y]) + Len(unwritten'[y]) <= Len(Reports(y)')
                      /\ \A i \in 1 .. Len(unwritten'[y]) : unwritten'[y][i].row <= Len(stepRows'[y])
    BY DEF OneRecordInv
  <2>1. CASE y = x
    <3>0. Len(p) = Len(q) + 1 /\ Len(t) = Len(r) + 1 /\ Len(stepRows[x]) + Len(q) <= Len(r)
      BY <1>4, <1>5, <1>7
    <3>01. \A a, b, c \in Nat : a + b <= c => a + (b + 1) <= c + 1
      OBVIOUS
    <3>1. Len(stepRows[x]) + Len(p) <= Len(t)
      BY <3>0, <3>01, <1>6, Zenon
    <3>2. ASSUME NEW i \in 1 .. Len(p) PROVE p[i].row <= Len(stepRows[x])
      BY <1>2, <1>4, <1>6, <1>7
    <3> QED
      BY <2>1, <3>1, <3>2, <1>1, <1>3
  <2>2. CASE y # x
    BY <2>2, <1>1 DEF RunInv, OneRecordInv
  <2> QED
    BY <2>1, <2>2
<1>10. ASSUME NEW y \in Things, y \notin crossed PROVE WrittenInOrder(y)'
  <2>1. CASE y = x
    <3> DEFINE done == Len(r) - Len(q)
    <3>1. /\ \A i \in 1 .. Len(q) :
               /\ q[i].state = r[done + i]
               /\ q[i].row = -1 \/ (i = 1 /\ q[i].row = Len(stepRows[x]))
          /\ stepRows[x] = IF done = 0 THEN <<>> ELSE <<r[done]>>
          /\ x \in written => done > 0 /\ r[done] = "COMPLETED"
      BY <1>8, <1>10, <2>1 DEF WrittenInOrder, r, q
    <3>2. done \in 0 .. Len(r) /\ Len(t) - Len(p) = done
      BY <1>4, <1>5, <1>6, <1>7
    <3>3. done > 0 => t[done] = r[done]
      BY <1>5, <3>2
    <3>4. ASSUME NEW i \in 1 .. Len(p)
          PROVE  /\ p[i].state = t[done + i]
                 /\ p[i].row = -1 \/ (i = 1 /\ p[i].row = Len(stepRows[x]))
      <4>1. CASE i = Len(q) + 1
        <5>1. done + i = Len(r) + 1
          BY <4>1, <1>6
        <5> QED
          BY <4>1, <5>1, <1>2, <1>4, <1>5
      <4>2. CASE i # Len(q) + 1
        <5>1. i \in 1 .. Len(q) /\ done + i \in 1 .. Len(r)
          BY <4>2, <1>4, <1>6, <3>2
        <5>2. p[i] = q[i] /\ t[done + i] = r[done + i]
          BY <5>1, <1>4, <1>5
        <5> QED
          BY <5>1, <5>2, <3>1
      <4> QED
        BY <4>1, <4>2
    <3>5. stepRows[x] = IF done = 0 THEN <<>> ELSE <<t[done]>>
      BY <3>1, <3>2, <3>3
    <3>6. x \in written => done > 0 /\ t[done] = "COMPLETED"
      BY <3>1, <3>3
    <3>7. stepRows'[x] = stepRows[x] /\ written' = written
      OBVIOUS
    <3> HIDE DEF done
    <3> QED
      BY <2>1, <1>1, <1>3, <3>2, <3>4, <3>5, <3>6, <3>7 DEF WrittenInOrder
  <2>2. CASE y # x
    <3>1. WrittenInOrder(y)
      BY <1>10 DEF RunInv, ReportOrderInv
    <3> QED
      BY <2>2, <3>1, <1>1, ThingRests DEF RunInv
  <2> QED
    BY <2>1, <2>2
<1> QED
  BY <1>9, <1>10 DEF ReportOrderInv

\* The recovery and what is left concern a process that has ended.
LEMMA UpIsEnough ==
    ASSUME process' = "up", RunTypes', PlanInv', OneRecordInv', ReportOrderInv',
           VariablesAreThere' PROVE RunInv'
BY DEF RunInv, LeftInv, ResumedInv, RecoveryIsRight

\* execute_workflow() begins.
LEMMA StartRunKeeps == ASSUME RunInv, RunTypes', StartRun PROVE RunInv'
<1>1. /\ process = "up" /\ process' = "up" /\ ReportStep(Run, "RUNNING") /\ Run \in Things /\
         "RUNNING" \in ReportStates
      /\ UNCHANGED <<stepRows, written, crossed, stepNow, refs, uses, wants>>
      /\ run = "accepted" /\ run' = "running"
  BY DEF StartRun, planVars, Things, ReportStates
<1>2. Reports(Run)' = Append(Reports(Run), "RUNNING") /\ \A y \in Things : y # Run =>
      Reports(y)' = Reports(y)
  BY <1>1 DEF Reports
<1>3. OneRecordInv' /\ ReportOrderInv'
  BY <1>1, <1>2, ReportKeeps
<1>4. PlanInv' /\ VariablesAreThere'
  BY <1>1 DEF RunInv, PlanInv, VariablesAreThere, Resolves
<1> QED
  BY <1>1, <1>3, <1>4, UpIsEnough

\* It ends well.
LEMMA RunCompletesKeeps == ASSUME RunInv, RunTypes', RunCompletes PROVE RunInv'
<1>1. /\ process = "up" /\ process' = "up" /\ ReportStep(Run, "COMPLETED") /\ Run \in Things /\
         "COMPLETED" \in ReportStates
      /\ UNCHANGED <<stepRows, written, crossed, stepNow, refs, uses, wants>>
      /\ run = "running" /\ run' = "completed"
      /\ \A s \in Steps : stepNow[s] \in {"completed", "excused"}
  BY DEF RunCompletes, planVars, Things, ReportStates
<1>2. Reports(Run)' = Append(Reports(Run), "COMPLETED") /\ \A y \in Things : y # Run =>
      Reports(y)' = Reports(y)
  BY <1>1 DEF Reports
<1>3. OneRecordInv' /\ ReportOrderInv'
  BY <1>1, <1>2, ReportKeeps
<1>4. PlanInv' /\ VariablesAreThere'
  BY <1>1 DEF RunInv, PlanInv, VariablesAreThere, Resolves
<1> QED
  BY <1>1, <1>3, <1>4, UpIsEnough

\* What is true of the variables of one step, of it and of the others.
VariablesOf(t) == stepNow[t] \notin {"waiting", "gone"} =>
    /\ \A r \in refs[t] : stepNow[r] \in {"completed", "excused"}
    /\ stepNow[t] # "unbound" => Resolves(t)
    /\ stepNow[t] = "unbound" => wants[t] = "error" \/ \E r \in refs[t] : stepNow[r] = "excused"

\* A step that had not ended goes on: nobody has its output yet.
LEMMA VariablesStay ==
    ASSUME RunInv, RunTypes', UNCHANGED <<refs, wants>>, NEW s \in Steps,
           stepNow[s] \in {"waiting", "running"},
           \A r \in Steps : r # s => stepNow'[r] = stepNow[r], VariablesOf(s)'
    PROVE  VariablesAreThere'
<1> SUFFICES ASSUME NEW t \in Steps PROVE VariablesOf(t)'
  BY DEF VariablesOf, VariablesAreThere
<1>1. CASE t = s
  BY <1>1
<1>2. CASE t # s
  <2>1. VariablesOf(t)
    BY DEF VariablesOf, VariablesAreThere, RunInv
  <2>2. stepNow'[t] = stepNow[t] /\ refs' = refs /\ wants' = wants /\ refs[t] \subseteq Steps
    BY <1>2 DEF RunInv, RunTypes
  <2> SUFFICES ASSUME stepNow[t] \notin {"waiting", "gone"}
               PROVE  /\ \A r \in refs[t] : stepNow'[r] \in {"completed", "excused"}
                      /\ stepNow[t] # "unbound" => Resolves(t)'
                      /\ stepNow[t] = "unbound" => wants[t] = "error" \/
                         \E r \in refs[t] : stepNow'[r] = "excused"
    BY <2>2 DEF VariablesOf
  <2>3. \A r \in refs[t] : stepNow[r] \in {"completed", "excused"}
    BY <2>1 DEF VariablesOf
  <2>4. \A r \in refs[t] : stepNow'[r] = stepNow[r]
    BY <2>2, <2>3
  <2>5. stepNow[t] # "unbound" => Resolves(t)'
    BY <2>1, <2>2, <2>4 DEF VariablesOf, Resolves
  <2> QED
    BY <2>1, <2>3, <2>4, <2>5 DEF VariablesOf
<1> QED
  BY <1>1, <1>2

\* Every step a name refers to has ended when the waves before have; the step runs
\* with its variables, or it is not reported.
LEMMA StartStepKeeps == ASSUME RunInv, RunTypes', NEW s \in Steps, StartStep(s) PROVE RunInv'
<1>1. /\ process = "up" /\ process' = "up" /\ s \in Things /\ s # Run /\ "RUNNING" \in ReportStates
      /\ UNCHANGED <<stepRows, written, crossed, refs, uses, wants>>
      /\ run \in {"running", "failed"} /\ stepNow[s] = "waiting"
  BY RunAssumption DEF StartStep, BindAndStart, planVars, Things, ReportStates
<1>2. \A r \in refs[s] : r \in Steps /\ r # s /\ stepNow[r] \in {"completed", "excused"}
  <2>1. refs[s] \subseteq Earlier(uses, s) /\ refs[s] \subseteq Steps
    BY <1>1 DEF RunInv, RunTypes, PlanInv
  <2>2. \A r \in Earlier(uses, s) : stepNow[r] \in {"completed", "excused"}
    BY DEF StartStep
  <2> QED
    BY <1>1, <2>1, <2>2
<1>3. CASE /\ Resolves(s) /\ stepNow' = [stepNow EXCEPT ![s] = "running"]
           /\ ReportStep(s, "RUNNING") /\ run' = run
  <2>1. stepNow'[s] = "running" /\ \A r \in Steps : r # s => stepNow'[r] = stepNow[r]
    BY <1>3 DEF RunInv, RunTypes
  <2>2. Reports(s)' = Append(Reports(s), "RUNNING") /\ \A y \in Things : y # s =>
        Reports(y)' = Reports(y)
    BY <1>1, <1>3, <2>1 DEF Reports, Things
  <2>3. OneRecordInv' /\ ReportOrderInv'
    BY <1>1, <1>3, <2>2, ReportKeeps
  <2>4. PlanInv'
    BY <1>1, <1>3, <2>1 DEF RunInv, PlanInv
  <2>5. VariablesOf(s)'
    BY <1>1, <1>2, <1>3, <2>1 DEF VariablesOf, Resolves
  <2>6. VariablesAreThere'
    BY <1>1, <2>1, <2>5, VariablesStay
  <2> QED
    BY <1>1, <2>3, <2>4, <2>6, UpIsEnough
<1>4. CASE /\ Misses(s) /\ stepNow' = [stepNow EXCEPT ![s] = "unbound"]
           /\ run' = "failed" /\ unwritten' = unwritten
  <2>1. stepNow'[s] = "unbound" /\ \A r \in Steps : r # s => stepNow'[r] = stepNow[r]
    BY <1>4 DEF RunInv, RunTypes
  <2>2. \A y \in Things : Reports(y)' = Reports(y)
    BY <1>1, <1>4, <2>1 DEF Reports, Things
  <2>3. OneRecordInv'
    BY <1>1, <1>4, <2>2 DEF RunInv, OneRecordInv
  <2>4. ReportOrderInv'
    BY <1>1, <1>4, <2>2, ThingRests DEF RunInv, ReportOrderInv
  <2>5. PlanInv'
    BY <1>1, <1>4, <2>1 DEF RunInv, PlanInv
  <2>6. wants[s] = "error" \/ \E r \in refs[s] : stepNow[r] = "excused"
    BY <1>2, <1>4 DEF Misses
  <2>7. VariablesOf(s)'
    BY <1>1, <1>2, <2>1, <2>6 DEF VariablesOf
  <2>8. VariablesAreThere'
    BY <1>1, <2>1, <2>7, VariablesStay
  <2> QED
    BY <1>1, <2>3, <2>4, <2>5, <2>8, UpIsEnough
<1> QED
  BY <1>3, <1>4 DEF StartStep, BindAndStart

\* A tool returns.
LEMMA StepCompletesKeeps == ASSUME RunInv, RunTypes', NEW s \in Steps, StepCompletes(s) PROVE RunInv'
<1>1. /\ process = "up" /\ process' = "up" /\ s \in Things /\ s # Run /\ "COMPLETED" \in ReportStates
      /\ UNCHANGED <<run, stepRows, written, crossed, refs, uses, wants>>
      /\ stepNow[s] = "running" /\ ReportStep(s, "COMPLETED")
      /\ stepNow'[s] = "completed" /\ \A r \in Steps : r # s => stepNow'[r] = stepNow[r]
  BY RunAssumption DEF StepCompletes, planVars, Things, ReportStates, RunInv, RunTypes
<1>2. Reports(s)' = Append(Reports(s), "COMPLETED") /\ \A y \in Things : y # s =>
      Reports(y)' = Reports(y)
  BY <1>1 DEF Reports, Things
<1>3. OneRecordInv' /\ ReportOrderInv'
  BY <1>1, <1>2, ReportKeeps
<1>4. PlanInv'
  BY <1>1 DEF RunInv, PlanInv
<1>5. VariablesOf(s)'
  <2>1. VariablesOf(s) /\ s \notin refs[s]
    BY <1>1 DEF VariablesOf, RunInv, VariablesAreThere
  <2> QED
    BY <1>1, <2>1 DEF VariablesOf, Resolves, RunInv, RunTypes
<1>6. VariablesAreThere'
  BY <1>1, <1>5, VariablesStay
<1> QED
  BY <1>1, <1>3, <1>4, <1>6, UpIsEnough

\* The last attempt of a step fails.
LEMMA StepFailsKeeps == ASSUME RunInv, RunTypes', NEW s \in Steps, StepFails(s) PROVE RunInv'
<1>1. /\ process = "up" /\ process' = "up" /\ s \in Things /\ s # Run /\ "FAILED" \in ReportStates
      /\ UNCHANGED <<stepRows, written, crossed, refs, uses, wants>>
      /\ stepNow[s] = "running" /\ ReportStep(s, "FAILED")
      /\ stepNow'[s] \in {"excused", "failed"} /\ \A r \in Steps : r # s => stepNow'[r] = stepNow[r]
      /\ run' \in {run, "failed"}
  BY RunAssumption DEF StepFails, planVars, Things, ReportStates, RunInv, RunTypes
<1>2. run \in {"running", "failed"} /\ run' \in {"running", "failed"}
  BY <1>1 DEF RunInv, RunTypes, PlanInv
<1>3. Reports(s)' = Append(Reports(s), "FAILED")
  BY <1>1 DEF Reports, Things
<1>4. ASSUME NEW y \in Things, y # s PROVE Reports(y)' = Reports(y)
  <2>1. CASE y = Run
    BY <2>1, <1>2 DEF Reports
  <2>2. CASE y # Run
    BY <2>2, <1>1, <1>4 DEF Reports, Things
  <2> QED
    BY <2>1, <2>2
<1>5. OneRecordInv' /\ ReportOrderInv'
  BY <1>1, <1>3, <1>4, ReportKeeps
<1>6. PlanInv'
  BY <1>1, <1>2 DEF RunInv, PlanInv
<1>7. VariablesOf(s)'
  <2>1. VariablesOf(s) /\ s \notin refs[s]
    BY <1>1 DEF VariablesOf, RunInv, VariablesAreThere
  <2> QED
    BY <1>1, <2>1 DEF VariablesOf, Resolves, RunInv, RunTypes
<1>8. VariablesAreThere'
  BY <1>1, <1>7, VariablesStay
<1> QED
  BY <1>1, <1>5, <1>6, <1>8, UpIsEnough

\* The process ends: what is left is what was written by then.
LEMMA EndProcessKeeps == ASSUME RunInv, RunTypes', EndProcess PROVE RunInv'
<1>1. /\ process = "up" /\ process' = "down" /\ \A x \in Things : unwritten'[x] = <<>>
      /\ \A s \in Steps : stepNow'[s] = "gone"
      /\ UNCHANGED <<stepRows, written, crossed>>
  BY DEF EndProcess
<1>2. PlanInv' /\ VariablesAreThere'
  BY <1>1 DEF PlanInv, VariablesAreThere
<1>3. ASSUME NEW x \in Things
      PROVE  Len(stepRows[x]) <= 2
  <2>1. Len(stepRows[x]) + Len(unwritten[x]) <= Len(Reports(x))
    BY <1>1 DEF RunInv, OneRecordInv
  <2>2. Len(Reports(x)) \in 0 .. 2
    BY ReportsAre DEF RunInv
  <2>3. Len(stepRows[x]) \in Nat /\ Len(unwritten[x]) \in Nat
    BY DEF RunInv, RunTypes
  <2>4. \A a, b \in Nat, c \in 0 .. 2 : a + b <= c => a <= 2
    OBVIOUS
  <2> QED
    BY <2>1, <2>2, <2>3, <2>4, Zenon
<1>4. OneRecordInv'
  <2> SUFFICES ASSUME NEW x \in Things
               PROVE  /\ Len(stepRows[x]) + Len(unwritten'[x]) <= 2
                      /\ \A i \in 1 .. Len(unwritten'[x]) : unwritten'[x][i].row <= Len(stepRows[x])
    BY <1>1 DEF OneRecordInv
  <2>1. Len(unwritten'[x]) = 0 /\ Len(stepRows[x]) \in Nat
    BY <1>1 DEF RunInv, RunTypes
  <2> QED
    BY <2>1, <1>3
<1>5. LeftInv'
  <2> SUFFICES ASSUME NEW x \in Things, x \notin crossed
               PROVE  /\ stepRows[x] \in {<<>>, <<"RUNNING">>, <<"COMPLETED">>, <<"FAILED">>}
                      /\ x = Run => stepRows[x] # <<"FAILED">>
                      /\ x \in written => stepRows[x] = <<"COMPLETED">>
    BY <1>1 DEF LeftInv
  <2> DEFINE r == Reports(x)
             done == Len(r) - Len(unwritten[x])
  <2>1. /\ stepRows[x] = IF done = 0 THEN <<>> ELSE <<r[done]>>
        /\ x \in written => done > 0 /\ r[done] = "COMPLETED"
    BY <1>1 DEF RunInv, ReportOrderInv, WrittenInOrder
  <2>2. done \in 0 .. Len(r) /\ r \in Seq(ReportStates)
    <3>1. /\ Len(stepRows[x]) + Len(unwritten[x]) <= Len(r) /\ r \in Seq(ReportStates)
          /\ Len(stepRows[x]) \in Nat /\ Len(unwritten[x]) \in Nat /\ Len(r) \in Nat
      BY <1>1, ReportsAre DEF RunInv, OneRecordInv, RunTypes
    <3>2. \A a, b, c \in Nat : a + b <= c => c - b \in 0 .. c
      OBVIOUS
    <3> QED
      BY <3>1, <3>2, Zenon
  <2>3. x = Run => r \in {<<>>, <<"RUNNING">>, <<"RUNNING", "COMPLETED">>}
    BY ReportsAre DEF RunInv
  <2> HIDE DEF r
  <2>4. CASE done = 0
    BY <2>1, <2>4
  <2>5. CASE done # 0
    <3>1. done \in 1 .. Len(r) /\ stepRows[x] = <<r[done]>>
      BY <2>1, <2>2, <2>5
    <3>2. r[done] \in ReportStates
      BY <3>1, <2>2
    <3>3. x = Run => r[done] # "FAILED"
      BY <3>1, <2>3
    <3> HIDE DEF done
    <3> QED
      BY <3>1, <3>2, <3>3, <2>1 DEF ReportStates
  <2> QED
    BY <2>4, <2>5
<1>6. ReportOrderInv' /\ ResumedInv' /\ RecoveryIsRight'
  BY <1>1 DEF ReportOrderInv, ResumedInv, RecoveryIsRight
<1> QED
  BY <1>2, <1>4, <1>5, <1>6 DEF RunInv

\* Records, plan and coroutines stay: what only handlers do leaves the plan alone.
LEMMA PlanRests ==
    ASSUME RunInv, UNCHANGED <<planVars, run, stepNow, process>>
    PROVE  PlanInv' /\ VariablesAreThere' /\ \A y \in Things : Reports(y)' = Reports(y)
<1>1. refs' = refs /\ uses' = uses /\ wants' = wants /\ run' = run /\ stepNow' = stepNow /\
      process' = process
  BY DEF planVars
<1>2. PlanInv'
  BY <1>1 DEF RunInv, PlanInv
<1>3. VariablesAreThere'
  BY <1>1 DEF RunInv, VariablesAreThere, Resolves
<1>4. \A y \in Things : Reports(y)' = Reports(y)
  BY <1>1 DEF Reports
<1> QED
  BY <1>2, <1>3, <1>4

\* A handler looks for the record.
LEMMA FindRecordKeeps ==
    ASSUME RunInv, RunTypes', NEW x \in Things, NEW i \in 1 .. 2, FindRecord(x, i)
    PROVE  RunInv'
<1> DEFINE q == unwritten[x]
           p == unwritten'[x]
           n == Len(stepRows[x])
<1>1. /\ process' = process /\ process # "down" /\ i \in 1 .. Len(q) /\ q \in Seq(Reporting)
      /\ UNCHANGED <<planVars, run, stepNow, stepRows, written>>
      /\ \A y \in Things : y # x => unwritten'[y] = unwritten[y]
      /\ crossed \subseteq crossed' /\ (i > 1 => x \in crossed') /\ (i = 1 => crossed' = crossed)
  BY DEF FindRecord, RunInv, RunTypes
<1>2. p = IF n > 1 THEN RemoveAt(q, i) ELSE [q EXCEPT ![i].row = n]
  BY DEF FindRecord, RunInv, RunTypes
<1>3. PlanInv' /\ VariablesAreThere' /\ \A y \in Things : Reports(y)' = Reports(y)
  BY <1>1, PlanRests
<1>4. n \in Nat /\ Len(q) \in Nat
  BY DEF RunInv, RunTypes
<1>5. \A j \in 1 .. Len(q) : q[j] \in Reporting /\ q[j].row <= n
  <2>1. \A j \in 1 .. Len(q) : q[j] \in Reporting
    BY <1>1
  <2>2. \A j \in 1 .. Len(q) : q[j].row <= n
    BY DEF RunInv, OneRecordInv
  <2> QED
    BY <2>1, <2>2
<1>6. n <= 1 => /\ Len(p) = Len(q) /\ p[i].row = n /\ p[i].state = q[i].state
                /\ \A j \in 1 .. Len(q) : j # i => p[j] = q[j]
  BY <1>1, <1>2, <1>4, <1>5 DEF Reporting
<1> HIDE DEF p
<1>7. Len(p) \in Nat /\ Len(p) <= Len(q) /\ \A j \in 1 .. Len(p) : p[j].row <= n
  <2>1. CASE n > 1
    <3>1. p = RemoveAt(q, i)
      BY <1>2, <2>1
    <3>2. /\ Len(p) = Len(q) - 1
          /\ \A j \in 1 .. Len(q) - 1 : p[j] = q[IF j < i THEN j ELSE j + 1]
      BY <1>1, <3>1, RemoveAtIs
    <3>3. \A j \in 1 .. Len(q) - 1 : (IF j < i THEN j ELSE j + 1) \in 1 .. Len(q)
      BY <1>1, <1>4
    <3> QED
      BY <3>2, <3>3, <1>1, <1>4, <1>5
  <2>2. CASE n <= 1
    BY <2>2, <1>1, <1>4, <1>5, <1>6
  <2> QED
    BY <2>1, <2>2, <1>4
<1>8. OneRecordInv'
  <2> SUFFICES ASSUME NEW y \in Things
               PROVE  /\ Len(stepRows[y]) + Len(unwritten'[y]) <= IF process = "up" THEN Len(Reports(y)) ELSE 2
                      /\ \A j \in 1 .. Len(unwritten'[y]) : unwritten'[y][j].row <= Len(stepRows[y])
    BY <1>1, <1>3 DEF OneRecordInv
  <2>1. CASE y = x
    <3> DEFINE most == IF process = "up" THEN Len(Reports(x)) ELSE 2
    <3>1. n + Len(q) <= most
      BY DEF RunInv, OneRecordInv
    <3>2. most \in Nat
      BY ReportsAre DEF RunInv
    <3>3. \A a, b, c, d \in Nat : a + b <= c /\ d <= b => a + d <= c
      OBVIOUS
    <3> HIDE DEF most
    <3>4. n + Len(p) <= most
      BY <3>1, <3>2, <3>3, <1>4, <1>7, Zenon
    <3> QED
      BY <2>1, <3>4, <1>7 DEF p, most
  <2>2. CASE y # x
    BY <2>2, <1>1 DEF RunInv, OneRecordInv
  <2> QED
    BY <2>1, <2>2
<1>9. ASSUME process = "up", NEW y \in Things, y \notin crossed' PROVE WrittenInOrder(y)'
  <2>1. CASE y = x
    <3>1. i = 1 /\ x \notin crossed
      BY <1>1, <1>9, <2>1
    <3>2. WrittenInOrder(x)
      BY <1>9, <3>1 DEF RunInv, ReportOrderInv
    <3>3. n <= 1
      BY <3>2 DEF WrittenInOrder
    <3>4. Len(p) = Len(q) /\ p[1].row = n /\ p[1].state = q[1].state /\
          \A j \in 1 .. Len(q) : j # 1 => p[j] = q[j]
      BY <1>6, <3>1, <3>3
    <3> DEFINE r == Reports(x)
               done == Len(r) - Len(q)
    <3>5. /\ \A j \in 1 .. Len(q) :
               /\ q[j].state = r[done + j]
               /\ q[j].row = -1 \/ (j = 1 /\ q[j].row = n)
          /\ stepRows[x] = IF done = 0 THEN <<>> ELSE <<r[done]>>
          /\ x \in written => done > 0 /\ r[done] = "COMPLETED"
      BY <3>2 DEF WrittenInOrder
    <3>6. \A j \in 1 .. Len(p) :
               /\ p[j].state = r[done + j]
               /\ p[j].row = -1 \/ (j = 1 /\ p[j].row = n)
      BY <3>4, <3>5
    <3>7. Len(r) - Len(p) = done
      BY <3>4
    <3>8. stepRows' = stepRows /\ written' = written /\ Reports(x)' = r
      BY <1>1, <1>3
    <3> HIDE DEF r, done
    <3> QED
      BY <2>1, <3>5, <3>6, <3>7, <3>8 DEF WrittenInOrder, p
  <2>2. CASE y # x
    <3>1. WrittenInOrder(y)
      BY <1>1, <1>9 DEF RunInv, ReportOrderInv
    <3> QED
      BY <2>2, <3>1, <1>1, <1>3, ThingRests DEF RunInv
  <2> QED
    BY <2>1, <2>2
<1>10. ReportOrderInv' /\ LeftInv'
  BY <1>1, <1>9 DEF ReportOrderInv, LeftInv
<1>11. process = "again" => i = 1 /\ Len(q) = 1 /\ q[1].state = "FAILED" /\ stepRows[x] = <<"FAILED">>
  <2> SUFFICES ASSUME process = "again"
               PROVE  i = 1 /\ Len(q) = 1 /\ q[1].state = "FAILED" /\ stepRows[x] = <<"FAILED">>
    OBVIOUS
  <2>1. q # <<>>
    BY <1>1
  <2>2. Len(q) = 1 /\ q[1].state = "FAILED" /\ stepRows[x] = <<"FAILED">>
    BY <2>1 DEF RunInv, ResumedInv
  <2> QED
    BY <2>2, <1>1
<1>12. ResumedInv'
  <2> SUFFICES ASSUME process = "again", NEW y \in Things, unwritten'[y] # <<>>
               PROVE  /\ Len(unwritten'[y]) = 1 /\ unwritten'[y][1].state = "FAILED" /\
                         unwritten'[y][1].row \in {-1, 1}
                      /\ stepRows[y] = <<"FAILED">>
    BY <1>1 DEF ResumedInv
  <2>1. CASE y = x
    <3>1. n = 1
      BY <1>11
    <3> QED
      BY <2>1, <3>1, <1>6, <1>11 DEF p
  <2>2. CASE y # x
    BY <2>2, <1>1 DEF RunInv, ResumedInv
  <2> QED
    BY <2>1, <2>2
<1>13. RecoveryIsRight'
  BY <1>1, <1>11 DEF RunInv, RecoveryIsRight
<1> QED
  BY <1>3, <1>8, <1>10, <1>12, <1>13 DEF RunInv

\* ... and writes it.
LEMMA WriteRecordKeeps ==
    ASSUME RunInv, RunTypes', NEW x \in Things, NEW i \in 1 .. 2, WriteRecord(x, i)
    PROVE  RunInv'
<1> DEFINE q == unwritten[x]
           p == unwritten'[x]
           n == Len(stepRows[x])
           w == q[i]
           z == stepRows'[x]
<1>1. /\ process' = process /\ process # "down" /\ i \in 1 .. Len(q) /\ q \in Seq(Reporting) /\
         w.row # -1
      /\ UNCHANGED <<planVars, run, stepNow, crossed>>
      /\ \A y \in Things : y # x => unwritten'[y] = unwritten[y] /\ stepRows'[y] = stepRows[y] /\
         (y \in written' => y \in written)
      /\ p = RemoveAt(q, i)
  BY DEF WriteRecord, RunInv, RunTypes
<1>2. IF w.row = 0 /\ x = Run /\ w.state # "RUNNING"
      THEN z = stepRows[x] /\ written' = written
      ELSE /\ z = IF w.row = 0 THEN Append(stepRows[x],
              w.state) ELSE [stepRows[x] EXCEPT ![w.row] = w.state]
           /\ written' = IF w.state = "COMPLETED" THEN written \cup {x} ELSE written
  BY DEF WriteRecord, RunInv, RunTypes
<1>3. PlanInv' /\ VariablesAreThere' /\ \A y \in Things : Reports(y)' = Reports(y)
  BY <1>1, PlanRests
<1>4. n \in Nat /\ Len(q) \in Nat /\ stepRows[x] \in Seq(ReportStates)
  BY DEF RunInv, RunTypes
<1>5. w \in Reporting /\ w.row \in {0, 1} /\ w.row <= n
  <2>1. w \in Reporting
    BY <1>1
  <2>2. w.row <= n
    BY <1>1 DEF RunInv, OneRecordInv
  <2> QED
    BY <1>1, <2>1, <2>2 DEF Reporting
<1>6. /\ Len(p) = Len(q) - 1
      /\ \A j \in 1 .. Len(q) - 1 : p[j] = q[IF j < i THEN j ELSE j + 1]
  BY SMTT(20), <1>1, RemoveAtIs
<1>7. Len(z) \in {n, n + 1}
  <2>1. Len(Append(stepRows[x], w.state)) = n + 1
    BY <1>4, <1>5 DEF Reporting
  <2>2. w.row = 1 => Len([stepRows[x] EXCEPT ![w.row] = w.state]) = n
    BY <1>4, <1>5
  <2> HIDE DEF w
  <2> QED
    BY <1>2, <1>5, <2>1, <2>2
<1> HIDE DEF p, z, w
<1>8. OneRecordInv'
  <2> SUFFICES ASSUME NEW y \in Things
               PROVE  /\ Len(stepRows'[y]) + Len(unwritten'[y]) <= IF process = "up" THEN Len(Reports(y)) ELSE 2
                      /\ \A j \in 1 .. Len(unwritten'[y]) : unwritten'[y][j].row <= Len(stepRows'[y])
    BY <1>1, <1>3 DEF OneRecordInv
  <2>1. CASE y = x
    <3> DEFINE most == IF process = "up" THEN Len(Reports(x)) ELSE 2
    <3>1. n + Len(q) <= most
      BY DEF RunInv, OneRecordInv
    <3>2. most \in Nat
      BY ReportsAre DEF RunInv
    <3>3. \A a, b, c \in Nat : a + b <= c => a + (b - 1) <= c /\ (a + 1) + (b - 1) <= c
      OBVIOUS
    <3> HIDE DEF most
    <3>4. Len(z) + Len(p) <= most
      BY <3>1, <3>2, <3>3, <1>4, <1>6, <1>7, Zenon
    <3>5. \A j \in 1 .. Len(q) : q[j].row <= n /\ q[j] \in Reporting
      <4>1. \A j \in 1 .. Len(q) : q[j] \in Reporting
        BY <1>1
      <4>2. \A j \in 1 .. Len(q) : q[j].row <= n
        BY DEF RunInv, OneRecordInv
      <4> QED
        BY <4>1, <4>2
    <3>6. ASSUME NEW j \in 1 .. Len(p) PROVE p[j].row <= Len(z)
      <4> DEFINE k == IF j < i THEN j ELSE j + 1
      <4>1. k \in 1 .. Len(q) /\ p[j] = q[k]
        BY <1>1, <1>4, <1>6
      <4>2. q[k].row <= n /\ q[k].row \in Int
        BY <3>5, <4>1 DEF Reporting
      <4> HIDE DEF k
      <4> QED
        BY <4>1, <4>2, <1>4, <1>7
    <3> QED
      BY <2>1, <3>4, <3>6 DEF p, z, most
  <2>2. CASE y # x
    BY <2>2, <1>1 DEF RunInv, OneRecordInv
  <2> QED
    BY <2>1, <2>2
<1>9. ASSUME process = "up", x \notin crossed PROVE WrittenInOrder(x)'
  <2> DEFINE r == Reports(x)
             done == Len(r) - Len(q)
  <2>1. /\ \A j \in 1 .. Len(q) :
             /\ q[j].state = r[done + j]
             /\ q[j].row = -1 \/ (j = 1 /\ q[j].row = n)
        /\ stepRows[x] = IF done = 0 THEN <<>> ELSE <<r[done]>>
        /\ x \in written => done > 0 /\ r[done] = "COMPLETED"
    BY <1>9 DEF RunInv, ReportOrderInv, WrittenInOrder
  <2>2. r \in Seq(ReportStates) /\ Len(r) \in 0 .. 2 /\ (Len(r) > 0 => r[1] = "RUNNING")
    BY ReportsAre DEF RunInv
  <2>3. i = 1 /\ w.row = n /\ w.state = r[done + 1]
    BY <1>1, <2>1 DEF w
  <2>4. done \in 0 .. (Len(r) - 1)
    <3>1. n + Len(q) <= Len(r)
      BY <1>9 DEF RunInv, OneRecordInv
    <3>2. \A a, b, c \in Nat : a + b <= c /\ b >= 1 => c - b \in 0 .. (c - 1)
      OBVIOUS
    <3>3. Len(q) >= 1 /\ Len(r) \in Nat
      BY <1>1, <1>4, <2>2
    <3> QED
      BY <3>1, <3>2, <3>3, <1>4, Zenon
  <2>5. Len(r) - Len(p) = done + 1
    BY <1>4, <1>6, <2>2
  <2> HIDE DEF r, done
  <2>6. z = <<r[done + 1]>> /\
        written' = IF r[done + 1] = "COMPLETED" THEN written \cup {x} ELSE written
    <3>1. CASE done = 0
      <4>1. stepRows[x] = <<>> /\ n = 0 /\ w.row = 0
        BY <2>1, <2>3, <3>1
      <4>2. w.state = "RUNNING"
        BY <2>2, <2>3, <2>4, <3>1
      <4>3. z = Append(<<>>, w.state) /\
            written' = IF w.state = "COMPLETED" THEN written \cup {x} ELSE written
        BY <1>2, <4>1, <4>2
      <4>4. Append(<<>>, w.state) = <<w.state>>
        OBVIOUS
      <4> QED
        BY <2>3, <4>3, <4>4, Zenon
    <3>2. CASE done # 0
      <4>1. stepRows[x] = <<r[done]>> /\ n = 1 /\ w.row = 1
        BY <2>1, <2>3, <3>2
      <4>2. z = [<<r[done]>> EXCEPT ![1] = w.state] /\
            written' = IF w.state = "COMPLETED" THEN written \cup {x} ELSE written
        BY <1>2, <4>1
      <4>3. [<<r[done]>> EXCEPT ![1] = w.state] = <<w.state>>
        OBVIOUS
      <4> QED
        BY <2>3, <4>2, <4>3
    <3> QED
      BY <3>1, <3>2
  <2>7. \A j \in 1 .. Len(p) : p[j].state = r[(done + 1) + j] /\ p[j].row = -1
    <3> SUFFICES ASSUME NEW j \in 1 .. Len(p) PROVE p[j].state = r[(done + 1) + j] /\ p[j].row = -1
      OBVIOUS
    <3>1. j + 1 \in 1 .. Len(q) /\ j + 1 # 1 /\ done + (j + 1) = (done + 1) + j
      BY <1>4, <1>6, <2>4
    <3>2. p[j] = q[j + 1]
      BY <1>4, <1>6, <2>3
    <3> QED
      BY <3>1, <3>2, <2>1
  <2>8. x \in written' => r[done + 1] = "COMPLETED"
    <3>1. ASSUME x \in written, r[done + 1] # "COMPLETED" PROVE FALSE
      <4>1. done > 0 /\ r[done] = "COMPLETED"
        BY <2>1, <3>1
      <4>2. done = 1
        <5>1. \A l \in 0 .. 2 : \A d \in 0 .. (l - 1) : d > 0 => d = 1
          OBVIOUS
        <5>2. Len(r) \in 0 .. 2
          BY <2>2
        <5> QED
          BY <2>4, <4>1, <5>1, <5>2
      <4> QED
        BY <2>2, <2>4, <4>1, <4>2
    <3> QED
      BY <2>6, <3>1
  <2>9. done + 1 # 0 /\ done + 1 > 0 /\ Reports(x)' = r
    BY <2>4, <1>3 DEF r
  <2> QED
    BY <2>5, <2>6, <2>7, <2>8, <2>9 DEF WrittenInOrder, p, z
<1>10. ASSUME process = "up", NEW y \in Things, y \notin crossed, y # x PROVE WrittenInOrder(y)'
  <2>1. WrittenInOrder(y)
    BY <1>10 DEF RunInv, ReportOrderInv
  <2>2. unwritten'[y] = unwritten[y] /\ stepRows'[y] = stepRows[y] /\ (y \in written' =>
        y \in written) /\ Reports(y)' = Reports(y)
    BY <1>1, <1>3, <1>10
  <2> QED
    BY <2>1, <2>2 DEF WrittenInOrder
<1>11. ReportOrderInv' /\ LeftInv'
  BY <1>1, <1>9, <1>10 DEF ReportOrderInv, LeftInv
<1>12. ASSUME process = "again"
       PROVE  Len(p) = 0 /\ z = stepRows[x] /\ written' = written
  <2>1. q # <<>>
    BY <1>1
  <2>2. Len(q) = 1 /\ q[1].state = "FAILED" /\ stepRows[x] = <<"FAILED">>
    BY <1>12, <2>1 DEF RunInv, ResumedInv
  <2>3. i = 1 /\ q[1].row \in {-1, 1}
    BY <1>1, <1>12, <2>1, <2>2 DEF RunInv, ResumedInv
  <2>4. w.row = 1 /\ w.state = "FAILED"
    BY <1>1, <2>2, <2>3 DEF w
  <2>5. z = [<<"FAILED">> EXCEPT ![1] = "FAILED"] /\ written' = written
    BY <1>2, <2>2, <2>4
  <2>6. [<<"FAILED">> EXCEPT ![1] = "FAILED"] = <<"FAILED">>
    OBVIOUS
  <2> QED
    BY <2>2, <2>5, <2>6, <1>6
<1>13. ResumedInv'
  <2> SUFFICES ASSUME process = "again", NEW y \in Things, unwritten'[y] # <<>>
               PROVE  /\ Len(unwritten'[y]) = 1 /\ unwritten'[y][1].state = "FAILED" /\
                         unwritten'[y][1].row \in {-1, 1}
                      /\ stepRows'[y] = <<"FAILED">>
    BY <1>1 DEF ResumedInv
  <2>1. y # x
    BY <1>12 DEF p, RunTypes
  <2> QED
    BY <2>1, <1>1 DEF RunInv, ResumedInv
<1>14. RecoveryIsRight'
  <2>1. process = "again" => \A y \in Things : stepRows'[y] = stepRows[y]
    BY <1>1, <1>12 DEF z
  <2>2. Run \in Things /\ Steps \subseteq Things /\ written \subseteq Things
    BY DEF Things, RunInv, RunTypes
  <2> QED
    BY <2>1, <2>2, <1>1, <1>12 DEF RunInv, RecoveryIsRight
<1> QED
  BY <1>3, <1>8, <1>11, <1>13, <1>14 DEF RunInv

\* resume_all(): in one transaction, or not at all.
LEMMA ResumeAllKeeps == ASSUME RunInv, RunTypes', ResumeAll PROVE RunInv'
<1> DEFINE hung == {s \in Steps : "RUNNING" \in Range(stepRows[s])}
           open == stepRows[Run] = <<"RUNNING">>
           closes == open /\ \A s \in hung : Len(stepRows[s]) = 1
           m == [state |-> "FAILED", row |-> -1]
<1>1. /\ process = "down" /\ process' = "again"
      /\ UNCHANGED <<planVars, run, stepNow, written, crossed>>
      /\ \A x \in Things : unwritten[x] = <<>>
  BY DEF ResumeAll, RunInv, LeftInv
<1>2. /\ closes => \A x \in Things :
              /\ stepRows'[x] = IF x \in hung \cup {Run} THEN <<"FAILED">> ELSE stepRows[x]
              /\ unwritten'[x] = IF x \in hung \cup {Run} THEN <<m>> ELSE <<>>
      /\ ~closes => \A x \in Things : stepRows'[x] = stepRows[x] /\ unwritten'[x] = <<>>
  <2>1. CASE closes
    BY <2>1 DEF ResumeAll
  <2>2. CASE ~closes
    BY <2>2, <1>1 DEF ResumeAll
  <2> QED
    BY <2>1, <2>2
<1>3. Len(<<m>>) = 1 /\ <<m>>[1] = m /\ m.state = "FAILED" /\ m.row = -1 /\ Len(<<"FAILED">>) = 1
  OBVIOUS
<1> HIDE DEF m
<1>4. PlanInv' /\ VariablesAreThere'
  BY <1>1 DEF RunInv, PlanInv, VariablesAreThere
<1>5. \A x \in Things : Len(stepRows[x]) \in 0 .. 2
  <2>1. \A x \in Things : Len(stepRows[x]) + Len(unwritten[x]) <= 2
    BY <1>1 DEF RunInv, OneRecordInv
  <2>2. \A x \in Things : Len(unwritten[x]) = 0 /\ Len(stepRows[x]) \in Nat
    BY <1>1 DEF RunInv, RunTypes
  <2>3. \A a, b \in Nat : a + b <= 2 /\ b = 0 => a \in 0 .. 2
    OBVIOUS
  <2>4. 0 \in Nat
    OBVIOUS
  <2> QED
    BY <2>1, <2>2, <2>3, <2>4
<1>6. ASSUME NEW x \in Things
      PROVE  \/ unwritten'[x] = <<>> /\ Len(stepRows'[x]) \in 0 .. 2
             \/ unwritten'[x] = <<m>> /\ stepRows'[x] = <<"FAILED">>
  BY <1>2, <1>3, <1>5
<1>7. OneRecordInv'
  <2> SUFFICES ASSUME NEW x \in Things
               PROVE  /\ Len(stepRows'[x]) + Len(unwritten'[x]) <= 2
                      /\ \A i \in 1 .. Len(unwritten'[x]) : unwritten'[x][i].row <= Len(stepRows'[x])
    BY <1>1 DEF OneRecordInv
  <2>1. CASE unwritten'[x] = <<>> /\ Len(stepRows'[x]) \in 0 .. 2
    <3>1. Len(unwritten'[x]) = 0 /\ 1 .. 0 = {}
      BY <2>1
    <3>2. \A a \in 0 .. 2 : a + 0 <= 2
      OBVIOUS
    <3> QED
      BY <2>1, <3>1, <3>2
  <2>2. CASE unwritten'[x] = <<m>> /\ stepRows'[x] = <<"FAILED">>
    BY <2>2, <1>3
  <2> QED
    BY <1>6, <2>1, <2>2
<1>8. ResumedInv'
  BY <1>3, <1>6 DEF ResumedInv
<1>9. ReportOrderInv' /\ LeftInv'
  BY <1>1 DEF ReportOrderInv, LeftInv
<1>10. RecoveryIsRight'
  <2> SUFFICES ASSUME crossed = {}
               PROVE  /\ stepRows'[Run] # <<"RUNNING">>
                      /\ stepRows'[Run] = <<"FAILED">> =>
                         \A s \in Steps : "RUNNING" \notin Range(stepRows'[s])
                      /\ \A x \in written : stepRows'[x] = <<"COMPLETED">>
    BY <1>1 DEF RecoveryIsRight
  <2>1. \A x \in Things :
          /\ stepRows[x] \in {<<>>, <<"RUNNING">>, <<"COMPLETED">>, <<"FAILED">>}
          /\ x = Run => stepRows[x] # <<"FAILED">>
          /\ x \in written => stepRows[x] = <<"COMPLETED">>
    BY <1>1 DEF RunInv, LeftInv
  <2>2. Run \in Things /\ Steps \subseteq Things /\ written \subseteq Things
    BY DEF Things, RunInv, RunTypes
  <2>3. \A x \in Steps : x \in hung => stepRows[x] = <<"RUNNING">>
    <3> SUFFICES ASSUME NEW x \in Steps,
                        "RUNNING" \in Range(stepRows[x]) PROVE stepRows[x] = <<"RUNNING">>
      OBVIOUS
    <3>1. "RUNNING" \notin Range(<<>>) /\ "RUNNING" \notin Range(<<"COMPLETED">>) /\
          "RUNNING" \notin Range(<<"FAILED">>)
      BY DEF Range
    <3> QED
      BY <2>1, <2>2, <3>1
  <2>4. open => closes
    BY <2>3
  <2>5. <<"RUNNING">> # <<"FAILED">> /\ <<"RUNNING">> # <<"COMPLETED">> /\
        "RUNNING" \notin Range(<<"FAILED">>)
    BY DEF Range
  <2>6. CASE open
    <3>1. stepRows'[Run] = <<"FAILED">>
      BY <1>2, <2>2, <2>4, <2>6
    <3>2. ASSUME NEW s \in Steps PROVE "RUNNING" \notin Range(stepRows'[s])
      BY <1>2, <2>2, <2>4, <2>5, <2>6
    <3>3. ASSUME NEW x \in written PROVE stepRows'[x] = <<"COMPLETED">>
      <4>1. x \in Things /\ stepRows[x] = <<"COMPLETED">>
        BY <2>1, <2>2
      <4>2. x \notin hung /\ x # Run
        BY <2>3, <2>5, <2>6, <4>1
      <4> QED
        BY <1>2, <2>4, <2>6, <4>1, <4>2
    <3> QED
      BY <2>5, <3>1, <3>2, <3>3
  <2>7. CASE ~open
    <3>1. \A x \in Things : stepRows'[x] = stepRows[x]
      BY <1>2, <2>7
    <3> QED
      BY <2>1, <2>2, <2>7, <3>1
  <2> QED
    BY <2>6, <2>7
<1> QED
  BY <1>4, <1>7, <1>8, <1>9, <1>10 DEF RunInv
-----------------------------------------------------------------------------
\* A compiled workflow.
LEMMA RunStarts == RunInit => RunInv
<1> SUFFICES ASSUME RunInit PROVE RunInv
  OBVIOUS
<1>1. /\ RunTypes
  BY DEF RunInit, RunTypes
<1>2. PlanInv /\ VariablesAreThere /\ LeftInv /\ ResumedInv /\ RecoveryIsRight
  BY DEF RunInit, Accepts, PlanInv, VariablesAreThere, LeftInv, ResumedInv, RecoveryIsRight
<1>3. \A x \in Things : Reports(x) = <<>> /\ unwritten[x] = <<>> /\ stepRows[x] = <<>> /\
      x \notin written
  BY DEF RunInit, Reports, Things
<1>4. Len(<<>>) = 0 /\ 0 + 0 <= 0 /\ 0 - 0 = 0 /\ 1 .. 0 = {}
  OBVIOUS
<1>5. OneRecordInv /\ ReportOrderInv
  BY <1>3, <1>4 DEF RunInit, OneRecordInv, ReportOrderInv, WrittenInOrder
<1> QED
  BY <1>1, <1>2, <1>5 DEF RunInv

\* Every step keeps it.
LEMMA RunStepKeeps == ASSUME RunInv, [RunNext]_runVars PROVE RunInv'
<1>1. RunTypes'
  BY RunTypesKept
<1>2. CASE UNCHANGED runVars
  BY <1>2
     DEF runVars, planVars, RunInv, RunTypes, PlanInv, OneRecordInv, ReportOrderInv,
         WrittenInOrder, Reports, LeftInv, ResumedInv,
              VariablesAreThere, Resolves, RecoveryIsRight
<1> QED
  BY <1>1, <1>2, StartRunKeeps, RunCompletesKeeps, EndProcessKeeps, ResumeAllKeeps,
     StartStepKeeps, StepCompletesKeeps,
     StepFailsKeeps, FindRecordKeeps, WriteRecordKeeps DEF RunNext

\* The invariant is more than what RunRecordsSafe says.
LEMMA RunInvSafe == RunInv => RunRecordsSafe
<1> SUFFICES ASSUME RunInv PROVE RunRecordsSafe
  OBVIOUS
<1>1. RunTypeOK
  <2>1. ASSUME NEW x \in Things PROVE Len(stepRows[x]) <= 2
    <3>1. Len(stepRows[x]) + Len(unwritten[x]) <= IF process = "up" THEN Len(Reports(x)) ELSE 2
      BY DEF RunInv, OneRecordInv
    <3>2. Len(Reports(x)) \in 0 .. 2
      BY ReportsAre DEF RunInv
    <3>3. Len(stepRows[x]) \in Nat /\ Len(unwritten[x]) \in Nat
      BY DEF RunInv, RunTypes
    <3>4. \A a, b \in Nat, c \in 0 .. 2 : a + b <= c => a <= 2
      OBVIOUS
    <3>5. 2 \in 0 .. 2
      OBVIOUS
    <3> QED
      BY <3>1, <3>2, <3>3, <3>4, <3>5, Zenon
  <2>2. ASSUME NEW x \in Things PROVE Range(stepRows[x]) \subseteq ReportStates
    BY DEF RunInv, RunTypes, Range
  <2> QED
    BY <2>1, <2>2 DEF RunInv, RunTypes, RunTypeOK, ReportStates
<1>2. ASSUME process = "up", NEW x \in Things, Recorded(x)
      PROVE  stepRows[x] = IF Reports(x) = <<>> THEN <<>> ELSE <<Reports(x)[Len(Reports(x))]>>
  <2>1. WrittenInOrder(x) /\ Len(unwritten[x]) = 0
    BY <1>2 DEF RunInv, ReportOrderInv, Recorded
  <2>2. Reports(x) \in Seq(ReportStates)
    BY ReportsAre DEF RunInv
  <2>3. Len(Reports(x)) - 0 = Len(Reports(x)) /\ (Len(Reports(x)) = 0 <=> Reports(x) = <<>>)
    BY <2>2
  <2> QED
    BY <2>1, <2>3 DEF WrittenInOrder
<1>3. StepRecordsAreTrue
  <2> SUFFICES ASSUME process = "up", NEW s \in Steps, Recorded(s)
               PROVE  stepRows[s] = CASE stepNow[s] \in {"waiting", "unbound"} -> <<>>
                                      [] stepNow[s] = "running" -> <<"RUNNING">>
                                      [] stepNow[s] = "completed" -> <<"COMPLETED">>
                                      [] OTHER -> <<"FAILED">>
    BY DEF StepRecordsAreTrue
  <2>1. s \in Things /\ s # Run
    BY RunAssumption DEF Things
  <2>2. stepRows[s] = IF Reports(s) = <<>> THEN <<>> ELSE <<Reports(s)[Len(Reports(s))]>>
    BY <1>2, <2>1
  <2> QED
    BY <2>1, <2>2 DEF Reports
<1>4. RunRecordIsTrue
  <2> SUFFICES ASSUME process = "up", Recorded(Run)
               PROVE  stepRows[Run] = CASE run = "accepted" -> <<>>
                                        [] run = "completed" -> <<"COMPLETED">>
                                        [] OTHER -> <<"RUNNING">>
    BY DEF RunRecordIsTrue
  <2>1. Run \in Things
    BY DEF Things
  <2>2. stepRows[Run] = IF Reports(Run) = <<>> THEN <<>> ELSE <<Reports(Run)[Len(Reports(Run))]>>
    BY <1>2, <2>1
  <2> QED
    BY <2>2 DEF Reports
<1> QED
  BY <1>1, <1>3, <1>4 DEF RunInv, RunRecordsSafe

-----------------------------------------------------------------------------
(* The cost ledger, and sums over finite sets.                             *)

\* Natural numbers have a least one among them.
LEMMA LeastNatural ==
    ASSUME NEW S, S \subseteq Nat, S # {}
    PROVE  \E n \in S : \A k \in S : ~(k < n)
<1> DEFINE less == {p \in Nat \X Nat : p[1] < p[2]}
<1>1. IsWellFoundedOn(less, Nat)
  BY NatLessThanWellFounded DEF OpToRel
<1>2. \A p \in Nat, q \in Nat : p < q => <<p, q>> \in less
  OBVIOUS
<1> HIDE DEF less
<1>3. \E n \in S : \A k \in S : ~(<<k, n>> \in less)
  BY <1>1, WFMin, Zenon
<1>4. PICK n \in S : \A k \in S : ~(<<k, n>> \in less)
  BY <1>3
<1>5. \A k \in S : ~(k < n)
  BY <1>2, <1>4
<1> QED
  BY <1>5

\* A set of finite sets has one none of whose elements can be left out.
LEMMA LeastSet ==
    ASSUME NEW D, IsFiniteSet(D), NEW T, T \subseteq SUBSET D, T # {}
    PROVE  \E s \in T : \A x \in s : s \ {x} \notin T
<1> DEFINE sizes == {Cardinality(s) : s \in T}
<1>1. \A s \in T : IsFiniteSet(s) /\ Cardinality(s) \in Nat
  BY FS_Subset, FS_CardinalityType
<1>2. sizes \subseteq Nat /\ sizes # {}
  BY <1>1
<1>3. \E n \in sizes : \A k \in sizes : ~(k < n)
  BY <1>2, LeastNatural
<1>4. PICK n \in sizes : \A k \in sizes : ~(k < n)
  BY <1>3
<1>5. PICK s \in T : Cardinality(s) = n
  OBVIOUS
<1>6. ASSUME NEW x \in s, s \ {x} \in T PROVE FALSE
  <2>1. Cardinality(s \ {x}) = n - 1 /\ n \in Nat
    BY <1>1, <1>5, <1>6, FS_RemoveElement
  <2>2. n - 1 \in sizes
    BY <1>6, <2>1
  <2>3. ~(n - 1 < n)
    BY <2>2, <1>4, Zenon
  <2> QED
    BY <2>1, <2>3
<1> QED
  BY <1>6

\* f adds up w.
Adds(f, w, D) ==
    /\ f \in [SUBSET D -> Int] /\ f[{}] = 0
    /\ \A s \in SUBSET D : \A x \in D \ s : f[s \cup {x}] = f[s] + w[x]

\* Any finite set can be added up.
LEMMA SumExists ==
    ASSUME NEW D, IsFiniteSet(D), NEW w \in [D -> Int]
    PROVE  \E f : Adds(f, w, D)
<1> DEFINE bad == {s \in SUBSET D : ~\E f : Adds(f, w, s)}
<1>1. SUFFICES ASSUME bad # {} PROVE FALSE
  OBVIOUS
<1>2. PICK s \in bad : \A x \in s : s \ {x} \notin bad
  BY <1>1, LeastSet
<1>3. CASE s = {}
  <2> DEFINE f == [t \in {{}} |-> 0]
  <2>1. Adds(f, w, {})
    BY DEF Adds
  <2> QED
    BY <1>2, <1>3, <2>1
<1>4. CASE s # {}
  <2>1. PICK d \in s : TRUE
    BY <1>4
  <2> DEFINE r == s \ {d}
  <2>2. PICK g : Adds(g, w, r)
    BY <1>2, <2>1
  <2> DEFINE f == [t \in SUBSET s |-> IF d \in t THEN g[t \ {d}] + w[d] ELSE g[t]]
  <2>3. w[d] \in Int /\ d \notin r /\ r \in SUBSET D
    BY <2>1
  <2>4. \A t \in SUBSET s : t \ {d} \in SUBSET r /\ (d \notin t => t \in SUBSET r)
    OBVIOUS
  <2>5. f \in [SUBSET s -> Int] /\ f[{}] = 0
    BY <2>2, <2>3, <2>4 DEF Adds
  <2>6. ASSUME NEW t \in SUBSET s, NEW x \in s \ t
        PROVE  f[t \cup {x}] = f[t] + w[x]
    <3>1. CASE x = d
      <4>1. (t \cup {x}) \ {d} = t
        BY <3>1
      <4> QED
        BY <3>1, <4>1, <2>4
    <3>2. CASE x # d
      <4>1. x \in r /\ w[x] \in Int /\ t \cup {x} \in SUBSET s
        BY <3>2
      <4>2. CASE d \in t
        <5>1. (t \cup {x}) \ {d} = (t \ {d}) \cup {x} /\ t \ {d} \in SUBSET r /\ x \notin t \ {d}
          BY <3>2, <4>2
        <5>2. g[(t \ {d}) \cup {x}] = g[t \ {d}] + w[x] /\ g[t \ {d}] \in Int
          BY <2>2, <5>1, <4>1 DEF Adds
        <5>3. f[t \cup {x}] = g[(t \ {d}) \cup {x}] + w[d] /\ f[t] = g[t \ {d}] + w[d]
          BY <4>1, <4>2, <5>1
        <5> QED
          BY <5>2, <5>3, <2>3, <4>1
      <4>3. CASE d \notin t
        <5>1. t \in SUBSET r /\ d \notin t \cup {x}
          BY <3>2, <4>3
        <5>2. g[t \cup {x}] = g[t] + w[x]
          BY <2>2, <5>1, <4>1 DEF Adds
        <5> QED
          BY <5>1, <5>2, <4>1, <4>3
      <4> QED
        BY <4>2, <4>3
    <3> QED
      BY <3>1, <3>2
  <2>7. Adds(f, w, s)
    BY <2>5, <2>6 DEF Adds
  <2> QED
    BY <1>2, <2>7
<1> QED
  BY <1>3, <1>4

\* What the community modules compute is the sum.
LEMMA SumIs ==
    ASSUME NEW D, IsFiniteSet(D), NEW w \in [D -> Int], NEW f, Adds(f, w, D), NEW s \in SUBSET D
    PROVE  SumFunctionOnSet(w, s) = f[s]
<1> DEFINE more(h, t) == IF t = {} THEN 0 ELSE w[CHOOSE x \in t : TRUE] + h[t \ {CHOOSE x \in t : TRUE}]
           iter == CHOOSE h : h = [t \in SUBSET s |-> more(h, t)]
<1>1. SumFunctionOnSet(w, s) = iter[s]
  BY DEF SumFunctionOnSet, FoldFunctionOnSet, MapThenFoldSet
<1> DEFINE g == [t \in SUBSET s |-> f[t]]
<1>2. \A t \in SUBSET s : g[t] = more(g, t)
  <2> SUFFICES ASSUME NEW t \in SUBSET s, t # {} PROVE g[t] = more(g, t)
    BY DEF Adds
  <2> DEFINE x == CHOOSE x \in t : TRUE
  <2>1. x \in t
    OBVIOUS
  <2> HIDE DEF x
  <2>2. t \ {x} \in SUBSET s /\ t \ {x} \in SUBSET D /\ x \in D \ (t \ {x}) /\ t = (t \ {x}) \cup {x}
    BY <2>1
  <2>3. f[t] = f[t \ {x}] + w[x] /\ f[t \ {x}] \in Int /\ w[x] \in Int
    BY <2>2 DEF Adds
  <2>4. g[t] = w[x] + g[t \ {x}]
    BY <2>2, <2>3
  <2> QED
    BY <2>4 DEF x
<1>3. g = [t \in SUBSET s |-> more(g, t)]
  BY <1>2
<1> HIDE DEF more, g
<1>4. iter = [t \in SUBSET s |-> more(iter, t)]
  BY <1>3
<1> HIDE DEF iter
<1> DEFINE bad == {t \in SUBSET s : iter[t] # f[t]}
<1>5. bad = {}
  <2> SUFFICES ASSUME bad # {} PROVE FALSE
    OBVIOUS
  <2>1. PICK t \in bad : \A x \in t : t \ {x} \notin bad
    <3>1. bad \subseteq SUBSET D
      OBVIOUS
    <3> QED
      BY <3>1, LeastSet
  <2>2. \A x \in t : iter[t \ {x}] = g[t \ {x}]
    BY <2>1 DEF g
  <2>3. iter[t] = more(iter, t) /\ g[t] = more(g, t)
    BY <1>2, <1>4, <2>1
  <2>4. more(iter, t) = more(g, t)
    <3> DEFINE x == CHOOSE x \in t : TRUE
    <3>1. t # {} => x \in t
      OBVIOUS
    <3>2. t # {} => iter[t \ {x}] = g[t \ {x}]
      BY <2>2, <3>1
    <3> QED
      BY <3>2 DEF more
  <2> QED
    BY <2>1, <2>3, <2>4 DEF g
<1> QED
  BY <1>1, <1>5

\* A sum is that of the values it adds.
LEMMA SumAgrees ==
    ASSUME NEW D, IsFiniteSet(D), NEW w \in [D -> Int], NEW v \in [D -> Int], NEW s \in SUBSET D,
           \A x \in s : w[x] = v[x]
    PROVE  SumFunctionOnSet(w, s) = SumFunctionOnSet(v, s)
<1>1. PICK f : Adds(f, w, D)
  BY SumExists
<1>2. PICK g : Adds(g, v, D)
  BY SumExists
<1> DEFINE bad == {t \in SUBSET s : f[t] # g[t]}
<1>3. bad = {}
  <2> SUFFICES ASSUME bad # {} PROVE FALSE
    OBVIOUS
  <2>1. bad \subseteq SUBSET D
    OBVIOUS
  <2>2. PICK t \in bad : \A x \in t : t \ {x} \notin bad
    BY <2>1, LeastSet
  <2>3. t # {}
    BY <1>1, <1>2, <2>2 DEF Adds
  <2>4. PICK x \in t : TRUE
    BY <2>3
  <2>5. t \ {x} \in SUBSET D /\ x \in D \ (t \ {x}) /\ t = (t \ {x}) \cup {x}
    BY <2>4
  <2> DEFINE r == t \ {x}
  <2>6. f[r] = g[r] /\ w[x] = v[x]
    BY <2>2, <2>4
  <2>7. r \in SUBSET D /\ x \in D \ r /\ t = r \cup {x}
    BY <2>5
  <2> HIDE DEF r
  <2>8. f[r \cup {x}] = f[r] + w[x]
    BY <1>1, <2>7 DEF Adds
  <2>9. g[r \cup {x}] = g[r] + v[x]
    BY <1>2, <2>7 DEF Adds
  <2> QED
    BY <2>2, <2>6, <2>7, <2>8, <2>9
<1>4. SumFunctionOnSet(w, s) = f[s] /\ SumFunctionOnSet(v, s) = g[s]
  BY <1>1, <1>2, SumIs
<1> QED
  BY <1>3, <1>4

\* A sum is a number, and one more element adds its value.
LEMMA SumLaws ==
    ASSUME NEW D, IsFiniteSet(D), NEW w \in [D -> Int]
    PROVE  /\ SumFunctionOnSet(w, {}) = 0
           /\ \A s \in SUBSET D : SumFunctionOnSet(w, s) \in Int
           /\ \A s \in SUBSET D : \A x \in D \ s :
                SumFunctionOnSet(w, s \cup {x}) = SumFunctionOnSet(w, s) + w[x]
<1>1. PICK f : Adds(f, w, D)
  BY SumExists
<1>2. \A s \in SUBSET D : SumFunctionOnSet(w, s) = f[s]
  BY <1>1, SumIs
<1>3. \A s \in SUBSET D : \A x \in D \ s : s \cup {x} \in SUBSET D
  OBVIOUS
<1> QED
  BY <1>1, <1>2, <1>3 DEF Adds

\* Nothing adds up to nothing.
LEMMA SumOfZeros ==
    ASSUME NEW D, IsFiniteSet(D), NEW w \in [D -> Int], \A x \in D : w[x] = 0
    PROVE  SumFunctionOnSet(w, D) = 0
<1> DEFINE f == [s \in SUBSET D |-> 0]
<1>1. Adds(f, w, D)
  BY DEF Adds
<1> QED
  BY <1>1, SumIs

\* A sum changes by what one of its values does.
LEMMA SumMoves ==
    ASSUME NEW D, IsFiniteSet(D), NEW w \in [D -> Int], NEW v \in [D -> Int], NEW m \in D,
           \A x \in D \ {m} : w[x] = v[x]
    PROVE  SumFunctionOnSet(v, D) = SumFunctionOnSet(w, D) + (v[m] - w[m])
<1> DEFINE r == D \ {m}
<1>1. r \in SUBSET D /\ m \in D \ r /\ r \cup {m} = D
  OBVIOUS
<1>2. SumFunctionOnSet(w, r) = SumFunctionOnSet(v, r)
  BY <1>1, SumAgrees
<1> HIDE DEF r
<1>3. SumFunctionOnSet(w, r \cup {m}) = SumFunctionOnSet(w, r) + w[m]
  BY <1>1, SumLaws
<1>4. SumFunctionOnSet(v, r \cup {m}) = SumFunctionOnSet(v, r) + v[m]
  BY <1>1, SumLaws
<1>5. SumFunctionOnSet(w, r) \in Int /\ w[m] \in Int /\ v[m] \in Int
  BY <1>1, SumLaws
<1>6. SumFunctionOnSet(w, D) = SumFunctionOnSet(w, r) + w[m]
  BY <1>1, <1>3
<1>7. SumFunctionOnSet(v, D) = SumFunctionOnSet(w, r) + v[m]
  BY <1>1, <1>2, <1>4
<1> QED
  BY <1>5, <1>6, <1>7
-----------------------------------------------------------------------------

\* The verdicts there are.
TierNames == {"ALLOW", "WARN", "FAILOVER"}

\* The calls whose cost is in a row.
SavedCalls == {c \in LlmCalls : saving[c] = "saved"}

\* The types, as far as the model's type invariant leaves them open.
LedgerTypes ==
    /\ charge \in [LlmCalls -> [model : LlmModels, cost : {-1} \cup (1 .. MaxCost)]]
    /\ verdict \in [LlmCalls -> {"none", "asking", "BLOCK"} \cup TierNames]
    /\ saving \in [LlmCalls -> {"none", "queued", "found", "saved", "lost"}]
    /\ rowSeen \in [LlmCalls -> Nat \cup {-1}] /\ ledger \in [LlmModels -> Nat \cup {-1}]
    /\ blurred \subseteq LlmModels /\ guessed \subseteq LlmCalls
    /\ spentThen \in [LlmCalls -> Int]

\* An update is begun with the charge, and a lost one has blurred its model.
ChargesInv ==
    \A c \in LlmCalls :
        /\ charge[c].cost = -1 <=> charge[c] = NoCharge
        /\ saving[c] = "none" <=> charge[c] = NoCharge
        /\ verdict[c] = "none" <=> charge[c] = NoCharge
        /\ saving[c] = "lost" => charge[c].model \in blurred

\* What an update has found is never more than the ledger should show by now, and what it
\* shows, when no other is at it.
FoundInv ==
    \A c \in LlmCalls : saving[c] = "found" =>
        /\ Max({rowSeen[c], 0}) <= Cost(SavedOf(charge[c].model))
        /\ charge[c].model \notin blurred =>
             /\ rowSeen[c] = ledger[charge[c].model]
             /\ \A d \in LlmCalls : saving[d] = "found" /\ charge[d].model = charge[c].model => d = c

\* The total of the day is the sum of what was saved.
TotalInv == blurred = {} => DailyTotal = Cost(SavedCalls)

\* A verdict that was not guessed is a tier of what was spent.
VerdictInv ==
    \A c \in LlmCalls \ guessed : verdict[c] \in TierNames =>
        verdict[c] \in {Tier(spentThen[c]), Tier(spentThen[c] + charge[c].cost)}

\* The inductive invariant. LedgerIsExact needs what each update has found, and that
\* the total of the day needs every row to be the sum of what was saved.
LedgerInv == LedgerTypes /\ ChargesInv /\ FoundInv /\ LedgerIsExact /\ TotalInv /\ VerdictInv

\* What calls cost together.
LEMMA CostLaws ==
    ASSUME LedgerTypes
    PROVE  /\ Cost({}) = 0
           /\ \A s \in SUBSET LlmCalls : Cost(s) \in Int
           /\ \A s \in SUBSET LlmCalls : \A x \in LlmCalls \ s : Cost(s \cup {x}) = Cost(s) + charge[x].cost
<1> DEFINE w == [c \in LlmCalls |-> charge[c].cost]
<1>1. w \in [LlmCalls -> Int]
  BY DEF LedgerTypes
<1>2. IsFiniteSet(LlmCalls)
  BY LedgerAssumption
<1>3. \A s : Cost(s) = SumFunctionOnSet(w, s)
  BY DEF Cost
<1>4. \A x \in LlmCalls : w[x] = charge[x].cost
  OBVIOUS
<1> HIDE DEF w
<1>5. /\ SumFunctionOnSet(w, {}) = 0
      /\ \A s \in SUBSET LlmCalls : SumFunctionOnSet(w, s) \in Int
      /\ \A s \in SUBSET LlmCalls : \A x \in LlmCalls \ s :
           SumFunctionOnSet(w, s \cup {x}) = SumFunctionOnSet(w, s) + w[x]
  BY <1>1, <1>2, SumLaws
<1> QED
  BY <1>3, <1>4, <1>5

\* Calls that keep their charge cost what they did.
LEMMA CostStays ==
    ASSUME LedgerTypes, LedgerTypes', NEW s \in SUBSET LlmCalls, \A c \in s : charge'[c] = charge[c]
    PROVE  Cost(s)' = Cost(s)
<1> DEFINE w == [c \in LlmCalls |-> charge[c].cost]
           v == [c \in LlmCalls |-> charge'[c].cost]
<1>1. w \in [LlmCalls -> Int] /\ v \in [LlmCalls -> Int]
  BY DEF LedgerTypes
<1>2. \A x \in s : w[x] = v[x]
  OBVIOUS
<1>3. Cost(s) = SumFunctionOnSet(w, s) /\ Cost(s)' = SumFunctionOnSet(v, s)
  BY DEF Cost
<1> HIDE DEF w, v
<1>4. SumFunctionOnSet(w, s) = SumFunctionOnSet(v, s)
  BY <1>1, <1>2, SumAgrees, LedgerAssumption
<1> QED
  BY <1>3, <1>4

\* Nothing is saved: the sums of what was stay.
LEMMA SavedStays ==
    ASSUME LedgerTypes, LedgerTypes',
           \A c \in LlmCalls : saving'[c] = "saved" <=> saving[c] = "saved",
           \A c \in LlmCalls : saving[c] = "saved" => charge'[c] = charge[c]
    PROVE  /\ Cost(SavedCalls)' = Cost(SavedCalls)
           /\ \A m \in LlmModels : Cost(SavedOf(m))' = Cost(SavedOf(m))
<1>1. SavedCalls' = SavedCalls /\ \A m \in LlmModels : SavedOf(m)' = SavedOf(m)
  BY DEF SavedCalls, SavedOf
<1>2. SavedCalls \in SUBSET LlmCalls /\ \A c \in SavedCalls : charge'[c] = charge[c]
  BY DEF SavedCalls
<1>3. \A s \in SUBSET LlmCalls : (\A c \in s : charge'[c] = charge[c]) => Cost(s)' = Cost(s)
  BY CostStays
<1>4. Cost(SavedCalls)' = Cost(SavedCalls)
  BY <1>1, <1>2, <1>3
<1>5. ASSUME NEW m \in LlmModels PROVE Cost(SavedOf(m))' = Cost(SavedOf(m))
  <2>1. SavedOf(m) \in SUBSET LlmCalls /\ \A c \in SavedOf(m) : charge'[c] = charge[c]
    BY DEF SavedOf
  <2> QED
    BY <2>1, <1>1, <1>3
<1> QED
  BY <1>4, <1>5

\* A more keeps the types.
LEMMA LedgerTypesKept == ASSUME LedgerTypes, [LedgerNext]_ledgerVars PROVE LedgerTypes'
<1>1. CASE UNCHANGED ledgerVars
  BY <1>1 DEF LedgerTypes, ledgerVars
<1>2. ASSUME NEW c \in LlmCalls, NEW m \in LlmModels, NEW cost \in 1 .. MaxCost, RecordUsage(c, m, cost)
      PROVE  LedgerTypes'
  BY <1>2 DEF LedgerTypes, RecordUsage
<1>3. ASSUME NEW c \in LlmCalls, Judge(c) PROVE LedgerTypes'
  <2>1. Tier(DailyTotal + charge[c].cost) \in TierNames
    BY DEF Tier, TierNames
  <2>2. Cost(Spent) \in Int
    BY CostLaws DEF Spent
  <2> QED
    BY <1>3, <2>1, <2>2 DEF LedgerTypes, Judge
<1>4. ASSUME NEW c \in LlmCalls, JudgeFails(c) PROVE LedgerTypes'
  BY <1>4 DEF LedgerTypes, JudgeFails, TierNames
<1>5. ASSUME NEW c \in LlmCalls, FindRow(c) PROVE LedgerTypes'
  <2>1. charge[c].model \in LlmModels
    BY DEF LedgerTypes
  <2> QED
    BY <1>5, <2>1 DEF LedgerTypes, FindRow
<1>6. ASSUME NEW c \in LlmCalls, WriteRow(c) PROVE LedgerTypes'
  <2> DEFINE m == charge[c].model
             sum == Max({rowSeen[c], 0}) + charge[c].cost
  <2>1. m \in LlmModels /\ rowSeen[c] \in Int
    BY DEF LedgerTypes
  <2>2. Max({rowSeen[c], 0}) \in Nat
    BY <2>1, GreatestOfTwo
  <2>3. sum \in Nat \cup {-1}
    BY <2>2 DEF LedgerTypes
  <2>4. ledger' = ledger \/ ledger' = [ledger EXCEPT ![m] = sum]
    BY <1>6 DEF WriteRow
  <2> HIDE DEF sum, m
  <2>5. ledger' \in [LlmModels -> Nat \cup {-1}]
    BY <2>1, <2>3, <2>4 DEF LedgerTypes
  <2>6. saving' \in [LlmCalls -> {"none", "queued", "found", "saved", "lost"}]
    BY <1>6 DEF LedgerTypes, WriteRow
  <2> QED
    BY <1>6, <2>5, <2>6 DEF LedgerTypes, WriteRow
<1>7. ASSUME NEW c \in LlmCalls, SaveFails(c) PROVE LedgerTypes'
  <2>1. charge[c].model \in LlmModels
    BY DEF LedgerTypes
  <2> QED
    BY <1>7, <2>1 DEF LedgerTypes, SaveFails
<1> QED
  BY <1>1, <1>2, <1>3, <1>4, <1>5, <1>6, <1>7 DEF LedgerNext

\* A verdict is drawn: the updates are left alone.
LEMMA LedgerRests ==
    ASSUME LedgerInv, LedgerTypes', UNCHANGED <<charge, saving, rowSeen, ledger, blurred>>
    PROVE  FoundInv' /\ LedgerIsExact' /\ TotalInv'
<1>1. /\ Cost(SavedCalls)' = Cost(SavedCalls)
      /\ \A m \in LlmModels : Cost(SavedOf(m))' = Cost(SavedOf(m))
  BY SavedStays DEF LedgerInv
<1>2. \A c \in LlmCalls : charge[c].model \in LlmModels
  BY DEF LedgerInv, LedgerTypes
<1>3. DailyTotal' = DailyTotal
  BY DEF DailyTotal
<1>4. FoundInv'
  BY <1>1, <1>2 DEF LedgerInv, FoundInv
<1>5. LedgerIsExact'
  BY <1>1 DEF LedgerInv, LedgerIsExact
<1>6. TotalInv'
  BY <1>1, <1>3 DEF LedgerInv, TotalInv
<1> QED
  BY <1>4, <1>5, <1>6

\* record_usage(): the charge of a call that had none is in no sum yet.
LEMMA RecordUsageKeeps ==
    ASSUME LedgerInv, LedgerTypes', NEW c \in LlmCalls, NEW m \in LlmModels, NEW cost \in 1 .. MaxCost,
           RecordUsage(c, m, cost)
    PROVE  LedgerInv'
<1>1. saving[c] = "none" /\ verdict[c] = "none"
  BY DEF LedgerInv, ChargesInv, RecordUsage
<1>2. \A d \in LlmCalls : d # c =>
        charge'[d] = charge[d] /\ saving'[d] = saving[d] /\ verdict'[d] = verdict[d]
  BY DEF RecordUsage
<1>3. charge'[c] = [model |-> m, cost |-> cost] /\ saving'[c] = "queued" /\
      verdict'[c] \in {"BLOCK", "asking"}
  BY DEF RecordUsage, LedgerInv, LedgerTypes
<1>4. /\ Cost(SavedCalls)' = Cost(SavedCalls)
      /\ \A n \in LlmModels : Cost(SavedOf(n))' = Cost(SavedOf(n))
  <2>1. \A d \in LlmCalls : saving'[d] = "saved" <=> saving[d] = "saved"
    BY <1>1, <1>2, <1>3
  <2>2. \A d \in LlmCalls : saving[d] = "saved" => charge'[d] = charge[d]
    BY <1>1, <1>2
  <2> QED
    BY <2>1, <2>2, SavedStays DEF LedgerInv
<1>5. charge'[c] # NoCharge /\ charge'[c].cost # -1
  <2>1. NoCharge.cost = -1
    BY DEF NoCharge
  <2>2. charge'[c].cost = cost /\ cost # -1
    BY <1>3
  <2> QED
    BY <2>1, <2>2
<1>6. ChargesInv'
  <2> SUFFICES ASSUME NEW d \in LlmCalls
               PROVE  /\ charge'[d].cost = -1 <=> charge'[d] = NoCharge
                      /\ saving'[d] = "none" <=> charge'[d] = NoCharge
                      /\ verdict'[d] = "none" <=> charge'[d] = NoCharge
                      /\ saving'[d] = "lost" => charge'[d].model \in blurred'
    BY DEF ChargesInv, NoCharge
  <2>1. CASE d = c
    BY <2>1, <1>3, <1>5
  <2>2. CASE d # c
    <3>1. blurred' = blurred
      BY DEF RecordUsage
    <3> QED
      BY <2>2, <3>1, <1>2 DEF LedgerInv, ChargesInv
  <2> QED
    BY <2>1, <2>2
<1>7. rowSeen' = rowSeen /\ ledger' = ledger /\ blurred' = blurred /\ spentThen' = spentThen /\
      guessed' = guessed
  BY DEF RecordUsage
<1>8. FoundInv'
  <2> SUFFICES ASSUME NEW d \in LlmCalls, saving'[d] = "found"
               PROVE  /\ Max({rowSeen'[d], 0}) <= Cost(SavedOf(charge[d].model))'
                      /\ charge'[d].model \notin blurred' =>
                           /\ rowSeen'[d] = ledger'[charge'[d].model]
                           /\ \A e \in LlmCalls : saving'[e] = "found" /\
                              charge'[e].model = charge'[d].model => e = d
    BY DEF FoundInv
  <2>1. d # c /\ saving[d] = "found" /\ charge'[d] = charge[d] /\ charge[d].model \in LlmModels
    BY <1>2, <1>3 DEF LedgerInv, LedgerTypes
  <2>2. Max({rowSeen'[d], 0}) <= Cost(SavedOf(charge[d].model))'
    BY <2>1, <1>4, <1>7 DEF LedgerInv, FoundInv
  <2>3. \A e \in LlmCalls : saving'[e] = "found" => e # c /\ saving[e] = "found" /\
        charge'[e] = charge[e]
    BY <1>2, <1>3
  <2> QED
    BY <2>1, <2>2, <2>3, <1>7 DEF LedgerInv, FoundInv
<1>9. LedgerIsExact'
  BY <1>4, <1>7 DEF LedgerInv, LedgerIsExact
<1>10. TotalInv'
  <2>1. DailyTotal' = DailyTotal
    BY <1>7 DEF DailyTotal
  <2> QED
    BY <2>1, <1>4, <1>7 DEF LedgerInv, TotalInv
<1>11. VerdictInv'
  <2>1. verdict'[c] \notin TierNames
    BY <1>3 DEF TierNames
  <2> QED
    BY <2>1, <1>2, <1>7 DEF LedgerInv, VerdictInv
<1> QED
  BY <1>6, <1>8, <1>9, <1>10, <1>11 DEF LedgerInv

\* When nothing else is under way and nothing was lost, the total is what was spent before
\* this call's own update, or with it.
LEMMA TotalIsSpent ==
    ASSUME LedgerInv, NEW c \in LlmCalls, charge[c] # NoCharge, Pending \subseteq {c}, blurred = {}
    PROVE  DailyTotal + charge[c].cost \in {Cost(Spent), Cost(Spent) + charge[c].cost}
<1>1. DailyTotal = Cost(SavedCalls)
  BY DEF LedgerInv, TotalInv
<1>2. \A d \in LlmCalls : charge[d] # NoCharge <=> saving[d] \in {"queued", "found", "saved"}
  BY DEF LedgerInv, LedgerTypes, ChargesInv
<1>3. \A d \in LlmCalls : saving[d] \in {"queued", "found"} => d = c
  BY DEF Pending
<1>4. CASE saving[c] = "saved"
  <2>1. Spent = SavedCalls
    BY <1>2, <1>3, <1>4 DEF Spent, SavedCalls
  <2> QED
    BY <1>1, <2>1
<1>5. CASE saving[c] # "saved"
  <2>1. Spent = SavedCalls \cup {c} /\ c \in LlmCalls \ SavedCalls /\ SavedCalls \in SUBSET LlmCalls
    BY <1>2, <1>3, <1>5 DEF Spent, SavedCalls
  <2>2. Cost(SavedCalls \cup {c}) = Cost(SavedCalls) + charge[c].cost
    BY <2>1, CostLaws DEF LedgerInv
  <2> QED
    BY <1>1, <2>1, <2>2
<1> QED
  BY <1>4, <1>5

\* A verdict without a guess is the tier of what was spent, with this call once or twice.
LEMMA JudgeKeeps == ASSUME LedgerInv, LedgerTypes', NEW c \in LlmCalls, Judge(c) PROVE LedgerInv'
<1>1. UNCHANGED <<charge, saving, rowSeen, ledger, blurred>>
  BY DEF Judge
<1>2. FoundInv' /\ LedgerIsExact' /\ TotalInv'
  BY <1>1, LedgerRests
<1>3. /\ verdict'[c] = Tier(DailyTotal + charge[c].cost)
      /\ spentThen'[c] = Cost(Spent)
      /\ \A d \in LlmCalls : d # c => verdict'[d] = verdict[d] /\ spentThen'[d] = spentThen[d]
  BY DEF Judge, LedgerInv, LedgerTypes
<1>4. charge[c] # NoCharge /\ verdict'[c] # "none"
  <2>1. Tier(DailyTotal + charge[c].cost) \in TierNames
    BY DEF Tier, TierNames
  <2> QED
    BY <1>3, <2>1 DEF Judge, LedgerInv, ChargesInv, TierNames
<1>5. ChargesInv'
  BY <1>1, <1>3, <1>4 DEF LedgerInv, ChargesInv, NoCharge
<1>6. guessed \subseteq guessed' /\ (c \notin guessed' => Pending \subseteq {c} /\ blurred = {})
  BY DEF Judge
<1>7. VerdictInv'
  <2> SUFFICES ASSUME NEW d \in LlmCalls, d \notin guessed', verdict'[d] \in TierNames
               PROVE  verdict'[d] \in {Tier(spentThen'[d]), Tier(spentThen'[d] + charge'[d].cost)}
    BY DEF VerdictInv, Tier
  <2>1. CASE d = c
    <3>1. DailyTotal + charge[c].cost \in {Cost(Spent), Cost(Spent) + charge[c].cost}
      BY <1>4, <1>6, <2>1, TotalIsSpent
    <3> QED
      BY <3>1, <2>1, <1>1, <1>3, Zenon
  <2>2. CASE d # c
    BY <2>2, <1>1, <1>3, <1>6 DEF LedgerInv, VerdictInv
  <2> QED
    BY <2>1, <2>2
<1> QED
  BY <1>2, <1>5, <1>7 DEF LedgerInv

\* A verdict without a total is a guess.
LEMMA JudgeFailsKeeps == ASSUME LedgerInv, LedgerTypes', NEW c \in LlmCalls,
  JudgeFails(c) PROVE LedgerInv'
<1>1. UNCHANGED <<charge, saving, rowSeen, ledger, blurred, spentThen>>
  BY DEF JudgeFails
<1>2. FoundInv' /\ LedgerIsExact' /\ TotalInv'
  BY <1>1, LedgerRests
<1>3. /\ verdict[c] = "asking" /\ verdict'[c] = "ALLOW" /\ guessed' = guessed \cup {c}
      /\ \A d \in LlmCalls : d # c => verdict'[d] = verdict[d]
  BY DEF JudgeFails, LedgerInv, LedgerTypes
<1>4. ChargesInv'
  BY <1>1, <1>3 DEF LedgerInv, ChargesInv, NoCharge
<1>5. VerdictInv'
  BY <1>1, <1>3 DEF LedgerInv, VerdictInv, Tier
<1> QED
  BY <1>2, <1>4, <1>5 DEF LedgerInv

\* The updates of the others stay, and no sum moves.
LEMMA UpdatesStay ==
    ASSUME LedgerInv, LedgerTypes', NEW c \in LlmCalls, saving[c] # "saved", saving'[c] # "saved",
           UNCHANGED <<charge, verdict, ledger, spentThen, guessed>>,
           saving[c] # "none", saving'[c] # "none", blurred \subseteq blurred',
           saving'[c] = "lost" => charge[c].model \in blurred',
           \A d \in LlmCalls : d # c => saving'[d] = saving[d]
    PROVE  /\ ChargesInv' /\ LedgerIsExact' /\ TotalInv' /\ VerdictInv'
           /\ \A m \in LlmModels : Cost(SavedOf(m))' = Cost(SavedOf(m))
<1>1. /\ Cost(SavedCalls)' = Cost(SavedCalls)
      /\ \A m \in LlmModels : Cost(SavedOf(m))' = Cost(SavedOf(m))
  BY SavedStays DEF LedgerInv
<1>2. ChargesInv'
  BY DEF LedgerInv, ChargesInv, NoCharge
<1>3. LedgerIsExact'
  BY <1>1 DEF LedgerInv, LedgerIsExact
<1>4. TotalInv'
  <2>1. DailyTotal' = DailyTotal
    BY DEF DailyTotal
  <2>2. blurred' = {} => blurred = {}
    OBVIOUS
  <2> QED
    BY <1>1, <2>1, <2>2 DEF LedgerInv, TotalInv
<1>5. VerdictInv'
  BY DEF LedgerInv, VerdictInv, Tier
<1> QED
  BY <1>1, <1>2, <1>3, <1>4, <1>5

\* What an update finds is what the ledger shows, and two that have found are an overlap.
LEMMA FindRowKeeps == ASSUME LedgerInv, LedgerTypes', NEW c \in LlmCalls, FindRow(c) PROVE LedgerInv'
<1> DEFINE m == charge[c].model
<1>1. /\ saving[c] = "queued" /\ saving'[c] = "found" /\ rowSeen'[c] = ledger[m]
      /\ \A d \in LlmCalls : d # c => saving'[d] = saving[d] /\ rowSeen'[d] = rowSeen[d]
      /\ UNCHANGED <<charge, verdict, ledger, spentThen, guessed>>
  BY DEF FindRow, LedgerInv, LedgerTypes
<1>2. blurred \subseteq blurred' /\ (Overlaps(c) => m \in blurred')
  BY DEF FindRow
<1>3. /\ ChargesInv' /\ LedgerIsExact' /\ TotalInv' /\ VerdictInv'
      /\ \A n \in LlmModels : Cost(SavedOf(n))' = Cost(SavedOf(n))
  BY <1>1, <1>2, UpdatesStay
<1>4. \A d \in LlmCalls : charge[d].model \in LlmModels
  BY DEF LedgerInv, LedgerTypes
<1>5. FoundInv'
  <2> SUFFICES ASSUME NEW d \in LlmCalls, saving'[d] = "found"
               PROVE  /\ Max({rowSeen'[d], 0}) <= Cost(SavedOf(charge[d].model))'
                      /\ charge[d].model \notin blurred' =>
                           /\ rowSeen'[d] = ledger[charge[d].model]
                           /\ \A e \in LlmCalls : saving'[e] = "found" /\
                              charge[e].model = charge[d].model => e = d
    BY <1>1 DEF FoundInv
  <2>1. Max({rowSeen'[d], 0}) <= Cost(SavedOf(charge[d].model)) /\
        (charge[d].model \notin blurred' => rowSeen'[d] = ledger[charge[d].model])
    <3>1. CASE d = c
      BY <3>1, <1>1, <1>4 DEF LedgerInv, LedgerIsExact
    <3>2. CASE d # c
      BY <3>2, <1>1, <1>2 DEF LedgerInv, FoundInv
    <3> QED
      BY <3>1, <3>2
  <2>2. ASSUME charge[d].model \notin blurred', NEW e \in LlmCalls, saving'[e] = "found",
               charge[e].model = charge[d].model
        PROVE  e = d
    <3>1. CASE d # c /\ e # c
      BY <2>2, <3>1, <1>1, <1>2 DEF LedgerInv, FoundInv
    <3>2. CASE d = c /\ e # c
      BY <2>2, <3>2, <1>1, <1>2 DEF Overlaps
    <3>3. CASE d # c /\ e = c
      BY <2>2, <3>3, <1>1, <1>2 DEF Overlaps
    <3> QED
      BY <3>1, <3>2, <3>3
  <2>3. Cost(SavedOf(charge[d].model))' = Cost(SavedOf(charge[d].model))
    <3>1. charge'[d].model = charge[d].model
      BY <1>1
    <3>2. \A n \in LlmModels : n = charge'[d].model =>
          Cost(SavedOf(charge[d].model))' = Cost(SavedOf(n))'
      OBVIOUS
    <3> QED
      BY <3>1, <3>2, <1>3, <1>4, Zenon
  <2> QED
    BY <2>1, <2>2, <2>3
<1> QED
  BY <1>3, <1>5 DEF LedgerInv

\* A failed update blurs its model.
LEMMA SaveFailsKeeps == ASSUME LedgerInv, LedgerTypes', NEW c \in LlmCalls,
  SaveFails(c) PROVE LedgerInv'
<1>1. /\ saving[c] \in {"queued", "found"} /\ saving'[c] = "lost"
      /\ \A d \in LlmCalls : d # c => saving'[d] = saving[d] /\ rowSeen'[d] = rowSeen[d]
      /\ UNCHANGED <<charge, verdict, ledger, spentThen, guessed>>
      /\ blurred' = blurred \cup {charge[c].model}
  BY DEF SaveFails, LedgerInv, LedgerTypes
<1>2. /\ ChargesInv' /\ LedgerIsExact' /\ TotalInv' /\ VerdictInv'
      /\ \A n \in LlmModels : Cost(SavedOf(n))' = Cost(SavedOf(n))
  BY <1>1, UpdatesStay
<1>3. FoundInv'
  <2>1. \A d \in LlmCalls : saving'[d] = "found" => d # c /\ saving[d] = "found"
    BY <1>1
  <2>2. \A d \in LlmCalls : charge[d].model \in LlmModels
    BY DEF LedgerInv, LedgerTypes
  <2> QED
    BY <1>1, <1>2, <2>1, <2>2 DEF LedgerInv, FoundInv
<1> QED
  BY <1>2, <1>3 DEF LedgerInv

\* A cost is saved: the sums of its model and of the day grow by it.
LEMMA SavedGrows ==
    ASSUME LedgerTypes, LedgerTypes', charge' = charge, NEW c \in LlmCalls, NEW m \in LlmModels,
           charge[c].model = m, saving[c] # "saved",
           saving'[c] = "saved", \A d \in LlmCalls : d # c => saving'[d] = saving[d]
    PROVE  /\ Cost(SavedCalls)' = Cost(SavedCalls) + charge[c].cost
           /\ Cost(SavedOf(m))' = Cost(SavedOf(m)) + charge[c].cost
           /\ \A n \in LlmModels : n # m => Cost(SavedOf(n))' = Cost(SavedOf(n))
<1>1. \A s \in SUBSET LlmCalls : Cost(s)' = Cost(s)
  BY CostStays
<1>2. ASSUME NEW s \in SUBSET LlmCalls, c \notin s
      PROVE  Cost(s \cup {c}) = Cost(s) + charge[c].cost
  BY <1>2, CostLaws
<1>3. SavedCalls \in SUBSET LlmCalls /\ c \notin SavedCalls /\ SavedCalls' = SavedCalls \cup {c}
  BY DEF SavedCalls
<1>4. SavedOf(m) \in SUBSET LlmCalls /\ c \notin SavedOf(m) /\ SavedOf(m)' = SavedOf(m) \cup {c}
  BY DEF SavedOf
<1>5. \A n \in LlmModels : n # m => SavedOf(n)' = SavedOf(n) /\ SavedOf(n) \in SUBSET LlmCalls
  BY DEF SavedOf
<1>6. Cost(SavedCalls)' = Cost(SavedCalls \cup {c})
  BY <1>1, <1>3
<1>7. Cost(SavedOf(m))' = Cost(SavedOf(m) \cup {c})
  BY <1>1, <1>4
<1>8. \A n \in LlmModels : n # m => Cost(SavedOf(n))' = Cost(SavedOf(n))
  BY <1>1, <1>5
<1> QED
  BY <1>2, <1>3, <1>4, <1>6, <1>7, <1>8

\* The total of the day follows one row.
LEMMA TotalMoves ==
    ASSUME LedgerTypes, LedgerTypes', NEW m \in LlmModels,
           \A n \in LlmModels : n # m => ledger'[n] = ledger[n]
    PROVE  DailyTotal' = DailyTotal + (Max({ledger'[m], 0}) - Max({ledger[m], 0}))
<1> DEFINE w == [n \in LlmModels |-> Max({ledger[n], 0})]
           v == [n \in LlmModels |-> Max({ledger'[n], 0})]
<1>1. w \in [LlmModels -> Int] /\ v \in [LlmModels -> Int]
  <2>1. \A n \in LlmModels : ledger[n] \in Int /\ ledger'[n] \in Int
    BY DEF LedgerTypes
  <2>2. \A n \in LlmModels : Max({ledger[n], 0}) \in Int /\ Max({ledger'[n], 0}) \in Int
    BY <2>1, GreatestOfTwo
  <2> QED
    BY <2>2
<1>2. \A n \in LlmModels \ {m} : w[n] = v[n]
  OBVIOUS
<1>3. w[m] = Max({ledger[m], 0}) /\ v[m] = Max({ledger'[m], 0})
  OBVIOUS
<1>4. DailyTotal = SumFunctionOnSet(w, LlmModels) /\ DailyTotal' = SumFunctionOnSet(v, LlmModels)
  BY DEF DailyTotal
<1> HIDE DEF w, v
<1>5. SumFunctionOnSet(v, LlmModels) = SumFunctionOnSet(w, LlmModels) + (v[m] - w[m])
  BY <1>1, <1>2, SumMoves, LedgerAssumption
<1> QED
  BY <1>3, <1>4, <1>5

\* A second row is refused: its model is blurred already.
LEMMA RefusedKeeps ==
    ASSUME LedgerInv, LedgerTypes', NEW c \in LlmCalls, WriteRow(c), saving'[c] = "lost"
    PROVE  LedgerInv'
<1>1. /\ saving[c] = "found"
      /\ \A d \in LlmCalls : d # c => saving'[d] = saving[d] /\ rowSeen'[d] = rowSeen[d]
      /\ UNCHANGED <<charge, verdict, blurred, spentThen, guessed>>
  BY DEF WriteRow, LedgerInv, LedgerTypes
<1>2. ledger' = ledger /\ rowSeen[c] = -1 /\ ledger[charge[c].model] # -1
  BY DEF WriteRow, LedgerInv, LedgerTypes
<1>3. charge[c].model \in blurred'
  BY <1>1, <1>2 DEF LedgerInv, FoundInv
<1>4. /\ ChargesInv' /\ LedgerIsExact' /\ TotalInv' /\ VerdictInv'
      /\ \A n \in LlmModels : Cost(SavedOf(n))' = Cost(SavedOf(n))
  BY <1>1, <1>2, <1>3, UpdatesStay
<1>5. FoundInv'
  <2>1. \A d \in LlmCalls : saving'[d] = "found" => d # c /\ saving[d] = "found"
    BY <1>1
  <2>2. \A d \in LlmCalls : charge[d].model \in LlmModels
    BY DEF LedgerInv, LedgerTypes
  <2> QED
    BY <1>1, <1>2, <1>4, <2>1, <2>2 DEF LedgerInv, FoundInv
<1> QED
  BY <1>4, <1>5 DEF LedgerInv

\* The sum is written: exact, if the row is what was found.
LEMMA SaveKeeps ==
    ASSUME LedgerInv, LedgerTypes', NEW c \in LlmCalls, NEW m \in LlmModels, charge[c].model = m,
           WriteRow(c), saving'[c] # "lost"
    PROVE  LedgerInv'
<1>1. /\ saving[c] = "found" /\ saving'[c] = "saved"
      /\ \A d \in LlmCalls : d # c => saving'[d] = saving[d] /\ rowSeen'[d] = rowSeen[d]
      /\ UNCHANGED <<charge, verdict, blurred, spentThen, guessed>>
      /\ ledger'[m] = Max({rowSeen[c], 0}) + charge[c].cost
      /\ \A n \in LlmModels : n # m => ledger'[n] = ledger[n]
  BY DEF WriteRow, LedgerInv, LedgerTypes
<1>2. /\ Cost(SavedCalls)' = Cost(SavedCalls) + charge[c].cost
      /\ Cost(SavedOf(m))' = Cost(SavedOf(m)) + charge[c].cost
      /\ \A n \in LlmModels : n # m => Cost(SavedOf(n))' = Cost(SavedOf(n))
  BY <1>1, SavedGrows DEF LedgerInv
<1>3. /\ charge[c].cost \in Nat /\ Cost(SavedCalls) \in Int
      /\ \A n \in LlmModels : Cost(SavedOf(n)) \in Int
  <2>1. SavedCalls \in SUBSET LlmCalls /\ \A n \in LlmModels : SavedOf(n) \in SUBSET LlmCalls
    BY DEF SavedCalls, SavedOf
  <2>2. charge[c].cost # -1
    BY <1>1 DEF LedgerInv, ChargesInv
  <2> QED
    BY <2>1, <2>2, CostLaws DEF LedgerInv, LedgerTypes
<1>4. /\ \A x \in Nat \cup {-1} : Max({x, 0}) = IF x < 0 THEN 0 ELSE x
      /\ rowSeen[c] \in Nat \cup {-1} /\ ledger[m] \in Nat \cup {-1}
  BY <1>1, GreatestOfTwo DEF LedgerInv, LedgerTypes
<1>5. Max({ledger'[m], 0}) = Max({rowSeen[c], 0}) + charge[c].cost
  BY <1>1, <1>3, <1>4
<1>6. Max({rowSeen[c], 0}) <= Cost(SavedOf(m)) /\ (m \notin blurred => rowSeen[c] = ledger[m])
  BY <1>1 DEF LedgerInv, FoundInv
<1>7. ChargesInv'
  BY <1>1 DEF LedgerInv, ChargesInv, NoCharge
<1>8. FoundInv'
  <2> SUFFICES ASSUME NEW d \in LlmCalls, saving'[d] = "found"
               PROVE  /\ Max({rowSeen'[d], 0}) <= Cost(SavedOf(charge[d].model))'
                      /\ charge[d].model \notin blurred =>
                           /\ rowSeen'[d] = ledger'[charge[d].model]
                           /\ \A e \in LlmCalls : saving'[e] = "found" /\
                              charge[e].model = charge[d].model => e = d
    BY <1>1 DEF FoundInv
  <2>1. d # c /\ saving[d] = "found" /\ rowSeen'[d] = rowSeen[d] /\ charge[d].model \in LlmModels
    BY <1>1 DEF LedgerInv, LedgerTypes
  <2>2. /\ Max({rowSeen[d], 0}) <= Cost(SavedOf(charge[d].model))
        /\ charge[d].model \notin blurred =>
             /\ rowSeen[d] = ledger[charge[d].model]
             /\ \A e \in LlmCalls : saving[e] = "found" /\ charge[e].model = charge[d].model => e = d
    BY <2>1 DEF LedgerInv, FoundInv
  <2>3. Max({rowSeen[d], 0}) \in Int
    <3>1. rowSeen[d] \in Int
      BY DEF LedgerInv, LedgerTypes
    <3> QED
      BY <3>1, GreatestOfTwo
  <2>7. Cost(SavedOf(charge[d].model)) <= Cost(SavedOf(charge[d].model))'
    <3>1. charge'[d].model = charge[d].model
      BY <1>1
    <3>2. \A n \in LlmModels : Cost(SavedOf(n)) <= Cost(SavedOf(n))'
      BY <1>2, <1>3
    <3>3. \A n \in LlmModels : n = charge'[d].model =>
          Cost(SavedOf(charge[d].model))' = Cost(SavedOf(n))'
      OBVIOUS
    <3> QED
      BY <2>1, <3>1, <3>2, <3>3
  <2>8. Cost(SavedOf(charge[d].model)) \in Int /\ Cost(SavedOf(charge[d].model))' \in Int
    BY <2>1, <1>2, <1>3, <1>1
  <2>4. Max({rowSeen'[d], 0}) <= Cost(SavedOf(charge[d].model))'
    BY <2>1, <2>2, <2>3, <2>7, <2>8
  <2>5. charge[d].model \notin blurred => charge[d].model # m
    BY <2>1, <2>2, <1>1
  <2>6. \A e \in LlmCalls : saving'[e] = "found" => saving[e] = "found"
    BY <1>1
  <2> QED
    BY <2>1, <2>2, <2>4, <2>5, <2>6, <1>1
<1>9. LedgerIsExact'
  <2> SUFFICES ASSUME NEW n \in LlmModels
               PROVE  /\ Max({ledger'[n], 0}) <= Cost(SavedOf(n))'
                      /\ n \notin blurred => Max({ledger'[n], 0}) = Cost(SavedOf(n))'
    BY <1>1 DEF LedgerIsExact
  <2>1. /\ Max({ledger[n], 0}) <= Cost(SavedOf(n))
        /\ n \notin blurred => Max({ledger[n], 0}) = Cost(SavedOf(n))
    BY DEF LedgerInv, LedgerIsExact
  <2>2. CASE n = m
    <3>1. Max({rowSeen[c], 0}) \in Int
      BY <1>4
    <3>2. Max({ledger'[m], 0}) <= Cost(SavedOf(m))'
      BY <3>1, <1>2, <1>3, <1>5, <1>6, <1>1
    <3>3. m \notin blurred => Max({ledger'[m], 0}) = Cost(SavedOf(m))'
      BY <2>1, <2>2, <1>2, <1>5, <1>6
    <3> QED
      BY <2>2, <3>2, <3>3, Zenon
  <2>3. CASE n # m
    BY <2>1, <2>3, <1>1, <1>2
  <2> QED
    BY <2>2, <2>3
<1>10. TotalInv'
  <2> SUFFICES ASSUME blurred = {} PROVE DailyTotal' = Cost(SavedCalls)'
    BY <1>1 DEF TotalInv
  <2>1. DailyTotal' = DailyTotal + (Max({ledger'[m], 0}) - Max({ledger[m], 0}))
    BY <1>1, TotalMoves DEF LedgerInv
  <2>2. DailyTotal = Cost(SavedCalls) /\ rowSeen[c] = ledger[m]
    BY <1>6 DEF LedgerInv, TotalInv
  <2>3. Max({ledger[m], 0}) \in Int /\ Max({ledger'[m], 0}) = Max({ledger[m], 0}) + charge[c].cost
    BY <2>2, <1>4, <1>5
  <2> QED
    BY <2>1, <2>2, <2>3, <1>2, <1>3
<1>11. VerdictInv'
  BY <1>1 DEF LedgerInv, VerdictInv, Tier
<1> QED
  BY <1>7, <1>8, <1>9, <1>10, <1>11 DEF LedgerInv

\* Nothing is charged.
LEMMA LedgerStarts == LedgerInit => LedgerInv
<1> SUFFICES ASSUME LedgerInit PROVE LedgerInv
  OBVIOUS
<1>1. NoCharge \in [model : LlmModels, cost : {-1}] /\ NoCharge.cost = -1
  BY LedgerAssumption DEF NoCharge
<1>2. LedgerTypes
  BY <1>1 DEF LedgerInit, LedgerTypes
<1>3. ChargesInv /\ FoundInv
  BY <1>1 DEF LedgerInit, ChargesInv, FoundInv
<1>4. SavedCalls = {} /\ \A m \in LlmModels : SavedOf(m) = {}
  BY DEF LedgerInit, SavedCalls, SavedOf
<1>5. Cost({}) = 0 /\ Max({-1, 0}) = 0
  BY <1>2, CostLaws, GreatestOfTwo
<1>6. LedgerIsExact
  BY <1>4, <1>5 DEF LedgerInit, LedgerIsExact
<1>7. DailyTotal = 0
  <2> DEFINE w == [m \in LlmModels |-> Max({ledger[m], 0})]
  <2>1. w \in [LlmModels -> Int] /\ \A m \in LlmModels : w[m] = 0
    BY <1>5 DEF LedgerInit
  <2>2. DailyTotal = SumFunctionOnSet(w, LlmModels)
    BY DEF DailyTotal
  <2>3. SumFunctionOnSet(w, LlmModels) = 0
    BY <2>1, SumOfZeros, LedgerAssumption
  <2> QED
    BY <2>2, <2>3
<1>8. TotalInv
  BY <1>4, <1>5, <1>7 DEF TotalInv
<1>9. VerdictInv
  BY DEF LedgerInit, VerdictInv, TierNames
<1> QED
  BY <1>2, <1>3, <1>6, <1>8, <1>9 DEF LedgerInv

\* Every more keeps it.
LEMMA LedgerStepKeeps == ASSUME LedgerInv, [LedgerNext]_ledgerVars PROVE LedgerInv'
<1>1. LedgerTypes'
  BY LedgerTypesKept DEF LedgerInv
<1>2. CASE UNCHANGED ledgerVars
  <2>1. UNCHANGED <<charge, saving, rowSeen, ledger, blurred>> /\
        UNCHANGED <<verdict, spentThen, guessed>>
    BY <1>2 DEF ledgerVars
  <2>2. FoundInv' /\ LedgerIsExact' /\ TotalInv'
    BY <1>1, <2>1, LedgerRests
  <2> QED
    BY <1>1, <2>1, <2>2 DEF LedgerInv, ChargesInv, NoCharge, VerdictInv, Tier
<1>3. ASSUME NEW c \in LlmCalls, WriteRow(c) PROVE LedgerInv'
  <2>1. charge[c].model \in LlmModels
    BY DEF LedgerInv, LedgerTypes
  <2>2. saving'[c] # "lost" => LedgerInv'
    <3> SUFFICES ASSUME NEW m \in LlmModels, charge[c].model = m, saving'[c] # "lost" PROVE LedgerInv'
      BY <2>1
    <3> QED
      BY <1>1, <1>3, SaveKeeps
  <2> QED
    BY <1>1, <1>3, <2>2, RefusedKeeps
<1> QED
  BY <1>1, <1>2, <1>3, RecordUsageKeeps, JudgeKeeps, JudgeFailsKeeps, FindRowKeeps,
     SaveFailsKeeps
     DEF LedgerNext

\* The tiers are in the order of the total.
LEMMA TierGrows ==
    ASSUME NEW a \in Int, NEW b \in Int, a <= b
    PROVE  ~Milder(Tier(b), Tier(a))
BY LedgerAssumption DEF Tier, Milder

\* The invariant is more than what CostLedgerSafe says.
LEMMA LedgerInvSafe == LedgerInv => CostLedgerSafe
<1> SUFFICES ASSUME LedgerInv PROVE CostLedgerSafe
  OBVIOUS
<1>1. LedgerTypeOK
  BY DEF LedgerInv, LedgerTypes, LedgerTypeOK, TierNames
<1>2. VerdictIsFair
  <2> SUFFICES ASSUME NEW c \in LlmCalls, c \notin guessed, verdict[c] \in TierNames
               PROVE  /\ ~Milder(verdict[c], Tier(spentThen[c]))
                      /\ ~Milder(Tier(spentThen[c] + charge[c].cost), verdict[c])
    BY DEF VerdictIsFair, TierNames
  <2> DEFINE low == spentThen[c]
             high == spentThen[c] + charge[c].cost
  <2>1. verdict[c] \in {Tier(low), Tier(high)}
    BY DEF LedgerInv, VerdictInv
  <2>2. charge[c].cost \in Nat
    BY DEF LedgerInv, LedgerTypes, ChargesInv, TierNames
  <2>3. low \in Int /\ high \in Int /\ low <= high
    BY <2>2 DEF LedgerInv, LedgerTypes
  <2> HIDE DEF low, high
  <2>4. ~Milder(Tier(low), Tier(low)) /\ ~Milder(Tier(high), Tier(low)) /\
        ~Milder(Tier(high), Tier(high))
    BY <2>3, TierGrows
  <2> QED
    BY <2>1, <2>4 DEF low, high
<1> QED
  BY <1>1, <1>2 DEF LedgerInv, CostLedgerSafe

-----------------------------------------------------------------------------
(* Goals in the store.                                                     *)

\* The requests and what they carry.
GoalCallStates ==
    [kind : Kinds \cup {"none", "create", "delete"}, goal : GoalIds \cup {NoGoalId},
     at : {"idle", "write", "reload", "publish", "complete"}, copy : GoalStatus \cup {"none"}]

\* The types, as far as the model's type invariant leaves them open.
GoalTypes ==
    /\ GoalRecordTypeOK
    /\ goalCalls \in [GoalCalls -> GoalCallStates]
    /\ announced \in [GoalIds -> GoalStatus \cup {"none"}]
    /\ meant \in [GoalIds -> GoalStatus]

\* A request is at work on a goal that was stored; it publishes a completion only
\* when the row has its date.
GoalCallInv ==
    \A c \in GoalCalls :
        LET mine == goalCalls[c]
        IN /\ mine.at = "idle" => mine = IdleCall
           /\ mine.at # "idle" => mine.goal \in GoalIds /\ goalLife[mine.goal] # "new"
           /\ mine.at # "write" => mine.kind # "delete"
           /\ mine.at = "reload" /\ mine.kind = "complete" =>
                goalRow[mine.goal].dated \/ goalLife[mine.goal] = "deleted"
           /\ mine.at = "publish" /\ mine.kind = "complete" => goalRow[mine.goal].dated
           /\ mine.at = "complete" => goalRow[mine.goal].dated

\* The row of a goal is what was meant, and Fresh before the goal is there.
GoalRowInv ==
    \A g \in GoalIds :
        /\ goalRow[g].status = meant[g]
        /\ goalRow[g].status = "completed" => goalRow[g].dated
        /\ goalLife[g] = "new" => goalRow[g] = Fresh

\* The request works on the goal.
WorksOn(c, g) == goalCalls[c].at # "idle" /\ goalCalls[c].goal = g

\* While nothing crosses, requests carry the status of the row, and an event that is
\* missing is about to be published.
EventInv ==
    \A g \in GoalIds \ unclear : goalLife[g] = "stored" =>
        /\ \A c \in GoalCalls : WorksOn(c, g) => goalCalls[c].copy = goalRow[g].status
        /\ announced[g] = goalRow[g].status \/ \E c \in GoalCalls : WorksOn(c, g) /\
           goalCalls[c].at # "write"

\* The inductive invariant.
GoalInv == GoalTypes /\ GoalCallInv /\ GoalRowInv /\ CompletionsAreStored /\ EventInv

\* A onto of one request moves that request only.
LEMMA GoalMoves ==
    ASSUME GoalInv, NEW c \in GoalCalls, NEW v \in GoalCallStates,
           goalCalls' = [goalCalls EXCEPT ![c] = v]
    PROVE  /\ goalCalls' \in [GoalCalls -> GoalCallStates] /\ goalCalls'[c] = v
           /\ \A d \in GoalCalls \ {c} : goalCalls'[d] = goalCalls[d]
BY DEF GoalInv, GoalTypes

\* A request that has not begun is one.
LEMMA IdleCallTyped == IdleCall \in GoalCallStates
BY DEF IdleCall, GoalCallStates

\* create_goal() stores an active goal of a new id, and goes on to publish it.
LEMMA CreateGoalKeeps ==
    ASSUME GoalInv, NEW c \in GoalCalls, NEW g \in GoalIds, CreateGoal(c, g)
    PROVE  GoalInv'
<1> USE DEF GoalInv
<1> DEFINE v == [kind |-> "create", goal |-> g, at |-> "publish", copy |-> "pending"]
<1>1. v \in GoalCallStates
  BY DEF GoalCallStates, GoalStatus
<1>2. /\ goalLife[g] = "new" /\ goalCalls[c] = IdleCall
      /\ goalLife' = [goalLife EXCEPT ![g] = "stored"] /\ goalCalls' = [goalCalls EXCEPT ![c] = v]
      /\ UNCHANGED <<goalRow, announced, completions, meant, unclear>>
  BY DEF CreateGoal
<1> HIDE DEF GoalInv
<1>3. /\ goalCalls' \in [GoalCalls -> GoalCallStates] /\ goalCalls'[c] = v
      /\ \A d \in GoalCalls \ {c} : goalCalls'[d] = goalCalls[d]
  BY <1>1, <1>2, GoalMoves
<1> USE DEF GoalInv
<1>4. GoalTypes'
  BY <1>2, <1>3 DEF GoalTypes, GoalRecordTypeOK
<1>5. \A h \in GoalIds : goalLife'[h] = IF h = g THEN "stored" ELSE goalLife[h]
  BY <1>2 DEF GoalTypes, GoalRecordTypeOK
<1>6. GoalCallInv'
  BY <1>2, <1>3, <1>5 DEF GoalCallInv, IdleCall
<1>7. GoalRowInv' /\ CompletionsAreStored'
  BY <1>2, <1>5 DEF GoalRowInv, CompletionsAreStored
<1>8. EventInv'
  <2> SUFFICES ASSUME NEW h \in GoalIds \ unclear, goalLife'[h] = "stored"
               PROVE  /\ \A d \in GoalCalls : WorksOn(d, h)' => goalCalls'[d].copy = goalRow[h].status
                      /\ announced[h] = goalRow[h].status \/ \E d \in GoalCalls : WorksOn(d, h)' /\
                         goalCalls'[d].at # "write"
    BY <1>2 DEF EventInv
  <2>1. CASE h = g
    <3>1. \A d \in GoalCalls \ {c} : ~WorksOn(d, h)'
      BY <1>2, <1>3, <2>1 DEF GoalCallInv, WorksOn
    <3>2. WorksOn(c, h)' /\ goalCalls'[c].copy = goalRow[h].status /\ goalCalls'[c].at # "write"
      BY <1>2, <1>3, <2>1 DEF WorksOn, GoalRowInv, Fresh
    <3> QED
      BY <3>1, <3>2
  <2>2. CASE h # g
    <3>1. goalLife[h] = "stored" /\ \A d \in GoalCalls : WorksOn(d, h)' => d # c /\
          goalCalls'[d] = goalCalls[d] /\ WorksOn(d, h)
      BY <1>3, <1>5, <2>2 DEF WorksOn
    <3>2. \A d \in GoalCalls : WorksOn(d, h) => WorksOn(d, h)' /\ goalCalls'[d] = goalCalls[d]
      BY <1>2, <1>3 DEF WorksOn, IdleCall
    <3> QED
      BY <3>1, <3>2 DEF EventInv
  <2> QED
    BY <2>1, <2>2
<1> QED
  BY <1>4, <1>6, <1>7, <1>8

\* A request that finds the row takes the status it has.
LEMMA FindGoalKeeps ==
    ASSUME GoalInv, NEW c \in GoalCalls, NEW g \in GoalIds, NEW kind \in Kinds \cup {"delete"},
           FindGoal(c, g, kind)
    PROVE  GoalInv'
<1> USE DEF GoalInv
<1> DEFINE v == [kind |-> kind, goal |-> g, at |-> "write", copy |-> goalRow[g].status]
<1>1. v \in GoalCallStates
  BY DEF GoalCallStates, GoalTypes, GoalRecordTypeOK, PersistentGoal
<1>2. /\ goalLife[g] = "stored" /\ goalCalls[c] = IdleCall /\ goalCalls' = [goalCalls EXCEPT ![c] = v]
      /\ UNCHANGED <<goalLife, goalRow, announced, completions, meant, unclear>>
  BY DEF FindGoal
<1> HIDE DEF GoalInv
<1>3. /\ goalCalls' \in [GoalCalls -> GoalCallStates] /\ goalCalls'[c] = v
      /\ \A d \in GoalCalls \ {c} : goalCalls'[d] = goalCalls[d]
  BY <1>1, <1>2, GoalMoves
<1> USE DEF GoalInv
<1>4. GoalTypes' /\ GoalRowInv' /\ CompletionsAreStored'
  BY <1>2, <1>3 DEF GoalTypes, GoalRecordTypeOK, GoalRowInv, CompletionsAreStored
<1>5. GoalCallInv'
  BY <1>2, <1>3 DEF GoalCallInv, IdleCall
<1>6. EventInv'
  <2>1. \A d \in GoalCalls, h \in GoalIds : WorksOn(d, h) => WorksOn(d, h)' /\
        goalCalls'[d] = goalCalls[d]
    BY <1>2, <1>3 DEF WorksOn, IdleCall
  <2>2. \A d \in GoalCalls, h \in GoalIds : WorksOn(d, h)' =>
           IF d = c THEN h = g /\ goalCalls'[d].copy = goalRow[g].status ELSE WorksOn(d, h) /\
             goalCalls'[d] = goalCalls[d]
    BY <1>3 DEF WorksOn
  <2> QED
    BY <1>2, <2>1, <2>2 DEF EventInv
<1> QED
  BY <1>4, <1>5, <1>6

\* When it does not cross another, the request is alone on its goal.
LEMMA AloneUnlessCrossed ==
    ASSUME NEW c \in GoalCalls, NEW g \in GoalIds, goalCalls[c].goal = g, unclear' = Crosses(c, g)
    PROVE  /\ unclear \subseteq unclear' /\ unclear' \subseteq unclear \cup {g}
           /\ g \notin unclear' => \A d \in GoalCalls \ {c} : ~WorksOn(d, g)
BY DEF Crosses, CallsOn, WorksOn

\* The row as an update leaves it: a completion is dated, and nothing else is.
LEMMA UpdatedIs ==
    ASSUME NEW k, NEW r \in PersistentGoal
    PROVE  /\ Updated(k, r).status = StatusAfter(k, r.status)
           /\ k = "complete" \/ r.dated => Updated(k, r).dated
BY DEF Updated, PersistentGoal

\* The update: what a request meant is in the row, unless requests cross.
LEMMA UpdateGoalKeeps ==
    ASSUME GoalInv, NEW c \in GoalCalls, UpdateGoal(c)
    PROVE  GoalInv'
<1> USE DEF GoalInv
<1> DEFINE g == goalCalls[c].goal
           k == goalCalls[c].kind
           copy == StatusAfter(k, goalCalls[c].copy)
           v == [goalCalls[c] EXCEPT !.at = "reload", !.copy = copy]
<1>1. /\ goalCalls \in [GoalCalls -> GoalCallStates] /\ goalRow \in [GoalIds -> PersistentGoal]
      /\ meant \in [GoalIds -> GoalStatus] /\ goalCalls[c] \in GoalCallStates
      /\ unclear \subseteq GoalIds
  BY DEF GoalTypes, GoalRecordTypeOK
<1>2. /\ goalCalls[c].at = "write" /\ k \in Kinds /\ g \in GoalIds /\ goalLife[g] # "new"
      /\ goalCalls' = [goalCalls EXCEPT ![c] = v]
      /\ goalRow' = IF goalLife[g] = "stored" THEN [goalRow EXCEPT ![g] = Updated(k, @)] ELSE goalRow
      /\ meant' = IF goalLife[g] = "stored" THEN [meant EXCEPT ![g] = StatusAfter(k, @)] ELSE meant
      /\ unclear' = Crosses(c, g)
      /\ UNCHANGED <<goalLife, announced, completions>>
  BY <1>1 DEF UpdateGoal, GoalCallInv
<1>3. v \in GoalCallStates /\ v.goal = g /\ v.kind = k /\ v.at = "reload" /\ v.copy = copy
  BY <1>1, <1>2 DEF GoalCallStates, StatusAfter, GoalStatus
<1>4. Updated(k, goalRow[g]) \in PersistentGoal /\ StatusAfter(k, meant[g]) \in GoalStatus
  BY <1>1, <1>2 DEF Updated, StatusAfter, PersistentGoal, GoalStatus
<1>5. /\ unclear \subseteq unclear' /\ unclear' \subseteq unclear \cup {g}
      /\ g \notin unclear' => \A d \in GoalCalls \ {c} : ~WorksOn(d, g)
  BY <1>2, AloneUnlessCrossed
<1> HIDE DEF v, GoalInv, g, k, copy
<1>6. /\ goalCalls' \in [GoalCalls -> GoalCallStates] /\ goalCalls'[c] = v
      /\ \A d \in GoalCalls \ {c} : goalCalls'[d] = goalCalls[d]
  BY <1>2, <1>3, GoalMoves
<1> USE DEF GoalInv
<1>7. \A h \in GoalIds : goalRow'[h] = IF h = g /\
      goalLife[g] = "stored" THEN Updated(k, goalRow[h]) ELSE goalRow[h]
  BY <1>1, <1>2
<1>8. \A h \in GoalIds : meant'[h] = IF h = g /\
      goalLife[g] = "stored" THEN StatusAfter(k, meant[h]) ELSE meant[h]
  BY <1>1, <1>2
<1>9. GoalTypes'
  <2>1. goalRow' \in [GoalIds -> PersistentGoal] /\ meant' \in [GoalIds -> GoalStatus]
    BY <1>1, <1>2, <1>4
  <2> QED
    BY <1>2, <1>5, <1>6, <2>1 DEF GoalTypes, GoalRecordTypeOK
<1>10. \A h \in GoalIds : goalRow[h].dated => goalRow'[h].dated
  BY <1>1, <1>7, UpdatedIs
<1>11. GoalCallInv'
  <2>1. ASSUME NEW d \in GoalCalls, d # c
        PROVE  LET mine == goalCalls'[d]
               IN /\ mine.at = "idle" => mine = IdleCall
                  /\ mine.at # "idle" => mine.goal \in GoalIds /\ goalLife'[mine.goal] # "new"
                  /\ mine.at # "write" => mine.kind # "delete"
                  /\ mine.at = "reload" /\ mine.kind = "complete" =>
                       goalRow'[mine.goal].dated \/ goalLife'[mine.goal] = "deleted"
                  /\ mine.at = "publish" /\ mine.kind = "complete" => goalRow'[mine.goal].dated
                  /\ mine.at = "complete" => goalRow'[mine.goal].dated
    BY <1>2, <1>6, <1>10, <2>1 DEF GoalCallInv
  <2>2. k = "complete" => goalRow'[g].dated \/ goalLife[g] = "deleted"
    BY <1>1, <1>2, <1>7 DEF Updated, GoalTypes, GoalRecordTypeOK
  <2>3. v.kind # "delete"
    BY <1>2, <1>3 DEF Kinds
  <2> QED
    BY <1>2, <1>3, <1>6, <2>1, <2>2, <2>3 DEF GoalCallInv
<1>12. GoalRowInv' /\ CompletionsAreStored'
  <2>1. ASSUME NEW h \in GoalIds
        PROVE  /\ goalRow'[h].status = meant'[h]
               /\ goalRow'[h].status = "completed" => goalRow'[h].dated
               /\ goalLife[h] = "new" => goalRow'[h] = Fresh
    <3>1. CASE h = g /\ goalLife[g] = "stored"
      <4>1. /\ goalRow'[h].status = StatusAfter(k, goalRow[h].status) /\
               meant'[h] = StatusAfter(k, meant[h])
            /\ k = "complete" \/ goalRow[h].dated => goalRow'[h].dated
        BY <1>1, <1>7, <1>8, <3>1, UpdatedIs
      <4>2. StatusAfter(k, goalRow[h].status) = "completed" => k = "complete" \/
            goalRow[h].status = "completed"
        BY DEF StatusAfter
      <4> QED
        BY <3>1, <4>1, <4>2 DEF GoalRowInv
    <3>2. CASE ~(h = g /\ goalLife[g] = "stored")
      BY <1>7, <1>8, <3>2 DEF GoalRowInv
    <3> QED
      BY <3>1, <3>2
  <2> QED
    BY <1>2, <1>9, <1>10, <2>1 DEF GoalRowInv, CompletionsAreStored, GoalTypes, GoalRecordTypeOK
<1>13. EventInv'
  <2> SUFFICES ASSUME NEW h \in GoalIds \ unclear', goalLife[h] = "stored"
               PROVE  /\ \A d \in GoalCalls : WorksOn(d, h)' => goalCalls'[d].copy = goalRow'[h].status
                      /\ announced[h] = goalRow'[h].status \/ \E d \in GoalCalls : WorksOn(d, h)' /\
                         goalCalls'[d].at # "write"
    BY <1>2 DEF EventInv
  <2>1. CASE h = g
    <3>1. \A d \in GoalCalls \ {c} : ~WorksOn(d, h)'
      BY <1>5, <1>6, <2>1 DEF WorksOn
    <3>2. WorksOn(c, h) /\ goalCalls[c].copy = goalRow[h].status
      BY <1>2, <1>5, <2>1 DEF WorksOn, EventInv, g
    <3>3. goalRow'[h].status = StatusAfter(k, goalRow[h].status)
      BY <1>1, <1>7, <2>1, UpdatedIs
    <3>4. WorksOn(c, h)' /\ goalCalls'[c].copy = goalRow'[h].status /\ goalCalls'[c].at # "write"
      BY <1>3, <1>6, <2>1, <3>2, <3>3 DEF WorksOn, copy
    <3> QED
      BY <3>1, <3>4
  <2>2. CASE h # g
    <3>1. \A d \in GoalCalls : WorksOn(d, h)' => WorksOn(d, h) /\ goalCalls'[d] = goalCalls[d]
      BY <1>3, <1>6, <2>2 DEF WorksOn
    <3>2. \A d \in GoalCalls : WorksOn(d, h) => WorksOn(d, h)' /\ goalCalls'[d] = goalCalls[d]
      BY <1>6, <2>2 DEF WorksOn, g
    <3>3. goalRow'[h] = goalRow[h] /\ h \notin unclear
      BY <1>5, <1>7, <2>2
    <3> QED
      BY <3>1, <3>2, <3>3 DEF EventInv
  <2> QED
    BY <2>1, <2>2
<1> QED
  BY <1>9, <1>11, <1>12, <1>13

\* A request that ends: its goal is unclear from now on, or needs no event of it.
LEMMA EndsKeep ==
    ASSUME GoalInv, NEW c \in GoalCalls, Return(c), UNCHANGED <<goalRow, meant>>,
           NEW g \in GoalIds, goalCalls[c].goal = g, goalCalls[c].at # "idle",
           \A h \in GoalIds \ {g} : goalLife'[h] = goalLife[h] /\ announced'[h] = announced[h],
           goalLife[g] # "new", goalLife'[g] \in {goalLife[g], "deleted"},
           goalLife' \in [GoalIds -> {"new", "stored", "deleted"}],
           announced' \in [GoalIds -> GoalStatus \cup {"none"}],
           unclear \subseteq unclear', unclear' \subseteq unclear \cup {g},
           g \notin unclear' /\ goalLife'[g] = "stored" =>
              \/ goalCalls[c].at = "write" /\ announced'[g] = announced[g]
              \/ announced'[g] = goalRow[g].status /\ \A d \in GoalCalls \ {c} : ~WorksOn(d, g),
           completions' \subseteq GoalIds, \A h \in completions' : goalRow[h].dated
    PROVE  GoalInv'
<1>1. /\ goalCalls' \in [GoalCalls -> GoalCallStates] /\ goalCalls'[c] = IdleCall
      /\ \A d \in GoalCalls \ {c} : goalCalls'[d] = goalCalls[d]
  BY GoalMoves, IdleCallTyped DEF Return
<1> USE DEF GoalInv
<1>2. GoalTypes'
  BY <1>1 DEF GoalTypes, GoalRecordTypeOK
<1>3. \A h \in GoalIds : goalLife[h] = "deleted" => goalLife'[h] = "deleted"
  BY DEF GoalTypes, GoalRecordTypeOK
<1>4. \A h \in GoalIds : goalLife[h] # "new" <=> goalLife'[h] # "new"
  BY DEF GoalTypes, GoalRecordTypeOK
<1>5. GoalCallInv'
  <2>1. ASSUME NEW d \in GoalCalls, d # c
        PROVE  LET mine == goalCalls'[d]
               IN /\ mine.at = "idle" => mine = IdleCall
                  /\ mine.at # "idle" => mine.goal \in GoalIds /\ goalLife'[mine.goal] # "new"
                  /\ mine.at # "write" => mine.kind # "delete"
                  /\ mine.at = "reload" /\ mine.kind = "complete" =>
                       goalRow'[mine.goal].dated \/ goalLife'[mine.goal] = "deleted"
                  /\ mine.at = "publish" /\ mine.kind = "complete" => goalRow'[mine.goal].dated
                  /\ mine.at = "complete" => goalRow'[mine.goal].dated
    BY <1>1, <1>3, <1>4, <2>1 DEF GoalCallInv
  <2> QED
    BY <1>1, <2>1 DEF GoalCallInv, IdleCall
<1>6. GoalRowInv' /\ CompletionsAreStored'
  BY <1>4 DEF GoalRowInv, CompletionsAreStored
<1>7. EventInv'
  <2> SUFFICES ASSUME NEW h \in GoalIds \ unclear', goalLife'[h] = "stored"
               PROVE  /\ \A d \in GoalCalls : WorksOn(d, h)' => goalCalls'[d].copy = goalRow[h].status
                      /\ announced'[h] = goalRow[h].status \/ \E d \in GoalCalls : WorksOn(d, h)' /\
                         goalCalls'[d].at # "write"
    BY DEF EventInv
  <2>1. \A d \in GoalCalls : WorksOn(d, h)' => d # c /\ WorksOn(d, h) /\ goalCalls'[d] = goalCalls[d]
    BY <1>1 DEF WorksOn, IdleCall
  <2>2. \A d \in GoalCalls : WorksOn(d, h) /\ d # c => WorksOn(d, h)' /\ goalCalls'[d] = goalCalls[d]
    BY <1>1 DEF WorksOn
  <2>3. goalLife[h] = "stored" /\ h \notin unclear
    BY DEF GoalTypes, GoalRecordTypeOK
  <2>4. CASE h # g
    BY <2>1, <2>2, <2>3, <2>4 DEF EventInv, WorksOn
  <2>5. CASE h = g
    BY <2>1, <2>2, <2>3, <2>5 DEF EventInv
  <2> QED
    BY <2>4, <2>5
<1> QED
  BY <1>2, <1>5, <1>6, <1>7

\* A request that moves on, and changes nothing but an event that is true.
LEMMA OnwardKeeps ==
    ASSUME GoalInv, NEW c \in GoalCalls, NEW g \in GoalIds, goalCalls[c].goal = g,
           goalCalls[c].at \in {"reload", "publish"}, NEW onto \in {"publish", "complete"}, Goto(c,
             onto),
           goalCalls[c].kind = "complete" => goalRow[g].dated, onto = "complete" =>
             goalCalls[c].kind = "complete",
           UNCHANGED <<goalLife, goalRow, completions, meant>>,
           announced' \in [GoalIds -> GoalStatus \cup {"none"}],
           \A h \in GoalIds \ {g} : announced'[h] = announced[h],
           unclear \subseteq unclear', unclear' \subseteq unclear \cup {g}
    PROVE  GoalInv'
<1> DEFINE v == [goalCalls[c] EXCEPT !.at = onto]
<1>1. /\ v \in GoalCallStates /\ v.goal = g /\ v.kind = goalCalls[c].kind /\ v.at = onto /\
         v.copy = goalCalls[c].copy
      /\ goalCalls' = [goalCalls EXCEPT ![c] = v]
  BY DEF Goto, GoalInv, GoalTypes, GoalCallStates
<1> HIDE DEF v
<1>2. /\ goalCalls' \in [GoalCalls -> GoalCallStates] /\ goalCalls'[c] = v
      /\ \A d \in GoalCalls \ {c} : goalCalls'[d] = goalCalls[d]
  BY <1>1, GoalMoves
<1> USE DEF GoalInv
<1>3. GoalTypes' /\ GoalRowInv' /\ CompletionsAreStored'
  BY <1>2 DEF GoalTypes, GoalRecordTypeOK, GoalRowInv, CompletionsAreStored
<1>4. GoalCallInv'
  <2>1. ASSUME NEW d \in GoalCalls, d # c
        PROVE  LET mine == goalCalls'[d]
               IN /\ mine.at = "idle" => mine = IdleCall
                  /\ mine.at # "idle" => mine.goal \in GoalIds /\ goalLife'[mine.goal] # "new"
                  /\ mine.at # "write" => mine.kind # "delete"
                  /\ mine.at = "reload" /\ mine.kind = "complete" =>
                       goalRow'[mine.goal].dated \/ goalLife'[mine.goal] = "deleted"
                  /\ mine.at = "publish" /\ mine.kind = "complete" => goalRow'[mine.goal].dated
                  /\ mine.at = "complete" => goalRow'[mine.goal].dated
    BY <1>2, <2>1 DEF GoalCallInv
  <2> QED
    BY <1>1, <1>2, <2>1 DEF GoalCallInv
<1>5. EventInv'
  <2>1. \A d \in GoalCalls, h \in GoalIds : WorksOn(d, h)' <=> WorksOn(d, h)
    BY <1>1, <1>2 DEF WorksOn
  <2>2. \A d \in GoalCalls : goalCalls'[d].copy = goalCalls[d].copy
    BY <1>1, <1>2
  <2>3. WorksOn(c, g)' /\ goalCalls'[c].at # "write"
    BY <1>1, <1>2 DEF WorksOn
  <2>4. \A d \in GoalCalls : goalCalls[d].at # "write" => goalCalls'[d].at # "write"
    BY <1>1, <1>2
  <2> QED
    BY <2>1, <2>2, <2>3, <2>4 DEF EventInv
<1> QED
  BY <1>3, <1>4, <1>5

\* A deleted goal stays deleted.
LEMMA DeleteGoalKeeps ==
    ASSUME GoalInv, NEW c \in GoalCalls, DeleteGoal(c)
    PROVE  GoalInv'
<1> DEFINE g == goalCalls[c].goal
<1>1. g \in GoalIds /\ goalCalls[c].at = "write" /\ goalLife[g] # "new"
  BY DEF DeleteGoal, GoalInv, GoalCallInv
<1>2. unclear \subseteq unclear' /\ unclear' \subseteq unclear \cup {g}
  BY <1>1, AloneUnlessCrossed DEF DeleteGoal
<1>3. goalLife' \in [GoalIds -> {"new", "stored", "deleted"}] /\ goalLife'[g] = "deleted"
  BY <1>1 DEF DeleteGoal, GoalInv, GoalTypes, GoalRecordTypeOK
<1>4. /\ Return(c) /\ UNCHANGED <<goalRow, announced, completions, meant>>
      /\ \A h \in GoalIds \ {g} : goalLife'[h] = goalLife[h]
  BY <1>1 DEF DeleteGoal, GoalInv, GoalTypes, GoalRecordTypeOK
<1>5. /\ announced \in [GoalIds -> GoalStatus \cup {"none"}]
      /\ completions \subseteq GoalIds /\ \A h \in completions : goalRow[h].dated
  BY DEF GoalInv, GoalTypes, GoalRecordTypeOK, CompletionsAreStored
<1> HIDE DEF g
<1> QED
  BY <1>1, <1>2, <1>3, <1>4, <1>5, EndsKeep DEF g

\* What is read again is what was written, unless requests cross.
LEMMA ReloadGoalKeeps ==
    ASSUME GoalInv, NEW c \in GoalCalls, ReloadGoal(c)
    PROVE  GoalInv'
<1> DEFINE g == goalCalls[c].goal
<1>1. g \in GoalIds /\ goalCalls[c].at = "reload" /\ goalLife[g] # "new"
      /\ (goalCalls[c].kind = "complete" => goalRow[g].dated \/ goalLife[g] = "deleted")
      /\ UNCHANGED <<goalLife, goalRow, announced, completions, meant, unclear>>
  BY DEF ReloadGoal, GoalInv, GoalCallInv
<1>2. /\ goalLife \in [GoalIds -> {"new", "stored", "deleted"}]
      /\ announced \in [GoalIds -> GoalStatus \cup {"none"}]
      /\ completions \subseteq GoalIds /\ \A h \in completions : goalRow[h].dated
  BY DEF GoalInv, GoalTypes, GoalRecordTypeOK, CompletionsAreStored
<1>3. CASE goalLife[g] = "deleted"
  <2>1. Return(c)
    BY <1>3 DEF ReloadGoal
  <2> QED
    BY <1>1, <1>2, <1>3, <2>1, EndsKeep
<1>4. CASE goalLife[g] # "deleted"
  <2>1. Goto(c, "publish")
    BY <1>4 DEF ReloadGoal
  <2> QED
    BY <1>1, <1>2, <1>4, <2>1, OnwardKeeps
<1> QED
  BY <1>3, <1>4

\* The event is published: a completion of a row that is dated.
LEMMA PublishGoalKeeps ==
    ASSUME GoalInv, NEW c \in GoalCalls, PublishGoal(c)
    PROVE  GoalInv'
<1> DEFINE g == goalCalls[c].goal
<1>1. /\ g \in GoalIds /\ goalCalls[c].at \in {"publish", "complete"} /\ goalLife[g] # "new"
      /\ (goalCalls[c].at = "complete" \/ goalCalls[c].kind = "complete" => goalRow[g].dated)
      /\ UNCHANGED <<goalLife, goalRow, meant>> /\ unclear' = Crosses(c, g)
      /\ announced' = [announced EXCEPT ![g] = goalCalls[c].copy]
      /\ completions' = IF goalCalls[c].at = "complete" THEN completions \cup {g} ELSE completions
  BY DEF PublishGoal, GoalInv, GoalCallInv
<1>2. /\ goalLife \in [GoalIds -> {"new", "stored", "deleted"}] /\
         goalCalls[c].copy \in GoalStatus \cup {"none"}
      /\ announced \in [GoalIds -> GoalStatus \cup {"none"}]
      /\ completions \subseteq GoalIds /\ \A h \in completions : goalRow[h].dated
  BY DEF GoalInv, GoalTypes, GoalRecordTypeOK, CompletionsAreStored, GoalCallStates
<1>3. /\ unclear \subseteq unclear' /\ unclear' \subseteq unclear \cup {g}
      /\ g \notin unclear' => \A d \in GoalCalls \ {c} : ~WorksOn(d, g)
  BY <1>1, AloneUnlessCrossed
<1>4. /\ announced' \in [GoalIds -> GoalStatus \cup {"none"}] /\ announced'[g] = goalCalls[c].copy
      /\ \A h \in GoalIds \ {g} : announced'[h] = announced[h]
  BY <1>1, <1>2
<1>5. completions' \subseteq GoalIds /\ \A h \in completions' : goalRow[h].dated
  BY <1>1, <1>2
<1>6. g \notin unclear' /\ goalLife[g] = "stored" => goalCalls[c].copy = goalRow[g].status
  BY <1>1, <1>3 DEF GoalInv, EventInv, WorksOn
<1>7. CASE goalCalls[c].at = "publish" /\ goalCalls[c].kind = "complete"
  <2>1. Goto(c, "complete") /\ UNCHANGED completions
    BY <1>7 DEF PublishGoal
  <2> QED
    BY <1>1, <1>3, <1>4, <1>7, <2>1, OnwardKeeps
<1>8. CASE ~(goalCalls[c].at = "publish" /\ goalCalls[c].kind = "complete")
  <2>1. Return(c)
    BY <1>8 DEF PublishGoal
  <2> QED
    BY <1>1, <1>2, <1>3, <1>4, <1>5, <1>6, <2>1, EndsKeep
<1> QED
  BY <1>7, <1>8

\* A request that fails leaves an event out at most.
LEMMA GoalRequestFailsKeeps ==
    ASSUME GoalInv, NEW c \in GoalCalls, GoalRequestFails(c)
    PROVE  GoalInv'
<1> DEFINE g == goalCalls[c].goal
<1>1. /\ g \in GoalIds /\ goalCalls[c].at # "idle" /\ goalLife[g] # "new" /\ Return(c)
      /\ UNCHANGED <<goalLife, goalRow, announced, completions, meant>>
      /\ unclear' = IF goalCalls[c].at = "write" THEN unclear ELSE unclear \cup {g}
  BY DEF GoalRequestFails, GoalInv, GoalCallInv
<1>2. /\ goalLife \in [GoalIds -> {"new", "stored", "deleted"}]
      /\ announced \in [GoalIds -> GoalStatus \cup {"none"}]
      /\ completions \subseteq GoalIds /\ \A h \in completions : goalRow[h].dated
  BY DEF GoalInv, GoalTypes, GoalRecordTypeOK, CompletionsAreStored
<1> QED
  BY <1>1, <1>2, EndsKeep

\* No goals and no requests.
LEMMA GoalsStart ==
    ASSUME GoalRecordInit
    PROVE  GoalInv
<1> USE DEF GoalRecordInit
<1>1. GoalTypes
  BY IdleCallTyped DEF GoalTypes, GoalRecordTypeOK, Fresh, PersistentGoal, GoalStatus
<1> QED
  BY <1>1 DEF GoalInv, GoalCallInv, GoalRowInv, CompletionsAreStored, EventInv, Fresh, IdleCall

\* Every step keeps it.
LEMMA GoalStepKeeps ==
    ASSUME GoalInv, [GoalRecordNext]_goalRecordVars
    PROVE  GoalInv'
<1>1. CASE UNCHANGED goalRecordVars
  BY <1>1
     DEF goalRecordVars, GoalInv, GoalTypes, GoalRecordTypeOK, GoalCallInv, GoalRowInv,
         CompletionsAreStored,
              EventInv, WorksOn
<1>2. CASE GoalRecordNext
  BY <1>2, CreateGoalKeeps, FindGoalKeeps, UpdateGoalKeeps, DeleteGoalKeeps, ReloadGoalKeeps,
     PublishGoalKeeps,
     GoalRequestFailsKeeps DEF GoalRecordNext
<1> QED
  BY <1>1, <1>2

\* The invariant is more than what GoalRecordsSafe says.
LEMMA GoalInvSafe ==
    ASSUME GoalInv
    PROVE  GoalRecordsSafe
<1>1. LastEventIsTrue
  BY DEF GoalInv, EventInv, LastEventIsTrue, CallsOn, WorksOn
<1> QED
  BY <1>1 DEF GoalInv, GoalTypes, GoalRecordsSafe, GoalRowInv, StatusIsLastCommitted

-----------------------------------------------------------------------------
(* The components side by side: a behaviour of MCServices is one of the    *)
(* component it chose, so that its invariant is enough.                    *)

\* For any messages, subscribers, retries and length of the stream: what publish()
\* answers is true, and a subscriber gets what was published once per copy at most,
\* with the poll restarted and the bus stopped at any step.
THEOREM EventBusIsSafe == SumSpec => []EventBusSafe
<1> DEFINE Inv == part = "bus" => BusInv
<1>1. SumInit => Inv
  BY BusStarts DEF SumInit
<1>2. Inv /\ [SumNext]_sumVars => Inv'
  <2> SUFFICES ASSUME Inv, [SumNext]_sumVars
               PROVE  Inv'
    OBVIOUS
  <2>1. part' = part
    BY DEF SumNext, sumVars
  <2>2. part = "bus" => [BusNext]_busVars
    BY DEF SumNext, sumVars
  <2> QED
    BY <2>1, <2>2, BusStepKeeps
<1>3. Inv => EventBusSafe
  BY BusIsSafe DEF EventBusSafe
<1> QED
  BY <1>1, <1>2, <1>3, PTL DEF SumSpec

\* For any number of tasks, executors and iterations: the agent loop counts every
\* iteration once, puts a repair before its retry, loses no task and reaps every
\* process.
THEOREM AgentLoopIsSafe == SumSpec => []AgentLoopSafe
<1> DEFINE Inv == part = "agentloop" => LoopInv
<1>1. SumInit => Inv
  BY LoopStarts DEF SumInit
<1>2. Inv /\ [SumNext]_sumVars => Inv'
  <2> SUFFICES ASSUME Inv, [SumNext]_sumVars
               PROVE  Inv'
    OBVIOUS
  <2>1. part' = part
    BY DEF SumNext, sumVars
  <2>2. part = "agentloop" => [LoopNext]_loopVars
    BY DEF SumNext, sumVars
  <2> QED
    BY <2>1, <2>2, LoopStepKeeps
<1>3. Inv => AgentLoopSafe
  BY LoopIsSafe DEF AgentLoopSafe
<1> QED
  BY <1>1, <1>2, <1>3, PTL DEF SumSpec

\* For any clients, limits and lengths of a stream: slots are users and leaks, a
\* request is sent within its bound and stays local when the budget is used up, and
\* health follows the strikes.
THEOREM ProvidersKeepTheirLimits == SumSpec => []ProvidersSafe
<1> DEFINE Inv == part = "providers" => ProviderInv
<1>1. SumInit => Inv
  BY ProvidersStart DEF SumInit
<1>2. Inv /\ [SumNext]_sumVars => Inv'
  <2> SUFFICES ASSUME Inv, [SumNext]_sumVars
               PROVE  Inv'
    OBVIOUS
  <2>1. part' = part
    BY DEF SumNext, sumVars
  <2>2. part = "providers" => [ProviderNext]_providerVars
    BY DEF SumNext, sumVars
  <2> QED
    BY <2>1, <2>2, ProviderStepKeeps
<1>3. Inv => ProvidersSafe
  BY ProvidersAreSafe DEF ProvidersSafe
<1> QED
  BY <1>1, <1>2, <1>3, PTL DEF SumSpec

\* For any acyclic graph or not, any runs and attempts: no node starts before what
\* it needs has succeeded, and a checkpoint names what was done.
THEOREM WorkflowIsSafe == SumSpec => []WorkflowSafe
<1> DEFINE Inv == part = "workflow" => WorkInv
<1>1. SumInit => Inv
  BY WorkStarts DEF SumInit
<1>2. Inv /\ [SumNext]_sumVars => Inv'
  <2> SUFFICES ASSUME Inv, [SumNext]_sumVars
               PROVE  Inv'
    OBVIOUS
  <2>1. part' = part
    BY DEF SumNext, sumVars
  <2>2. part = "workflow" => [WorkNext]_workVars
    BY DEF SumNext, sumVars
  <2> QED
    BY <2>1, <2>2, WorkStepKeeps
<1>3. Inv => WorkflowSafe
  BY DEF WorkflowSafe, WorkInv
<1> QED
  BY <1>1, <1>2, <1>3, PTL DEF SumSpec

\* For any skills and calls that overlap or break off: a skill is inserted once, what
\* is registered has its row, and table and registry agree with the last answer unless
\* the skill was disturbed.
THEOREM SkillsAreSafe == SumSpec => []SkillsSafe
<1> DEFINE Inv == part = "skills" => SkillInv
<1>1. SumInit => Inv
  BY SkillsStart DEF SumInit
<1>2. Inv /\ [SumNext]_sumVars => Inv'
  <2> SUFFICES ASSUME Inv, [SumNext]_sumVars
               PROVE  Inv'
    OBVIOUS
  <2>1. part' = part
    BY DEF SumNext, sumVars
  <2>2. part = "skills" => [SkillsNext]_skillVars
    BY DEF SumNext, sumVars
  <2> QED
    BY <2>1, <2>2, SkillStepKeeps
<1>3. Inv => SkillsSafe
  BY SkillInvSafe DEF SkillsSafe
<1> QED
  BY <1>1, <1>2, <1>3, PTL DEF SumSpec

\* For any names, keys, devices, edits, personas and requests: what the vault
\* acknowledged is read back, a device that dominates a package has what it holds,
\* and memory shows the identity that is active, with a stop between any two writes.
THEOREM StateIsSafe == SumSpec => []StateSafe
<1> DEFINE Inv == /\ part = "vault" => VaultInv
                  /\ part = "sync" => SyncInv
                  /\ part = "identities" => IdInv
<1>1. SumInit => Inv
  BY VaultInvInit, SyncStarts, IdStarts DEF SumInit
<1>2. Inv /\ [SumNext]_sumVars => Inv'
  <2> SUFFICES ASSUME Inv, [SumNext]_sumVars
               PROVE  Inv'
    OBVIOUS
  <2>1. part' = part
    BY DEF SumNext, sumVars
  <2>2. /\ part = "vault" => [VaultNext]_vaultVars
        /\ part = "sync" => [SyncNext]_syncVars
        /\ part = "identities" => [IdentityNext]_identityVars
    BY DEF SumNext, sumVars
  <2>3. CASE part = "vault"
    BY <2>1, <2>2, <2>3, VaultStepKeeps
  <2>4. CASE part = "sync"
    BY <2>1, <2>2, <2>4, SyncStepKeeps
  <2>5. CASE part = "identities"
    BY <2>1, <2>2, <2>5, IdStepKeeps
  <2>6. CASE part \notin {"vault", "sync", "identities"}
    BY <2>1, <2>6
  <2> QED
    BY <2>3, <2>4, <2>5, <2>6
<1>3. Inv => StateSafe
  BY VaultInvIsEnough, SyncInvSafe, IdInvSafe DEF StateSafe
<1> QED
  BY <1>1, <1>2, <1>3, PTL DEF SumSpec

\* For any contents, calls, facts, episodes and sizes: a content is stored once and is
\* gone when it was deleted, a fact has one latest version and keeps its lock, and an
\* episode becomes knowledge once and completely, with a stop between any two writes.
THEOREM MemoryIsSafe == SumSpec => []MemorySafe
<1> DEFINE Inv == /\ part = "chunks" => ChunkInv
                  /\ part = "facts" => FactsInv
                  /\ part = "knowledge" => KnowledgeInv
<1>1. SumInit => Inv
  BY ChunksStart, FactsStart, KnowledgeStarts DEF SumInit
<1>2. Inv /\ [SumNext]_sumVars => Inv'
  <2> SUFFICES ASSUME Inv, [SumNext]_sumVars
               PROVE  Inv'
    OBVIOUS
  <2>1. part' = part
    BY DEF SumNext, sumVars
  <2>2. /\ part = "chunks" => [ChunksNext]_chunkVars
        /\ part = "facts" => [FactsNext]_factVars
        /\ part = "knowledge" => [KnowledgeNext]_knowledgeVars
    BY DEF SumNext, sumVars
  <2>3. CASE part = "chunks"
    BY <2>1, <2>2, <2>3, ChunkStepKeeps
  <2>4. CASE part = "facts"
    BY <2>1, <2>2, <2>4, FactsStepKeeps
  <2>5. CASE part = "knowledge"
    BY <2>1, <2>2, <2>5, KnowledgeStepKeeps
  <2>6. CASE part \notin {"chunks", "facts", "knowledge"}
    BY <2>1, <2>6
  <2> QED
    BY <2>3, <2>4, <2>5, <2>6
<1>3. Inv => MemorySafe
  BY ChunkInvSafe, FactsInvSafe, KnowledgeInvSafe DEF MemorySafe
<1> QED
  BY <1>1, <1>2, <1>3, PTL DEF SumSpec

\* For any plans, goals, spans, charges and calls: a record shows the last report that
\* was written, a goal what a request meant, the list the spans that started last, and
\* the ledger the sum of what was saved, unless calls overlapped or a save failed.
THEOREM RecordsAreSafe == SumSpec => []RecordsSafe
<1> DEFINE Inv == /\ part = "records" => RunInv
                  /\ part = "costs" => LedgerInv
                  /\ part = "traces" => TraceInv
                  /\ part = "goalrecords" => GoalInv
<1>1. SumInit => Inv
  BY RunStarts, LedgerStarts, TracesStart, GoalsStart DEF SumInit
<1>2. Inv /\ [SumNext]_sumVars => Inv'
  <2> SUFFICES ASSUME Inv, [SumNext]_sumVars
               PROVE  Inv'
    OBVIOUS
  <2>1. part' = part
    BY DEF SumNext, sumVars
  <2>2. /\ part = "records" => [RunNext]_runVars
        /\ part = "costs" => [LedgerNext]_ledgerVars
        /\ part = "traces" => [TraceNext]_traceVars
        /\ part = "goalrecords" => [GoalRecordNext]_goalRecordVars
    BY DEF SumNext, sumVars
  <2>3. CASE part = "records"
    BY <2>1, <2>2, <2>3, RunStepKeeps
  <2>4. CASE part = "costs"
    BY <2>1, <2>2, <2>4, LedgerStepKeeps
  <2>5. CASE part = "traces"
    BY <2>1, <2>2, <2>5, TraceStepKeeps
  <2>6. CASE part = "goalrecords"
    BY <2>1, <2>2, <2>6, GoalStepKeeps
  <2>7. CASE part \notin {"records", "costs", "traces", "goalrecords"}
    BY <2>1, <2>7
  <2> QED
    BY <2>3, <2>4, <2>5, <2>6, <2>7
<1>3. Inv => RecordsSafe
  BY RunInvSafe, LedgerInvSafe, TraceInvSafe, GoalInvSafe DEF RecordsSafe
<1> QED
  BY <1>1, <1>2, <1>3, PTL DEF SumSpec
=============================================================================
