-------------------------------- MODULE Admin --------------------------------
(***************************************************************************)
(* core/runtime/admin.py: the dynamic configuration in memory and on disk, *)
(* backups of the database, and restores that stop the swarm's worker loop.*)
(*                                                                         *)
(* The database is one value, a member of Contents; a transaction is one   *)
(* step. What suspends is the end of the worker loop and the database.     *)
(***************************************************************************)
EXTENDS Naturals, FiniteSets

CONSTANTS
    Configs,        \* values DynamicSettings accepts
    Contents,       \* contents of the database
    NoUsers,        \* the ones without a row in users
    Restores        \* calls of restore_backup()

ASSUME AdminAssumption == NoUsers \subseteq Contents

VARIABLES
    config, configFile,     \* dynamic_config and the file
    db,                     \* the database
    backups,                \* contents of the backup files
    loop,                   \* _worker_task: "running", "ending" (None), "none"
    restore,                \* a restore: "idle", "stopping", "writing", "over"
    wasRunning,             \* restores with orchestrator_was_running
    picked,                 \* the backup each parsed
    ranBefore,              \* history: the loop ran before the first restore
    overlap                 \* history: restores have overlapped

adminVars == <<config, configFile, db, backups, loop, restore, wasRunning,
               picked, ranBefore, overlap>>
settings == <<config, configFile>>
restores == <<restore, wasRunning, picked, ranBefore, overlap>>
-----------------------------------------------------------------------------
AdminTypeOK ==
    /\ config \in Configs /\ configFile \in Configs
    /\ db \in Contents /\ backups \subseteq Contents
    /\ loop \in {"running", "ending", "none"}
    /\ restore \in [Restores -> {"idle", "stopping", "writing", "over"}]
    /\ wasRunning \subseteq Restores /\ picked \in [Restores -> Contents]
    /\ ranBefore \in BOOLEAN /\ overlap \in BOOLEAN

AdminInit ==
    /\ config \in Configs /\ configFile = config
    /\ db \in Contents \ NoUsers /\ backups = {}
    /\ loop \in {"running", "none"} /\ ranBefore = (loop = "running")
    /\ restore = [x \in Restores |-> "idle"] /\ wasRunning = {}
    /\ picked = [x \in Restores |-> db] /\ overlap = FALSE

\* One of the initial states.
AdminAtRest ==
    /\ config = CHOOSE c \in Configs : TRUE
    /\ db = CHOOSE d \in Contents \ NoUsers : TRUE
    /\ loop = "none"

Restoring == {x \in Restores : restore[x] \in {"stopping", "writing"}}
-----------------------------------------------------------------------------
(* Dynamic configuration.                                                  *)

\* update_dynamic_config(): an error of the file system is logged only.
UpdateDynamicConfig(c) ==
    /\ config' = c
    /\ configFile' \in {c, configFile}
    /\ UNCHANGED <<db, backups, loop, restores>>

\* _load_dynamic_config() when the process starts again.
LoadDynamicConfig ==
    /\ config # configFile /\ Restoring = {}
    /\ config' = configFile
    /\ UNCHANGED <<configFile, db, backups, loop, restores>>
-----------------------------------------------------------------------------
(* Backup and restore.                                                     *)

\* The worker loop writes.
LoopWrites(d) ==
    /\ loop = "running" /\ d \in Contents \ NoUsers
    /\ db' = d
    /\ UNCHANGED <<settings, backups, loop, restores>>

\* Users may be deleted by others.
UsersDeleted ==
    /\ Restoring = {} /\ NoUsers # {}
    /\ db' \in NoUsers
    /\ UNCHANGED <<settings, backups, loop, restores>>

\* create_backup(): one snapshot, replaced into place.
CreateBackup ==
    /\ backups' = backups \cup {db}
    /\ UNCHANGED <<settings, db, loop, restores>>

\* restore_backup() up to stop_worker_loop(), which first forgets the task.
BeginRestore(x, b) ==
    /\ restore[x] = "idle" /\ b \in backups
    /\ picked' = [picked EXCEPT ![x] = b]
    /\ IF loop = "running"
         THEN /\ loop' = "ending" /\ wasRunning' = wasRunning \cup {x}
              /\ restore' = [restore EXCEPT ![x] = "stopping"]
         ELSE /\ restore' = [restore EXCEPT ![x] = "writing"]
              /\ UNCHANGED <<loop, wasRunning>>
    /\ overlap' = (overlap \/ Restoring # {})
    /\ ranBefore' = IF Restoring = {} THEN loop = "running" ELSE ranBefore
    /\ UNCHANGED <<settings, db, backups>>

\* The cancelled loop has ended.
LoopEnds(x) ==
    /\ restore[x] = "stopping"
    /\ restore' = [restore EXCEPT ![x] = "writing"]
    /\ loop' = IF loop = "ending" THEN "none" ELSE loop
    /\ UNCHANGED <<settings, db, backups, wasRunning, picked, ranBefore, overlap>>

\* start_worker_loop() in the finally clause.
Resumed(x) == IF x \in wasRunning THEN "running" ELSE loop

\* Mutant: a failed restore raises before the loop is started again.
RestoreRaises(x) ==
    /\ restore[x] = "writing"
    /\ IF picked[x] \in NoUsers THEN UNCHANGED <<db, loop>>
       ELSE db' = picked[x] /\ loop' = Resumed(x)
    /\ restore' = [restore EXCEPT ![x] = "over"]
    /\ UNCHANGED <<settings, backups, wasRunning, picked, ranBefore, overlap>>

\* The transaction: committed, or rolled back when no user is left or anything
\* else raises; either way the loop is started again if it was running.
FinishRestore(x) ==
    /\ restore[x] = "writing"
    /\ IF picked[x] \in NoUsers THEN UNCHANGED db ELSE db' \in {picked[x], db}
    /\ loop' = Resumed(x)
    /\ restore' = [restore EXCEPT ![x] = "over"]
    /\ UNCHANGED <<settings, backups, wasRunning, picked, ranBefore, overlap>>
AdminNext ==
    \/ \E c \in Configs : UpdateDynamicConfig(c)
    \/ LoadDynamicConfig \/ UsersDeleted \/ CreateBackup
    \/ \E d \in Contents : LoopWrites(d) \/ \E x \in Restores : BeginRestore(x, d)
    \/ \E x \in Restores : LoopEnds(x) \/ FinishRestore(x)
-----------------------------------------------------------------------------
(* Properties.                                                             *)

\* Restores that overlap, fail or roll back leave the worker loop as the first
\* of them found it.
LoopComesBack == Restoring = {} => (loop = "running") = ranBefore

\* As long as restores do not overlap, the worker loop is stopped while the
\* tables are rewritten. (Of two that overlap, the second does not find the
\* loop, and the first starts it again under the second.)
LoopStopped == Restoring # {} /\ ~overlap => loop # "running"

\* A restore never leaves the database without users: such a backup is rolled
\* back whatever else is going on.
UsersSurviveRestore ==
    [][(\E x \in Restores : FinishRestore(x)) /\ db \notin NoUsers => db' \notin NoUsers]_adminVars

\* A restore disturbs neither the worker loop nor the accounts.
RestoresAreSafe == [](AdminTypeOK /\ LoopComesBack /\ LoopStopped) /\ UsersSurviveRestore
=============================================================================
