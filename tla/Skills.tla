------------------------------- MODULE Skills -------------------------------
(***************************************************************************)
(* core/skills: installing, removing and rolling back a skill. The         *)
(* installer keeps the table installed_skills and the registry in memory   *)
(* in step, in several transactions and with other calls in between; a     *)
(* removed skill keeps its row.                                            *)
(***************************************************************************)
EXTENDS Integers, FiniteSets

CONSTANTS
    SkillIds,       \* skills; id and name are the same
    BaseSkill,      \* the skill the others depend on
    SkillCalls,     \* calls of the installer under way
    NoSkill         \* no call

ASSUME SkillAssumption == BaseSkill \in SkillIds /\ NoSkill \notin SkillIds

VARIABLES
    skillRow,       \* status in installed_skills
    inserted,       \* history: rows inserted for the skill
    registered,     \* SkillRegistry: with all its capabilities, or bare after a rollback
    callAt,         \* where each call is suspended
    skill,         \* the skill it is about
    told,           \* the last success a caller was told of
    disturbed       \* history: a call was cut off, or two calls on the skill overlapped

skillVars == <<skillRow, inserted, registered, callAt, skill, told, disturbed>>
-----------------------------------------------------------------------------
Points == {"idle", "list", "name", "sandbox", "approve", "save", "details", "activate",
           "undo", "drop", "restore"}

SkillsInit ==
    /\ skillRow = [s \in SkillIds |-> "none"] /\ inserted = [s \in SkillIds |-> 0]
    /\ registered = [s \in SkillIds |-> "no"]
    /\ callAt = [c \in SkillCalls |-> "idle"] /\ skill = [c \in SkillCalls |-> NoSkill]
    /\ told = [s \in SkillIds |-> "nothing"] /\ disturbed = {}

Reaches(c, point) == callAt' = [callAt EXCEPT ![c] = point] /\ UNCHANGED skill
Ends(c) ==
    /\ callAt' = [callAt EXCEPT ![c] = "idle"] /\ skill' = [skill EXCEPT ![c] = NoSkill]
Busy(s) == \E c \in SkillCalls : skill[c] = s

\* A call begins; two calls on one skill disturb each other.
StartCall(c, s, point) ==
    /\ callAt[c] = "idle"
    /\ callAt' = [callAt EXCEPT ![c] = point] /\ skill' = [skill EXCEPT ![c] = s]
    /\ disturbed' = IF Busy(s) THEN disturbed \cup {s} ELSE disturbed
    /\ UNCHANGED <<skillRow, inserted, registered, told>>

\* _fail(), or an error that reaches the caller.
CallFails(c) ==
    /\ Ends(c)
    /\ UNCHANGED <<skillRow, inserted, registered, told, disturbed>>
-----------------------------------------------------------------------------
(* install()                                                               *)

\* The manifest is valid.
BeginInstall(c, s) == StartCall(c, s, "list")

\* Every dependency has a row, in whatever status.
ResolveDependencies(c) ==
    /\ callAt[c] = "list"
    /\ IF skill[c] = BaseSkill \/ skillRow[BaseSkill] # "none"
         THEN Reaches(c, "name") /\ UNCHANGED <<skillRow, inserted, registered, told, disturbed>>
         ELSE CallFails(c)

\* A row of that name refuses the installation unless it is forced.
CheckInstalled(c) ==
    /\ callAt[c] = "name"
    /\ \/ Reaches(c, "sandbox") /\ UNCHANGED <<skillRow, inserted, registered, told, disturbed>>
       \/ skillRow[skill[c]] # "none" /\ CallFails(c)

\* The sandbox passes the tests or not, then the approvals are given or not
\* and the signature is valid or not.
Vetted(c) ==
    /\ callAt[c] \in {"sandbox", "approve"}
    /\ \/ /\ Reaches(c, IF callAt[c] = "sandbox" THEN "approve" ELSE "save")
          /\ UNCHANGED <<skillRow, inserted, registered, told, disturbed>>
       \/ CallFails(c)

\* save_installed_skill(): the row is inserted, never replaced.
SaveSkill(c) ==
    /\ callAt[c] = "save" /\ skillRow[skill[c]] = "none"
    /\ skillRow' = [skillRow EXCEPT ![skill[c]] = "INSTALLED"]
    /\ inserted' = [inserted EXCEPT ![skill[c]] = @ + 1]
    /\ Reaches(c, "details")
    /\ UNCHANGED <<registered, told, disturbed>>

\* There is a row: the insertion violates the primary key and raises, forced or not.
SaveRaises(c) ==
    /\ callAt[c] = "save" /\ skillRow[skill[c]] # "none"
    /\ CallFails(c)

\* Capabilities and version are recorded; register() puts it into the registry.
SaveDetails(c) ==
    /\ callAt[c] = "details"
    /\ registered' = [registered EXCEPT ![skill[c]] = "full"]
    /\ Reaches(c, "activate")
    /\ UNCHANGED <<skillRow, inserted, told, disturbed>>

\* update_skill_metadata(): the row is ACTIVE and the caller is told.
ActivateSkill(c) ==
    /\ callAt[c] = "activate"
    /\ skillRow' = [skillRow EXCEPT ![skill[c]] = "ACTIVE"]
    /\ told' = [told EXCEPT ![skill[c]] = "installed"]
    /\ Ends(c)
    /\ UNCHANGED <<inserted, registered, disturbed>>

\* It fails: the installation is to be taken back.
ActivateFails(c) ==
    /\ callAt[c] = "activate"
    /\ Reaches(c, "undo")
    /\ UNCHANGED <<skillRow, inserted, registered, told, disturbed>>

\* Mutant: the registry keeps the skill.
UndoInDatabase(c) ==
    /\ callAt[c] = "undo"
    /\ skillRow' = [skillRow EXCEPT ![skill[c]] = "REMOVED"]
    /\ Ends(c)
    /\ UNCHANGED <<inserted, registered, told, disturbed>>

\* remove_skill() and unregister().
UndoInstall(c) ==
    /\ callAt[c] = "undo"
    /\ skillRow' = [skillRow EXCEPT ![skill[c]] = "REMOVED"]
    /\ registered' = [registered EXCEPT ![skill[c]] = "no"]
    /\ Ends(c)
    /\ UNCHANGED <<inserted, told, disturbed>>
-----------------------------------------------------------------------------
(* remove() and rollback()                                                 *)

\* get_skill_by_name() finds the row, also that of a removed skill.
BeginRemove(c, s) == skillRow[s] # "none" /\ StartCall(c, s, "drop")

RemoveSkill(c) ==
    /\ callAt[c] = "drop"
    /\ skillRow' = [skillRow EXCEPT ![skill[c]] = "REMOVED"]
    /\ registered' = [registered EXCEPT ![skill[c]] = "no"]
    /\ told' = [told EXCEPT ![skill[c]] = "removed"]
    /\ Ends(c)
    /\ UNCHANGED <<inserted, disturbed>>

BeginRollback(c, s) == skillRow[s] # "none" /\ StartCall(c, s, "restore")

\* The row gets the version and is ACTIVE; it is registered without capabilities.
RollbackSkill(c) ==
    /\ callAt[c] = "restore"
    /\ skillRow' = [skillRow EXCEPT ![skill[c]] = "ACTIVE"]
    /\ registered' = [registered EXCEPT ![skill[c]] = "bare"]
    /\ told' = [told EXCEPT ![skill[c]] = "rolled back"]
    /\ Ends(c)
    /\ UNCHANGED <<inserted, disturbed>>

\* The database fails under a call that had begun to write.
CutOff(c) ==
    /\ callAt[c] \in {"details", "undo", "drop", "restore"}
    /\ disturbed' = IF callAt[c] \in {"details", "undo"} THEN disturbed \cup {skill[c]} ELSE disturbed
    /\ Ends(c)
    /\ UNCHANGED <<skillRow, inserted, registered, told>>

\* The process is restarted: nothing fills the registry again.
RestartProcess ==
    /\ registered' = [s \in SkillIds |-> "no"]
    /\ callAt' = [c \in SkillCalls |-> "idle"] /\ skill' = [c \in SkillCalls |-> NoSkill]
    /\ disturbed' = {s \in SkillIds : skillRow[s] # "none"}
    /\ UNCHANGED <<skillRow, inserted, told>>

SkillsNext ==
    \/ \E c \in SkillCalls :
         \/ ResolveDependencies(c) \/ CheckInstalled(c) \/ Vetted(c)
         \/ SaveSkill(c) \/ SaveRaises(c) \/ SaveDetails(c)
         \/ ActivateSkill(c) \/ ActivateFails(c) \/ UndoInstall(c)
         \/ RemoveSkill(c) \/ RollbackSkill(c) \/ CutOff(c)
         \/ \E s \in SkillIds : BeginInstall(c, s) \/ BeginRemove(c, s) \/ BeginRollback(c, s)
    \/ RestartProcess
-----------------------------------------------------------------------------
(* Properties.                                                             *)

SkillsTypeOK ==
    /\ skillRow \in [SkillIds -> {"none", "INSTALLED", "ACTIVE", "REMOVED"}]
    /\ registered \in [SkillIds -> {"no", "full", "bare"}]
    /\ callAt \in [SkillCalls -> Points] /\ skill \in [SkillCalls -> SkillIds \cup {NoSkill}]

\* What the last successful call told its caller is what table and registry say,
\* unless calls on the skill overlapped, one was cut off or the process restarted.
AnswersHold ==
    \A s \in SkillIds : ~Busy(s) /\ s \notin disturbed =>
        CASE told[s] = "nothing" -> registered[s] = "no" /\ skillRow[s] # "ACTIVE"
          [] told[s] = "installed" -> registered[s] = "full" /\ skillRow[s] = "ACTIVE"
          [] told[s] = "removed" -> registered[s] = "no" /\ skillRow[s] = "REMOVED"
          [] told[s] = "rolled back" -> registered[s] = "bare" /\ skillRow[s] = "ACTIVE"

\* A skill is inserted once, however many installations race.
InsertedOnce == \A s \in SkillIds : inserted[s] <= 1

\* A registered skill has a row, and so has the skill it depends on.
RegisteredIsKnown ==
    \A s \in SkillIds : registered[s] # "no" => skillRow[s] # "none" /\ skillRow[BaseSkill] # "none"

\* The skills.
SkillSafe == SkillsTypeOK /\ AnswersHold /\ InsertedOnce /\ RegisteredIsKnown
=============================================================================
