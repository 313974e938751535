---------------------------- MODULE GoalRecords ----------------------------
(***************************************************************************)
(* core/reasoning/goal.py and api/routes/goal.py: the goals users keep.    *)
(* Every request loads the row, updates its own columns, commits, loads    *)
(* the row again and tells the bus what its session holds.                 *)
(***************************************************************************)
EXTENDS Integers, FiniteSets

CONSTANTS
    GoalIds,
    GoalCalls,      \* requests under way at most
    NoGoalId

VARIABLES
    goalLife,       \* of every goal: "new", "stored" or "deleted"
    goalRow,        \* its row in agent_goals
    goalCalls,      \* the requests
    announced,      \* the status its last event carried
    completions,    \* goals for which goal.completed was published
    meant,          \* history: the last status a request committed
    unclear         \* history: goals whose requests crossed or lost an event

goalRecordVars == <<goalLife, goalRow, goalCalls, announced, completions, meant, unclear>>
-----------------------------------------------------------------------------
GoalStatus == {"pending", "active", "completed", "cancelled"}
PersistentGoal == [status : GoalStatus, progress : {0, 50, 100}, dated : BOOLEAN]
Fresh == [status |-> "pending", progress |-> 0, dated |-> FALSE]
IdleCall == [kind |-> "none", goal |-> NoGoalId, at |-> "idle", copy |-> "none"]

\* The columns each request sets: a progress of 100 is a completion, an edit sets none
\* of these.
Kinds == {"activate", "complete", "cancel", "progress", "edit"}
StatusAfter(kind, old) ==
    CASE kind = "activate" -> "active"
      [] kind = "complete" -> "completed"
      [] kind = "cancel" -> "cancelled"
      [] OTHER -> old
Updated(kind, r) ==
    [status |-> StatusAfter(kind, r.status),
     progress |-> CASE kind = "complete" -> 100 [] kind = "progress" -> 50 [] OTHER -> r.progress,
     dated |-> kind = "complete" \/ r.dated]

CallsOn(g) == {c \in GoalCalls : goalCalls[c].goal = g}
Crosses(c, g) == IF CallsOn(g) \ {c} = {} THEN unclear ELSE unclear \cup {g}
Goto(c, step) == goalCalls' = [goalCalls EXCEPT ![c].at = step]
Return(c) == goalCalls' = [goalCalls EXCEPT ![c] = IdleCall]

GoalRecordInit ==
    /\ goalLife = [g \in GoalIds |-> "new"] /\ goalRow = [g \in GoalIds |-> Fresh]
    /\ goalCalls = [c \in GoalCalls |-> IdleCall]
    /\ announced = [g \in GoalIds |-> "none"] /\ completions = {}
    /\ meant = [g \in GoalIds |-> "pending"] /\ unclear = {}

\* create_goal()
CreateGoal(c, g) ==
    /\ goalCalls[c] = IdleCall /\ goalLife[g] = "new"
    /\ goalLife' = [goalLife EXCEPT ![g] = "stored"]
    /\ goalCalls' = [goalCalls EXCEPT ![c] = [kind |-> "create", goal |-> g, at |-> "publish", copy |-> "pending"]]
    /\ UNCHANGED <<goalRow, announced, completions, meant, unclear>>

\* get_goal() of an update or a deletion; without a row a 404.
FindGoal(c, g, kind) ==
    /\ goalCalls[c] = IdleCall /\ goalLife[g] = "stored"
    /\ goalCalls' = [goalCalls EXCEPT ![c] = [kind |-> kind, goal |-> g, at |-> "write", copy |-> goalRow[g].status]]
    /\ UNCHANGED <<goalLife, goalRow, announced, completions, meant, unclear>>

\* The UPDATE writes the columns of the request into the row as it is now, and into
\* the copy as it was loaded.
UpdateGoal(c) ==
    LET g == goalCalls[c].goal  k == goalCalls[c].kind
    IN /\ goalCalls[c].at = "write" /\ k \in Kinds
       /\ goalCalls' = [goalCalls EXCEPT ![c].at = "reload", ![c].copy = StatusAfter(k, @)]
       /\ goalRow' = IF goalLife[g] = "stored" THEN [goalRow EXCEPT ![g] = Updated(k, @)] ELSE goalRow
       /\ meant' = IF goalLife[g] = "stored" THEN [meant EXCEPT ![g] = StatusAfter(k, @)] ELSE meant
       /\ unclear' = Crosses(c, g)
       /\ UNCHANGED <<goalLife, announced, completions>>

\* delete_goal(): no event.
DeleteGoal(c) ==
    LET g == goalCalls[c].goal
    IN /\ goalCalls[c].at = "write" /\ goalCalls[c].kind = "delete"
       /\ goalLife' = [goalLife EXCEPT ![g] = "deleted"] /\ Return(c)
       /\ unclear' = Crosses(c, g)
       /\ UNCHANGED <<goalRow, announced, completions, meant>>

\* The row is loaded once more, into the copy the session already has: a row that is
\* gone is an error, changes of others are not seen.
ReloadGoal(c) ==
    /\ goalCalls[c].at = "reload"
    /\ IF goalLife[goalCalls[c].goal] = "deleted" THEN Return(c) ELSE Goto(c, "publish")
    /\ UNCHANGED <<goalLife, goalRow, announced, completions, meant, unclear>>

\* _publish(): goal.created, or goal.updated and then goal.completed.
PublishGoal(c) ==
    LET g == goalCalls[c].goal
    IN /\ goalCalls[c].at \in {"publish", "complete"}
       /\ announced' = [announced EXCEPT ![g] = goalCalls[c].copy]
       /\ completions' = IF goalCalls[c].at = "complete" THEN completions \cup {g} ELSE completions
       /\ IF goalCalls[c].at = "publish" /\ goalCalls[c].kind = "complete"
          THEN Goto(c, "complete") ELSE Return(c)
       /\ unclear' = Crosses(c, g)
       /\ UNCHANGED <<goalLife, goalRow, meant>>

\* The database or the bus refuses, or the process ends: the request fails here.
GoalRequestFails(c) ==
    /\ goalCalls[c] # IdleCall /\ Return(c)
    /\ unclear' = IF goalCalls[c].at = "write" THEN unclear ELSE unclear \cup {goalCalls[c].goal}
    /\ UNCHANGED <<goalLife, goalRow, announced, completions, meant>>

GoalRecordNext ==
    \E c \in GoalCalls :
        \/ \E g \in GoalIds : CreateGoal(c, g) \/ \E k \in Kinds \cup {"delete"} : FindGoal(c, g, k)
        \/ UpdateGoal(c) \/ DeleteGoal(c) \/ ReloadGoal(c) \/ PublishGoal(c) \/ GoalRequestFails(c)
-----------------------------------------------------------------------------
(* Properties.                                                             *)

GoalRecordTypeOK ==
    /\ goalLife \in [GoalIds -> {"new", "stored", "deleted"}]
    /\ goalRow \in [GoalIds -> PersistentGoal]
    /\ completions \cup unclear \subseteq GoalIds

\* Requests that cross lose no status: the row has the one committed last, whatever
\* the others had loaded before.
StatusIsLastCommitted ==
    \A g \in GoalIds : goalLife[g] = "stored" =>
        /\ goalRow[g].status = meant[g]
        /\ goalRow[g].status = "completed" => goalRow[g].dated

\* goal.completed is published only for a goal whose completion is in the database.
CompletionsAreStored == \A g \in completions : goalRow[g].dated

\* When requests do not cross, the last event tells the status of the row.
LastEventIsTrue ==
    \A g \in GoalIds \ unclear :
        goalLife[g] = "stored" /\ CallsOn(g) = {} => announced[g] = goalRow[g].status

\* The goals users keep.
GoalRecordsSafe ==
    GoalRecordTypeOK /\ StatusIsLastCommitted /\ CompletionsAreStored /\ LastEventIsTrue
=============================================================================
