----------------------------- MODULE RunRecords -----------------------------
(***************************************************************************)
(* core/tools/workflow_orchestrator.py runs a compiled workflow wave by    *)
(* wave and reports on the event bus; core/reasoning/persistence_service.py *)
(* writes each report to the database in a task of its own, and            *)
(* core/tools/resume_manager.py closes what an earlier process left open.  *)
(***************************************************************************)
EXTENDS Integers, FiniteSets, SequencesExt

CONSTANTS
    Steps,          \* steps of the workflow
    Run,            \* the run itself, beside its steps
    Policies,       \* recovery policies in use
    MaxLookup       \* longest chain of variable references

ASSUME RunAssumption ==
    Policies \subseteq {"STOP", "CONTINUE", "RETRY_STEP", "RETRY_WORKFLOW", "ROLLBACK", "COMPENSATE"} /\
    IsFiniteSet(Steps) /\ Run \notin Steps /\ MaxLookup \in Nat \ {0}

VARIABLES
    uses,           \* of the plan: the dependencies of each step
    refs,           \* ... the steps whose output its arguments name
    wants,          \* ... and the variable of them: one of every result of a tool, or
                    \* the error that only a failure leaves
    recovery,       \* ... its recovery policy
    run,            \* the workflow, as execute_workflow() sees it
    stepNow,        \* each step, as its coroutine sees it
    unwritten,      \* reports not written yet, per run or step, in order
    stepRows,       \* the records of the run and of each step
    written,        \* history: what was recorded as COMPLETED
    crossed,        \* history: what had a report handled before an earlier one
    process         \* up, down, or up again after resume_all()

runVars == <<uses, refs, wants, recovery, run, stepNow, unwritten, stepRows, written, crossed, process>>
planVars == <<uses, refs, wants, recovery>>
-----------------------------------------------------------------------------
Things == Steps \cup {Run}
Ended == {"completed", "excused", "failed", "unbound"}

\* WorkflowCompiler._generate_waves(): a step joins the wave after the last of
\* its dependencies; a cycle joins none.
UpToWave(deps) ==
    LET w[n \in 0 .. Cardinality(Steps)] ==
          IF n = 0 THEN {} ELSE w[n - 1] \cup {s \in Steps : deps[s] \subseteq w[n - 1]}
    IN w
Earlier(deps, s) == UNION {UpToWave(deps)[n] : n \in {m \in 0 .. Cardinality(Steps) : s \notin UpToWave(deps)[m]}}

Acyclic(deps) == UpToWave(deps)[Cardinality(Steps)] = Steps

\* _verify_lookup_depth(): a reference to a step that has references itself.
Lookup(names) ==
    LET d[s \in Steps] == IF names[s] = {} THEN 1 ELSE 1 + Max({d[r] : r \in names[s]})
    IN d

\* WorkflowValidator and WorkflowCompiler accept a plan.
Accepts(deps, names) ==
    /\ Acyclic(deps)
    /\ \A s \in Steps : names[s] \subseteq Earlier(deps, s)
    /\ \A s \in Steps : Lookup(names)[s] <= MaxLookup

RunInit ==
    /\ uses \in [Steps -> SUBSET Steps] /\ Acyclic(uses)
    /\ refs \in [Steps -> SUBSET Steps] /\ Accepts(uses, refs)
    /\ wants \in [Steps -> {"result", "error"}] /\ \A s \in Steps : refs[s] = {} => wants[s] = "result"
    /\ recovery \in [Steps -> Policies]
    /\ run = "accepted" /\ process = "up"
    /\ stepNow = [s \in Steps |-> "waiting"]
    /\ unwritten = [x \in Things |-> <<>>] /\ stepRows = [x \in Things |-> <<>>]
    /\ written = {} /\ crossed = {}

\* The bus starts the handler of a report in a task of its own; row is what the
\* handler found, -1 before it has looked.
ReportStep(x, state) == unwritten' = [unwritten EXCEPT ![x] = Append(@, [state |-> state, row |-> -1])]
-----------------------------------------------------------------------------
\* execute_workflow()
StartRun ==
    /\ process = "up" /\ run = "accepted" /\ run' = "running"
    /\ ReportStep(Run, "RUNNING")
    /\ UNCHANGED <<planVars, stepNow, stepRows, written, crossed, process>>

\* _resolve_variables(): the variables are there. A tool that returned left its
\* result, with an error in it or not; a step that was excused an error only.
Resolves(s) ==
    \A r \in refs[s] : stepNow[r] = "completed" \/ (stepNow[r] = "excused" /\ wants[s] = "error")

\* Some variable may be missing, or its step has not executed yet.
Misses(s) ==
    \E r \in refs[s] : stepNow[r] # IF wants[s] = "error" THEN "excused" ELSE "completed"

\* Arguments resolved, or failing the run before the step is reported.
BindAndStart(s) ==
    /\ \/ /\ Resolves(s)
          /\ stepNow' = [stepNow EXCEPT ![s] = "running"]
          /\ ReportStep(s, "RUNNING") /\ UNCHANGED run
       \/ /\ Misses(s)
          /\ stepNow' = [stepNow EXCEPT ![s] = "unbound"]
          /\ run' = "failed" /\ UNCHANGED unwritten
    /\ UNCHANGED <<planVars, stepRows, written, crossed, process>>

\* Mutant: the steps of a wave are not awaited.
StartStepEarly(s) ==
    /\ process = "up" /\ run \in {"running", "failed"} /\ stepNow[s] = "waiting"
    /\ \A r \in Earlier(uses, s) : stepNow[r] # "waiting"
    /\ BindAndStart(s)

\* The steps of a wave start together, when those of the waves before have ended;
\* one that fails the run stops none of its wave.
StartStep(s) ==
    /\ process = "up" /\ run \in {"running", "failed"} /\ stepNow[s] = "waiting"
    /\ \A r \in Earlier(uses, s) : stepNow[r] \in {"completed", "excused"}
    /\ BindAndStart(s)

\* A tool returns, with success or not, for the run or, after another step of the wave has failed the
\* run, for nobody.
StepCompletes(s) ==
    /\ process = "up" /\ stepNow[s] = "running"
    /\ stepNow' = [stepNow EXCEPT ![s] = "completed"]
    /\ ReportStep(s, "COMPLETED")
    /\ UNCHANGED <<planVars, run, stepRows, written, crossed, process>>

\* The last attempt fails (under RETRY_STEP the attempts before it leave no trace):
\* CONTINUE leaves an error as output, under every other
\* policy the run fails. Its report goes out under the topic of a failed step without a step's
\* name, and nobody writes it.
StepFails(s) ==
    /\ process = "up" /\ stepNow[s] = "running"
    /\ IF recovery[s] = "CONTINUE"
       THEN stepNow' = [stepNow EXCEPT ![s] = "excused"] /\ UNCHANGED run
       ELSE stepNow' = [stepNow EXCEPT ![s] = "failed"] /\ run' = "failed"
    /\ ReportStep(s, "FAILED")
    /\ UNCHANGED <<planVars, stepRows, written, crossed, process>>

RunCompletes ==
    /\ process = "up" /\ run = "running"
    /\ \A s \in Steps : stepNow[s] \in {"completed", "excused"}
    /\ run' = "completed"
    /\ ReportStep(Run, "COMPLETED")
    /\ UNCHANGED <<planVars, stepNow, stepRows, written, crossed, process>>
-----------------------------------------------------------------------------
\* A handler looks for the record. Two records of one step make it raise.
FindRecord(x, i) ==
    /\ process # "down" /\ i \in 1 .. Len(unwritten[x]) /\ unwritten[x][i].row = -1
    /\ crossed' = IF i > 1 THEN crossed \cup {x} ELSE crossed
    /\ unwritten' = [unwritten EXCEPT ![x] =
         IF Len(stepRows[x]) > 1 THEN RemoveAt(@, i) ELSE [@ EXCEPT ![i].row = Len(stepRows[x])]]
    /\ UNCHANGED <<planVars, run, stepNow, stepRows, written, process>>

\* ... and writes it. A new record of a run needs the first report; a step's has
\* no unique key.
WriteRecord(x, i) ==
    /\ process # "down" /\ i \in 1 .. Len(unwritten[x]) /\ unwritten[x][i].row # -1
    /\ LET w == unwritten[x][i]
       IN IF w.row = 0 /\ x = Run /\ w.state # "RUNNING" THEN UNCHANGED <<stepRows, written>>
          ELSE /\ stepRows' = [stepRows EXCEPT ![x] = IF w.row = 0 THEN Append(@, w.state) ELSE [@ EXCEPT ![w.row] = w.state]]
               /\ written' = IF w.state = "COMPLETED" THEN written \cup {x} ELSE written
    /\ unwritten' = [unwritten EXCEPT ![x] = RemoveAt(@, i)]
    /\ UNCHANGED <<planVars, run, stepNow, crossed, process>>
-----------------------------------------------------------------------------
\* The process ends; the plan, the coroutines and the reports under way are lost.
EndProcess ==
    /\ process = "up" /\ process' = "down"
    /\ unwritten' = [x \in Things |-> <<>>]
    /\ run' = "gone" /\ stepNow' = [s \in Steps |-> "gone"]
    /\ uses' = [s \in Steps |-> {}] /\ refs' = uses' /\ wants' = [s \in Steps |-> "result"]
    /\ UNCHANGED <<recovery, stepRows, written, crossed>>

\* resume_all(), one transaction: a run that is RUNNING is failed with its RUNNING
\* steps. Two records of such a step make it raise, and nothing is changed.
ResumeAll ==
    /\ process = "down" /\ process' = "again"
    /\ LET hung == {s \in Steps : "RUNNING" \in Range(stepRows[s])}
           open == stepRows[Run] = <<"RUNNING">>
       IN IF open /\ \A s \in hung : Len(stepRows[s]) = 1
          THEN /\ stepRows' = [x \in Things |-> IF x \in hung \cup {Run} THEN <<"FAILED">> ELSE stepRows[x]]
               /\ unwritten' = [x \in Things |->
                    IF x \in hung \cup {Run} THEN <<[state |-> "FAILED", row |-> -1]>> ELSE <<>>]
          ELSE UNCHANGED <<stepRows, unwritten>>
    /\ UNCHANGED <<planVars, run, stepNow, written, crossed>>

RunNext ==
    \/ StartRun \/ RunCompletes \/ EndProcess \/ ResumeAll
    \/ \E s \in Steps : StartStep(s) \/ StepCompletes(s) \/ StepFails(s)
    \/ \E x \in Things, i \in 1 .. 2 : FindRecord(x, i) \/ WriteRecord(x, i)
-----------------------------------------------------------------------------
(* Properties.                                                             *)

RunTypeOK ==
    /\ run \in {"accepted", "running", "completed", "failed", "gone"} /\ process \in {"up", "down", "again"}
    /\ stepNow \in [Steps -> {"waiting", "running", "gone"} \cup Ended]
    /\ \A x \in Things : Len(stepRows[x]) <= 2 /\ Range(stepRows[x]) \subseteq {"RUNNING", "COMPLETED", "FAILED"}
    /\ crossed \cup written \subseteq Things

\* No step is bound before the steps whose output it names have ended, and none
\* runs without its variables. What the compiler accepts fails for a missing
\* variable only where a step it names was excused, or where an error is asked for
\* that there may not be, whatever else of the wave fails.
VariablesAreThere ==
    \A s \in Steps : stepNow[s] \notin {"waiting", "gone"} =>
        /\ \A r \in refs[s] : stepNow[r] \in {"completed", "excused"}
        /\ stepNow[s] # "unbound" => Resolves(s)
        /\ stepNow[s] = "unbound" => wants[s] = "error" \/ \E r \in refs[s] : stepNow[r] = "excused"

Recorded(x) == unwritten[x] = <<>> /\ x \notin crossed

\* Once its reports are written in their order, a step has one record, of what
\* became of it; one whose variables are missing has none.
StepRecordsAreTrue ==
    process = "up" => \A s \in Steps : Recorded(s) =>
        stepRows[s] = CASE stepNow[s] \in {"waiting", "unbound"} -> <<>>
                    [] stepNow[s] = "running" -> <<"RUNNING">>
                    [] stepNow[s] = "completed" -> <<"COMPLETED">>
                    [] OTHER -> <<"FAILED">>

\* So has the run, except that a failed run is recorded as RUNNING.
RunRecordIsTrue ==
    process = "up" /\ Recorded(Run) =>
        stepRows[Run] = CASE run = "accepted" -> <<>>
                      [] run = "completed" -> <<"COMPLETED">>
                      [] OTHER -> <<"RUNNING">>

\* Unless reports had crossed before, the recovery leaves no run RUNNING, no step of
\* a run it has failed, and fails nothing that was recorded as completed.
RecoveryIsRight ==
    process = "again" /\ crossed = {} =>
        /\ stepRows[Run] # <<"RUNNING">>
        /\ stepRows[Run] = <<"FAILED">> => \A s \in Steps : "RUNNING" \notin Range(stepRows[s])
        /\ \A x \in written : stepRows[x] = <<"COMPLETED">>

\* The records of workflow runs.
RunRecordsSafe ==
    RunTypeOK /\ VariablesAreThere /\ StepRecordsAreTrue /\ RunRecordIsTrue /\ RecoveryIsRight
=============================================================================
