---------------------------- MODULE Observability ----------------------------
(***************************************************************************)
(* The two records core/observability keeps.                               *)
(*                                                                         *)
(* cost_governor.py: the cost of every call of a language model is added   *)
(* to the day's ledger in a task of its own, while the caller's verdict is *)
(* drawn from the total the ledger shows meanwhile. Costs are whole units. *)
(*                                                                         *)
(* tracer.py: spans are kept in a short list and saved by tasks nobody     *)
(* waits for, once when a span starts and once when it ends. Both saves    *)
(* share the span's record while it is in the list.                        *)
(***************************************************************************)
EXTENDS Integers, FiniteSets, FiniteSetsExt, SequencesExt

-----------------------------------------------------------------------------
(* The cost ledger.                                                        *)

CONSTANTS
    LlmCalls,       \* calls
    LlmModels,      \* models they use
    MaxCost,        \* the highest cost of a call
    CallLimit,      \* per_call_block_usd
    WarnAt,         \* warn_threshold_usd
    DailyLimit      \* daily_limit_usd

ASSUME LedgerAssumption ==
    /\ IsFiniteSet(LlmCalls) /\ IsFiniteSet(LlmModels) /\ LlmModels # {}
    /\ {MaxCost, CallLimit, WarnAt, DailyLimit} \subseteq Nat

VARIABLES
    charge,         \* model and cost of a call, NoCharge before it
    verdict,        \* what record_usage() returned for it
    saving,         \* where its ledger update is
    rowSeen,        \* the cost the update found, -1 for no row
    ledger,         \* cost of the day per model, -1 without a row
    blurred,        \* history: models whose updates overlapped or failed
    spentThen,      \* history: what had been spent when a verdict was drawn
    guessed         \* history: verdicts drawn beside other updates, or without a total

ledgerVars == <<charge, verdict, saving, rowSeen, ledger, blurred, spentThen, guessed>>
-----------------------------------------------------------------------------
NoCharge == [model |-> CHOOSE m \in LlmModels : TRUE, cost |-> -1]

LedgerInit ==
    /\ charge = [c \in LlmCalls |-> NoCharge] /\ verdict = [c \in LlmCalls |-> "none"]
    /\ saving = [c \in LlmCalls |-> "none"] /\ rowSeen = [c \in LlmCalls |-> -1]
    /\ ledger = [m \in LlmModels |-> -1]
    /\ blurred = {} /\ guessed = {} /\ spentThen = [c \in LlmCalls |-> 0]

\* _evaluate_tier()
Tier(total) ==
    CASE total >= DailyLimit -> "FAILOVER"
      [] total >= WarnAt /\ total < DailyLimit -> "WARN"
      [] OTHER -> "ALLOW"

Cost(cs) == SumFunctionOnSet([c \in LlmCalls |-> charge[c].cost], cs)
Spent == {c \in LlmCalls : charge[c] # NoCharge}
Pending == {c \in LlmCalls : saving[c] \in {"queued", "found"}}

\* get_daily_total(): the rows of the day.
DailyTotal == SumFunctionOnSet([m \in LlmModels |-> Max({ledger[m], 0})], LlmModels)

\* record_usage(): the update is started, an expensive call is reported at once,
\* any other waits for the total.
RecordUsage(c, m, cost) ==
    /\ charge[c] = NoCharge
    /\ charge' = [charge EXCEPT ![c] = [model |-> m, cost |-> cost]]
    /\ saving' = [saving EXCEPT ![c] = "queued"]
    /\ verdict' = [verdict EXCEPT ![c] = IF cost > CallLimit THEN "BLOCK" ELSE "asking"]
    /\ UNCHANGED <<rowSeen, ledger, blurred, spentThen, guessed>>

\* The total is read, with or without this call's own update in it, and the cost is
\* added in any case.
Judge(c) ==
    /\ verdict[c] = "asking"
    /\ verdict' = [verdict EXCEPT ![c] = Tier(DailyTotal + charge[c].cost)]
    /\ spentThen' = [spentThen EXCEPT ![c] = Cost(Spent)]
    /\ guessed' = IF Pending \subseteq {c} /\ blurred = {} THEN guessed ELSE guessed \cup {c}
    /\ UNCHANGED <<charge, saving, rowSeen, ledger, blurred>>

\* The total cannot be read: the call is allowed.
JudgeFails(c) ==
    /\ verdict[c] = "asking"
    /\ verdict' = [verdict EXCEPT ![c] = "ALLOW"] /\ guessed' = guessed \cup {c}
    /\ UNCHANGED <<charge, saving, rowSeen, ledger, blurred, spentThen>>
-----------------------------------------------------------------------------
Overlaps(c) == \E d \in LlmCalls \ {c} : saving[d] = "found" /\ charge[d].model = charge[c].model

\* upsert_ledger() looks for the row of the day and the model ...
FindRow(c) ==
    /\ saving[c] = "queued"
    /\ saving' = [saving EXCEPT ![c] = "found"]
    /\ rowSeen' = [rowSeen EXCEPT ![c] = ledger[charge[c].model]]
    /\ blurred' = IF Overlaps(c) THEN blurred \cup {charge[c].model} ELSE blurred
    /\ UNCHANGED <<charge, verdict, ledger, spentThen, guessed>>

\* ... and writes the sum it has computed. A second row for the day is refused by
\* the unique index and the cost is lost.
WriteRow(c) ==
    /\ saving[c] = "found"
    /\ LET m == charge[c].model
       IN IF rowSeen[c] = -1 /\ ledger[m] # -1
          THEN saving' = [saving EXCEPT ![c] = "lost"] /\ UNCHANGED ledger
          ELSE /\ saving' = [saving EXCEPT ![c] = "saved"]
               /\ ledger' = [ledger EXCEPT ![m] = Max({rowSeen[c], 0}) + charge[c].cost]
    /\ rowSeen' = [rowSeen EXCEPT ![c] = -1]
    /\ UNCHANGED <<charge, verdict, blurred, spentThen, guessed>>

\* The update fails: a warning is logged and nobody tries again.
SaveFails(c) ==
    /\ saving[c] \in {"queued", "found"}
    /\ saving' = [saving EXCEPT ![c] = "lost"]
    /\ rowSeen' = [rowSeen EXCEPT ![c] = -1]
    /\ blurred' = blurred \cup {charge[c].model}
    /\ UNCHANGED <<charge, verdict, ledger, spentThen, guessed>>

LedgerNext ==
    \E c \in LlmCalls :
        \/ Judge(c) \/ JudgeFails(c) \/ FindRow(c) \/ WriteRow(c) \/ SaveFails(c)
        \/ \E m \in LlmModels, cost \in 1 .. MaxCost : RecordUsage(c, m, cost)
-----------------------------------------------------------------------------
(* Properties.                                                             *)

LedgerTypeOK ==
    /\ \A c \in LlmCalls : charge[c].model \in LlmModels /\ charge[c].cost \in {-1} \cup (1 .. MaxCost)
    /\ verdict \in [LlmCalls -> {"none", "asking", "ALLOW", "WARN", "FAILOVER", "BLOCK"}]
    /\ saving \in [LlmCalls -> {"none", "queued", "found", "saved", "lost"}]
    /\ \A m \in LlmModels : ledger[m] \in Nat \cup {-1}
    /\ blurred \subseteq LlmModels /\ guessed \subseteq LlmCalls

SavedOf(m) == {c \in LlmCalls : saving[c] = "saved" /\ charge[c].model = m}

\* The ledger of a model shows exactly what its updates brought, blocked calls too,
\* unless two of them overlapped: then it shows less, never more.
LedgerIsExact ==
    \A m \in LlmModels :
        /\ Max({ledger[m], 0}) <= Cost(SavedOf(m))
        /\ m \notin blurred => Max({ledger[m], 0}) = Cost(SavedOf(m))

Milder(a, b) == <<a, b>> \in {<<"ALLOW", "WARN">>, <<"ALLOW", "FAILOVER">>, <<"WARN", "FAILOVER">>}

\* A verdict drawn while no other update was under way is not milder than the money
\* spent so far asks for, and stricter at most by counting the call twice.
VerdictIsFair ==
    \A c \in LlmCalls \ guessed : verdict[c] \in {"ALLOW", "WARN", "FAILOVER"} =>
        /\ ~Milder(verdict[c], Tier(spentThen[c]))
        /\ ~Milder(Tier(spentThen[c] + charge[c].cost), verdict[c])

\* The ledger of the costs.
CostLedgerSafe == LedgerTypeOK /\ LedgerIsExact /\ VerdictIsFair
-----------------------------------------------------------------------------
(* The spans.                                                              *)

CONSTANTS
    MaxSpans,       \* bound on the spans, numbered in the order they start
    MaxRecent,      \* _MAX_RECENT_SPANS
    NoSpan          \* no row, or no save

ASSUME TraceAssumption ==
    /\ MaxRecent \in Nat \ {0} /\ MaxSpans \in Nat
    /\ NoSpan \notin [status : {"STARTED", "ENDED"}, known : BOOLEAN]

VARIABLES
    begun,          \* how many spans have started
    recentSpans,    \* _recent_spans
    over,           \* spans whose end was reported
    blank,          \* ... when the list had dropped them
    saves,          \* of every span: the save at its start and the one at its end
    spanRows,       \* trace_spans
    mingled,        \* history: spans whose saves overlapped or failed
    tracing         \* the service is subscribed and the process is up

traceVars == <<begun, recentSpans, over, blank, saves, spanRows, mingled, tracing>>
-----------------------------------------------------------------------------
Spans == 1 .. MaxSpans
Started == 1 .. begun
SpanEnds == {"start", "end"}
Rows == [status : {"STARTED", "ENDED"}, known : BOOLEAN]

\* A save: no row is looked for before its first step.
SaveAt(step) == [at |-> step, insert |-> FALSE, row |-> NoSpan]

TraceInit ==
    /\ begun = 0 /\ recentSpans = <<>> /\ over = {} /\ blank = {} /\ mingled = {}
    /\ saves = [s \in Spans |-> [p \in SpanEnds |-> SaveAt("none")]]
    /\ spanRows = [s \in Spans |-> NoSpan] /\ tracing = TRUE

LastOf(q) == SubSeq(q, Max({1, Len(q) - MaxRecent + 1}), Len(q))

\* _add_recent(), _find_recent()
AddRecent(s) ==
    IF Len(recentSpans) + 1 > 2 * MaxRecent THEN LastOf(Append(recentSpans, s)) ELSE Append(recentSpans, s)
FindRecent(s) == s \in ToSet(recentSpans)

FireAndForget(s, p) == saves' = [saves EXCEPT ![s][p] = SaveAt("queued")]

\* start_span(): past twice the limit the list keeps its newest half.
StartSpan(s) ==
    /\ tracing /\ s = begun + 1 /\ begun' = s
    /\ recentSpans' = AddRecent(s)
    /\ FireAndForget(s, "start")
    /\ UNCHANGED <<over, blank, spanRows, mingled, tracing>>

\* end_span(): the record in the list is completed; without it a record of the end
\* alone is saved.
EndSpan(s) ==
    /\ tracing /\ s \in Started \ over
    /\ over' = over \cup {s}
    /\ blank' = IF FindRecent(s) THEN blank ELSE blank \cup {s}
    /\ FireAndForget(s, "end")
    /\ UNCHANGED <<begun, recentSpans, spanRows, mingled, tracing>>
-----------------------------------------------------------------------------
\* What a save writes: it reads the record when it has looked for the row.
Content(s, p) ==
    [status |-> IF p = "end" \/ (s \in over /\ s \notin blank) THEN "ENDED" ELSE "STARTED",
     known |-> ~(p = "end" /\ s \in blank)]

\* SpanRepository.save() looks for the row ...
LookUp(s, p) ==
    /\ saves[s][p].at = "queued"
    /\ saves' = [saves EXCEPT ![s][p] =
         [at |-> "found", insert |-> spanRows[s] = NoSpan, row |-> Content(s, p)]]
    /\ mingled' = IF p = "end" /\ saves[s]["start"].at # "done" THEN mingled \cup {s} ELSE mingled
    /\ UNCHANGED <<begun, recentSpans, over, blank, spanRows, tracing>>

\* ... and writes it: all of it, or status and end into the row it has found.
Store(s, p) ==
    /\ saves[s][p].at = "found"
    /\ LET w == saves[s][p]
       IN IF w.insert /\ spanRows[s] # NoSpan
          THEN /\ saves' = [saves EXCEPT ![s][p] = SaveAt("failed")]
               /\ UNCHANGED spanRows
          ELSE /\ saves' = [saves EXCEPT ![s][p] = SaveAt("done")]
               /\ spanRows' = [spanRows EXCEPT ![s] = IF w.insert THEN w.row ELSE [@ EXCEPT !.status = w.row.status]]
    /\ UNCHANGED <<begun, recentSpans, over, blank, mingled, tracing>>

\* The database refuses: a warning is logged.
StoreFails(s, p) ==
    /\ saves[s][p].at \in {"queued", "found"}
    /\ saves' = [saves EXCEPT ![s][p] = SaveAt("failed")]
    /\ mingled' = mingled \cup {s}
    /\ UNCHANGED <<begun, recentSpans, over, blank, spanRows, tracing>>

\* The process ends; saves under way are lost and the list with them.
StopTracing ==
    /\ tracing /\ tracing' = FALSE /\ recentSpans' = <<>>
    /\ mingled' = mingled \cup {s \in Spans : \E p \in SpanEnds : saves[s][p].at \in {"queued", "found"}}
    /\ saves' = [s \in Spans |-> [p \in SpanEnds |->
         IF saves[s][p].at \in {"queued", "found"} THEN SaveAt("failed") ELSE saves[s][p]]]
    /\ UNCHANGED <<begun, over, blank, spanRows>>

TraceNext ==
    \/ StopTracing
    \/ \E s \in Spans :
         \/ StartSpan(s) \/ EndSpan(s)
         \/ \E p \in SpanEnds : LookUp(s, p) \/ Store(s, p) \/ StoreFails(s, p)
-----------------------------------------------------------------------------
(* Properties.                                                             *)

TraceTypeOK ==
    /\ begun \in 0 .. MaxSpans
    /\ \A s \in Spans : spanRows[s] \in Rows \cup {NoSpan}
    /\ over \subseteq Started /\ blank \subseteq over /\ mingled \subseteq Spans

Settled(s) == \A p \in SpanEnds : saves[s][p].at \in {"none", "done", "failed"}

\* A span whose saves came one after the other is recorded as it was: STARTED while
\* it runs, ended after its end even if the list had dropped it, and always with
\* the trace it belongs to.
EndsAreRecorded ==
    \A s \in Started \ mingled : Settled(s) =>
        spanRows[s] = [status |-> IF s \in over THEN "ENDED" ELSE "STARTED", known |-> TRUE]

\* The end of a span that is still in the list is not undone by a late save of its
\* start: a row that says ENDED keeps saying so.
EndsStay ==
    \A s \in over \ blank :
        Settled(s) /\ "failed" \notin {saves[s][p].at : p \in SpanEnds} => spanRows[s].status = "ENDED"

\* The telemetry shows the spans that started last.
RecentIsRecent == tracing => LastOf(recentSpans) = LastOf([s \in Started |-> s])

\* The trace of the tasks.
TracingSafe == TraceTypeOK /\ EndsAreRecorded /\ EndsStay /\ RecentIsRecent
=============================================================================
