------------------------------ MODULE Providers ------------------------------
(***************************************************************************)
(* Language model providers: ModelRouter.execute_with_retry() routes       *)
(* requests to healthy providers within their rate limits, LlmRuntime      *)
(* calls its provider directly, the health monitor pings providers that    *)
(* are down, and streams are read by a thread.                             *)
(*                                                                         *)
(* Every await is a point where others run. Publishing telemetry never     *)
(* raises. The clock is two facts per provider: the cooldown has passed,   *)
(* and how many requests the last minute saw.                              *)
(***************************************************************************)
EXTENDS Integers, Sequences, FiniteSets, SequencesExt

CONSTANTS
    HostedModel,   \* gemini, claude, openai
    LocalModel,    \* qwen, llama: free, and the last resort
    Requests,        \* requests through the router
    Direct,        \* requests of LlmRuntime and streams, to the hosted provider
    MaxSlots,      \* max_concurrent
    MaxPerMinute,  \* rpm
    MaxSends,      \* max_retries
    MaxStrikes,    \* failures that make a provider OFFLINE: 5
    StreamLength   \* chunks of a stream, bound of the model

\* get_best_providers_for_task(): candidates, best first.
Ranking == <<HostedModel, LocalModel>>
LocalRanking == <<LocalModel>>
LocalModels == {LocalModel}
Models == Range(Ranking)
NoModel == "none"

ASSUME ProvidersAssumption ==
    /\ HostedModel # LocalModel /\ NoModel \notin Models
    /\ IsFiniteSet(Requests) /\ Requests \cap Direct = {}
    /\ MaxSlots \in Nat /\ MaxPerMinute \in Nat /\ MaxSends \in Nat /\ StreamLength \in Nat
    /\ MaxStrikes \in Nat \ {0}

VARIABLES
    health, strikes,  \* health_status, failure_count
    slots,            \* concurrent_requests
    recent,           \* request_timestamps of the last minute
    overBudget,       \* daily_spending >= daily_budget
    request,          \* where each request is
    candidates, thrifty, serving, retries,  \* its candidates, budget_exhausted, provider, attempts
    sends,            \* calls of generate() so far
    leaked,           \* slots of requests that were cancelled while they held one
    probed,             \* the provider the monitor pings
    items, gone, received  \* a stream: queue, chunks sent and chunks read

healthVars == <<health, strikes>>
limitVars == <<slots, recent>>
requestVars == <<request, candidates, thrifty, serving, retries, sends>>
streamVars == <<items, gone, received>>
providerVars == <<health, strikes, slots, recent, overBudget, request, candidates, thrifty,
                  serving, retries, sends, leaked, probed, items, gone, received>>

Clients == Requests \cup Direct

ProviderInit ==
    /\ health = [p \in Models |-> "ONLINE"] /\ strikes = [p \in Models |-> 0]
    /\ slots = [p \in Models |-> 0] /\ recent = [p \in Models |-> 0]
    /\ overBudget = FALSE
    /\ request = [c \in Clients |-> "idle"] /\ candidates = [c \in Clients |-> <<>>]
    /\ thrifty = [c \in Clients |-> FALSE] /\ serving = [c \in Clients |-> NoModel]
    /\ retries = [c \in Clients |-> 0] /\ sends = [c \in Clients |-> 0]
    /\ leaked = [p \in Models |-> 0] /\ probed = NoModel
    /\ items = <<>> /\ gone = 0 /\ received = 0
-----------------------------------------------------------------------------
(* Health.                                                                 *)

\* record_success().
Success(p) ==
    /\ health' = [health EXCEPT ![p] = "ONLINE"]
    /\ strikes' = [strikes EXCEPT ![p] = 0]

\* record_failure(), n times in a row; the count matters up to MaxStrikes.
Failure(p, n) ==
    LET count == Min({strikes[p] + n, MaxStrikes})
    IN /\ strikes' = [strikes EXCEPT ![p] = count]
       /\ health' = [health EXCEPT ![p] = IF count = MaxStrikes \/ @ = "OFFLINE" THEN "OFFLINE" ELSE "COOLDOWN"]

\* health_check(): a cooldown that has passed (COOLED) ends.
Up(p) == health[p] \in {"ONLINE", "COOLED"}
HealthCheck(p) == IF health[p] = "COOLED" THEN Success(p) ELSE UNCHANGED healthVars

CooldownPasses(p) ==
    /\ health[p] = "COOLDOWN" /\ health' = [health EXCEPT ![p] = "COOLED"]
    /\ UNCHANGED <<strikes, overBudget, leaked, probed>>
    /\ UNCHANGED limitVars /\ UNCHANGED requestVars /\ UNCHANGED streamVars

\* check_rate_limits(), which drops what is older than a minute.
WithinLimits(p) == slots[p] < MaxSlots /\ recent[p] < MaxPerMinute

MinutePasses(p) ==
    /\ recent[p] > 0 /\ recent' = [recent EXCEPT ![p] = @ - 1]
    /\ UNCHANGED <<slots, overBudget, leaked, probed>>
    /\ UNCHANGED healthVars /\ UNCHANGED requestVars /\ UNCHANGED streamVars
-----------------------------------------------------------------------------
(* The router.                                                             *)

\* The call is over, its local state gone.
End(c) ==
    /\ request' = [request EXCEPT ![c] = "ended"]
    /\ candidates' = [candidates EXCEPT ![c] = <<>>]
    /\ thrifty' = [thrifty EXCEPT ![c] = FALSE]
    /\ retries' = [retries EXCEPT ![c] = 0] /\ sends' = [sends EXCEPT ![c] = 0]

\* get_provider_for_task() ranks, and looks at the budget once.
StartChoosing(c) ==
    /\ thrifty' = [thrifty EXCEPT ![c] = overBudget]
    /\ candidates' = [candidates EXCEPT ![c] = IF overBudget THEN LocalRanking ELSE Ranking]
    /\ request' = [request EXCEPT ![c] = "choosing"]

NewRequest(c) ==
    /\ c \in Requests /\ request[c] = "idle"
    /\ StartChoosing(c)
    /\ UNCHANGED <<serving, retries, sends, overBudget, leaked, probed>>
    /\ UNCHANGED healthVars /\ UNCHANGED limitVars /\ UNCHANGED streamVars

\* Mutant: the provider that was chosen is not checked again.
AdmitAny(c, p) ==
    /\ slots' = [slots EXCEPT ![p] = @ + 1]
    /\ serving' = [serving EXCEPT ![c] = p]
    /\ request' = [request EXCEPT ![c] = "starting"]
    /\ UNCHANGED <<candidates, thrifty, retries, sends>>

\* A provider was chosen: its limits are checked once more, with no await before
\* the slot is taken. A refusal uses up an attempt, without backing off.
Admit(c, p) ==
    IF WithinLimits(p)
      THEN /\ slots' = [slots EXCEPT ![p] = @ + 1]
           /\ serving' = [serving EXCEPT ![c] = p]
           /\ request' = [request EXCEPT ![c] = "starting"]
           /\ UNCHANGED <<candidates, thrifty, retries, sends>>
      ELSE /\ IF retries[c] < MaxSends
                THEN StartChoosing(c) /\ retries' = [retries EXCEPT ![c] = @ + 1] /\ UNCHANGED sends
                ELSE End(c)
           /\ UNCHANGED <<slots, serving>>

\* The next candidate: taken, or passed over with an event.
Choose(c) ==
    /\ request[c] = "choosing" /\ candidates[c] # <<>>
    /\ LET p == Head(candidates[c])
       IN /\ HealthCheck(p)
          /\ IF Up(p) /\ WithinLimits(p)
               THEN Admit(c, p)
               ELSE /\ candidates' = [candidates EXCEPT ![c] = Tail(@)]
                    /\ UNCHANGED <<slots, request, thrifty, serving, retries, sends>>
    /\ UNCHANGED <<recent, overBudget, leaked, probed>> /\ UNCHANGED streamVars

\* No candidate is left: a local model that is up, whatever its limits.
LastResort(c) ==
    /\ request[c] = "choosing" /\ candidates[c] = <<>>
    /\ \/ Up(LocalModel) /\ HealthCheck(LocalModel) /\ Admit(c, LocalModel)
       \/ ~Up(LocalModel) /\ End(c) /\ UNCHANGED healthVars /\ UNCHANGED <<slots, serving>>
    /\ UNCHANGED <<recent, overBudget, leaked, probed>> /\ UNCHANGED streamVars

\* The "started" event is out, generate() is called; nobody looks at the health again.
Send(c) ==
    /\ request[c] = "starting"
    /\ request' = [request EXCEPT ![c] = "calling"]
    /\ sends' = [sends EXCEPT ![c] = @ + 1]
    /\ UNCHANGED <<candidates, thrifty, serving, retries, overBudget, leaked, probed>>
    /\ UNCHANGED healthVars /\ UNCHANGED limitVars /\ UNCHANGED streamVars

\* generate() returned; the request counts for the limits.
ProviderAnswers(c) ==
    /\ c \in Requests /\ request[c] = "calling"
    /\ Success(serving[c])
    /\ recent' = [recent EXCEPT ![serving[c]] = Min({@ + 1, MaxPerMinute})]
    /\ request' = [request EXCEPT ![c] = "completing"]
    /\ UNCHANGED <<candidates, thrifty, serving, retries, sends, slots, overBudget, leaked, probed>>
    /\ UNCHANGED streamVars

\* generate() raised: provider and router both record it; the slot is kept while
\* the router backs off.
Refused(c) ==
    /\ c \in Requests /\ request[c] = "calling"
    /\ Failure(serving[c], 2)
    /\ request' = [request EXCEPT ![c] = "backoff"]
    /\ UNCHANGED <<candidates, thrifty, serving, retries, sends, overBudget, leaked, probed>>
    /\ UNCHANGED limitVars /\ UNCHANGED streamVars

\* decrement_concurrent(), in the finally clause.
GiveBack(c) ==
    /\ slots' = [slots EXCEPT ![serving[c]] = Max({@ - 1, 0})]
    /\ serving' = [serving EXCEPT ![c] = NoModel]

\* The "completed" event is out: success is recorded a second time.
Complete(c) ==
    /\ request[c] = "completing"
    /\ Success(serving[c]) /\ GiveBack(c) /\ End(c)
    /\ UNCHANGED <<recent, overBudget, leaked, probed>>
    /\ UNCHANGED streamVars

BackedOff(c) ==
    /\ request[c] = "backoff"
    /\ GiveBack(c)
    /\ IF retries[c] = MaxSends
         THEN End(c)
         ELSE StartChoosing(c) /\ retries' = [retries EXCEPT ![c] = @ + 1] /\ UNCHANGED sends
    /\ UNCHANGED <<recent, overBudget, leaked, probed>>
    /\ UNCHANGED healthVars /\ UNCHANGED streamVars

\* The task is cancelled: outside the try clause the slot is not given back.
CancelRequest(c) ==
    /\ c \in Requests /\ request[c] \in {"choosing", "starting", "calling", "completing", "backoff"}
    /\ End(c)
    /\ CASE request[c] = "choosing" -> UNCHANGED <<slots, serving, leaked>>
         [] request[c] = "starting" -> /\ leaked' = [leaked EXCEPT ![serving[c]] = @ + 1]
                                       /\ serving' = [serving EXCEPT ![c] = NoModel] /\ UNCHANGED slots
         [] OTHER -> GiveBack(c) /\ UNCHANGED leaked
    /\ UNCHANGED <<recent, overBudget, probed>>
    /\ UNCHANGED healthVars /\ UNCHANGED streamVars
-----------------------------------------------------------------------------
(* Others that use the providers.                                          *)

\* LlmRuntime.generate(): the budget, then the provider, without the router.
CallDirect(c) ==
    /\ c \in Direct /\ request[c] = "idle"
    /\ IF overBudget
         THEN End(c) /\ UNCHANGED serving
         ELSE /\ request' = [request EXCEPT ![c] = "calling"] /\ serving' = [serving EXCEPT ![c] = HostedModel]
              /\ UNCHANGED <<candidates, thrifty, retries, sends>>
    /\ UNCHANGED <<overBudget, leaked, probed>>
    /\ UNCHANGED healthVars /\ UNCHANGED limitVars /\ UNCHANGED streamVars

\* An error becomes a response; usage is logged, which may use up the budget.
DirectReturns(c) ==
    /\ c \in Direct /\ request[c] = "calling"
    /\ serving' = [serving EXCEPT ![c] = NoModel] /\ End(c)
    /\ \/ Success(serving[c]) /\ overBudget' \in {overBudget, TRUE}
       \/ Failure(serving[c], 1) /\ UNCHANGED overBudget
    /\ UNCHANGED <<leaked, probed>> /\ UNCHANGED limitVars /\ UNCHANGED streamVars

\* check_all_providers(): the ones that are down are called.
PingProvider(p) ==
    /\ probed = NoModel /\ ~Up(p)
    /\ probed' = p
    /\ UNCHANGED <<overBudget, leaked>> /\ UNCHANGED healthVars /\ UNCHANGED limitVars
    /\ UNCHANGED requestVars /\ UNCHANGED streamVars

PingReturns ==
    /\ probed # NoModel
    /\ probed' = NoModel
    /\ (Success(probed) \/ Failure(probed, 2))
    /\ UNCHANGED <<overBudget, leaked>> /\ UNCHANGED limitVars /\ UNCHANGED requestVars /\ UNCHANGED streamVars

\* stream_generate(): a thread reads and queues; an error, if any, and the end
\* come last.
Streaming(c) == request[c] = "streaming"
DropStream == items' = <<>> /\ gone' = 0 /\ received' = 0
OpenStream(c) ==
    /\ c \in Direct /\ request[c] = "idle"
    /\ request' = [request EXCEPT ![c] = "streaming"]
    /\ UNCHANGED <<candidates, thrifty, serving, retries, sends, overBudget, leaked, probed>>
    /\ UNCHANGED healthVars /\ UNCHANGED limitVars /\ UNCHANGED streamVars

ReadChunk(c) ==
    /\ Streaming(c) /\ gone < StreamLength
    /\ gone' = gone + 1 /\ items' = Append(items, "chunk")
    /\ UNCHANGED <<received, overBudget, leaked, probed>>
    /\ UNCHANGED healthVars /\ UNCHANGED limitVars /\ UNCHANGED requestVars

EndOfStream(c) ==
    /\ Streaming(c) /\ gone <= StreamLength
    /\ gone' = StreamLength + 1
    /\ items' = items \o (IF gone = StreamLength THEN <<"end">> ELSE <<"error", "end">>)
    /\ UNCHANGED <<received, overBudget, leaked, probed>>
    /\ UNCHANGED healthVars /\ UNCHANGED limitVars /\ UNCHANGED requestVars

\* The consumer takes the next item; end and error are recorded once.
NextItem(c) ==
    /\ Streaming(c) /\ items # <<>>
    /\ CASE Head(items) = "end" -> Success(HostedModel) /\ End(c) /\ DropStream
         [] Head(items) = "error" -> Failure(HostedModel, 1) /\ End(c) /\ DropStream
         [] OTHER -> /\ items' = Tail(items) /\ received' = received + 1
                     /\ UNCHANGED <<health, strikes, request, candidates, thrifty, retries, sends, gone>>
    /\ UNCHANGED <<serving, overBudget, leaked, probed>> /\ UNCHANGED limitVars

\* The consumer closes the generator: nothing is recorded.
AbandonStream(c) ==
    /\ Streaming(c) /\ End(c) /\ DropStream
    /\ UNCHANGED <<serving, overBudget, leaked, probed>>
    /\ UNCHANGED healthVars /\ UNCHANGED limitVars

ProviderNext ==
    \/ \E p \in Models : CooldownPasses(p) \/ MinutePasses(p) \/ PingProvider(p)
    \/ \E c \in Clients :
         \/ NewRequest(c) \/ Choose(c) \/ LastResort(c) \/ Send(c) \/ ProviderAnswers(c) \/ Refused(c)
         \/ Complete(c) \/ BackedOff(c) \/ CancelRequest(c) \/ CallDirect(c) \/ DirectReturns(c)
         \/ OpenStream(c) \/ ReadChunk(c) \/ EndOfStream(c) \/ NextItem(c) \/ AbandonStream(c)
    \/ PingReturns
-----------------------------------------------------------------------------
(* Properties.                                                             *)

ProviderTypeOK ==
    /\ health \in [Models -> {"ONLINE", "COOLDOWN", "COOLED", "OFFLINE"}] /\ strikes \in [Models -> 0 .. MaxStrikes]
    /\ serving \in [Clients -> Models \cup {NoModel}] /\ retries \in [Clients -> 0 .. MaxSends + 1]

\* The slots of a provider are the requests it has under way, and the ones that
\* were cancelled between taking the slot and the call; never more than the limit.
SlotsAreExact ==
    \A p \in Models :
        /\ slots[p] = Cardinality({c \in Requests : serving[c] = p}) + leaked[p]
        /\ slots[p] <= MaxSlots

\* A request is sent at most once more than it may be retried.
SendsAreBounded == \A c \in Clients : sends[c] <= MaxSends + 1

\* With the budget used up only local models are asked.
BudgetRoutesLocal == \A c \in Requests : thrifty[c] /\ serving[c] # NoModel => serving[c] \in LocalModels

\* Health and failure count agree, whoever recorded what in which order.
HealthMatchesStrikes ==
    \A p \in Models :
        /\ health[p] = "ONLINE" <=> strikes[p] = 0
        /\ health[p] = "OFFLINE" <=> strikes[p] = MaxStrikes

\* A stream that ended was read to its end: no chunk is lost, and an error is
\* seen behind the chunks before it.
StreamIsWhole ==
    \A c \in Direct : Streaming(c) /\ items # <<>> =>
        /\ Head(items) = "end" => received = StreamLength
        /\ Head(items) = "error" => received < gone /\ \A i \in DOMAIN items : items[i] # "chunk"

\* The providers and their router.
ProviderSafe ==
    /\ ProviderTypeOK /\ SlotsAreExact /\ SendsAreBounded /\ BudgetRoutesLocal
    /\ HealthMatchesStrikes /\ StreamIsWhole
=============================================================================
