------------------------------ MODULE EventBus ------------------------------
(***************************************************************************)
(* The event bus handled from one topic. MemoryEventBus starts a task for     *)
(* every subscriber when a message is published; RedisEventBus appends the *)
(* message to a stream, and its listen loop reads the stream in batches    *)
(* and starts the tasks. ReactiveRouter keeps the subscriptions it made,   *)
(* SwarmMessageBus repeats a failed publication and has a list of dead     *)
(* letters.                                                                *)
(*                                                                         *)
(* Redis may refuse a command, or apply it and lose the answer.            *)
(***************************************************************************)
EXTENDS Integers, Sequences, FiniteSets, SequencesExt

CONSTANTS
    Messages,
    Subscribers,   \* subscriptions, each with its own id
    Routed,        \* those made through ReactiveRouter
    MaxRetry,      \* max_retry of SwarmMessageBus
    Batch          \* count of XREAD

ASSUME EventBusAssumption ==
    Routed \subseteq Subscribers /\ MaxRetry \in Nat \ {0} /\ Batch \in Nat \ {0}

VARIABLES
    medium,        \* which bus was built
    active,        \* _active; for Redis also that the client is connected
    subscribed,    \* _subscribers of the topic
    routerIds,     \* _subscription_ids of ReactiveRouter
    dispatches,    \* _dispatch_tasks that have not ended, <<message, subscriber>>
    stream,        \* the Redis stream
    lastId,        \* last_ids of the topic, 0 while it is "$"
    polling,       \* where the XREAD under way began, -1 when there is none
    handled,          \* positions the listen loop read since it was started
    sent,          \* what publish() or publish_message() answered
    attempts,         \* attempts of publish_message()
    handed         \* how often a task was started for a message and subscriber

busVars == <<medium, active, subscribed, routerIds, dispatches, stream, lastId, polling, handled,
             sent, attempts, handed>>

BusInit ==
    /\ medium \in {"memory", "redis"}
    /\ active = FALSE
    /\ subscribed = {} /\ routerIds = {} /\ dispatches = {}
    /\ stream = <<>> /\ lastId = 0 /\ polling = -1 /\ handled = {}
    /\ sent = [m \in Messages |-> "new"]
    /\ attempts = [m \in Messages |-> 0]
    /\ handed = [m \in Messages |-> [s \in Subscribers |-> 0]]
-----------------------------------------------------------------------------
(* Lifecycle and subscriptions.                                            *)

StartBus ==
    /\ ~active /\ active' = TRUE
    /\ lastId' = 0 /\ handled' = {}
    /\ UNCHANGED <<medium, subscribed, routerIds, dispatches, stream, polling, sent, attempts, handed>>

\* The listen loop and all tasks are cancelled and waited for.
StopBus ==
    /\ active /\ active' = FALSE
    /\ dispatches' = {} /\ polling' = -1
    /\ UNCHANGED <<medium, subscribed, routerIds, stream, lastId, handled, sent, attempts, handed>>

\* shutdown() also forgets who subscribed; the router does not notice. The
\* listen loop of Redis ends by itself: it finds no subscribers and no activity.
ShutdownBus ==
    /\ active' = FALSE /\ subscribed' = {}
    /\ dispatches' = {} /\ polling' = -1
    /\ UNCHANGED <<medium, routerIds, stream, lastId, handled, sent, attempts, handed>>

BusSubscribe(s) ==
    /\ s \notin subscribed \cup routerIds
    /\ subscribed' = subscribed \cup {s}
    /\ routerIds' = routerIds \cup ({s} \cap Routed)
    /\ UNCHANGED <<medium, active, dispatches, stream, lastId, polling, handled, sent, attempts, handed>>

\* Tasks that were started for the subscriber still run.
Unsubscribe(s) ==
    /\ s \in subscribed
    /\ subscribed' = subscribed \ {s} /\ routerIds' = routerIds \ {s}
    /\ UNCHANGED <<medium, active, dispatches, stream, lastId, polling, handled, sent, attempts, handed>>

RouterShutdown ==
    /\ routerIds # {}
    /\ subscribed' = subscribed \ routerIds /\ routerIds' = {}
    /\ UNCHANGED <<medium, active, dispatches, stream, lastId, polling, handled, sent, attempts, handed>>
-----------------------------------------------------------------------------
(* Publishing.                                                             *)

\* _safe_dispatch() for every subscriber of this moment.
Dispatch(ms) ==
    /\ dispatches' = dispatches \cup (ms \X subscribed)
    /\ handed' = [m \in Messages |-> [s \in Subscribers |->
                     handed[m][s] + (IF m \in ms /\ s \in subscribed THEN 1 ELSE 0)]]

\* One publish(): a bus that is not active drops the message.
Dropped == ~active /\ UNCHANGED <<dispatches, handed, stream>>

Published(m) ==
    /\ active
    /\ \/ medium = "memory" /\ Dispatch({m}) /\ UNCHANGED stream
       \/ medium = "redis" /\ stream' = Append(stream, m) /\ UNCHANGED <<dispatches, handed>>

\* XADD failed, and its effect may be there all the same.
PublishRaises(m) ==
    /\ active /\ medium = "redis"
    /\ stream' \in {stream, Append(stream, m)}
    /\ UNCHANGED <<dispatches, handed>>

\* ReactiveRouter.publish() and direct callers.
BusPublish(m) ==
    /\ sent[m] = "new"
    /\ \/ Published(m) /\ sent' = [sent EXCEPT ![m] = "true"]
       \/ Dropped /\ sent' = [sent EXCEPT ![m] = "false"]
       \/ PublishRaises(m) /\ sent' = [sent EXCEPT ![m] = "raised"]
    /\ UNCHANGED <<medium, active, subscribed, routerIds, lastId, polling, handled, attempts>>

\* SwarmMessageBus.publish_message(): three publications make one attempt; when
\* the last of them raises, the message was sent and is sent again.
PublishMessage(m) ==
    /\ sent[m] \in {"new", "again"} /\ attempts[m] < MaxRetry
    /\ attempts' = [attempts EXCEPT ![m] = @ + 1]
    /\ \/ Published(m) /\ sent' = [sent EXCEPT ![m] = "true"]
       \/ (Dropped \/ PublishRaises(m)) /\ sent' = [sent EXCEPT ![m] = "again"]
    /\ UNCHANGED <<medium, active, subscribed, routerIds, lastId, polling, handled>>

DeadLetter(m) ==
    /\ sent[m] = "again" /\ attempts[m] = MaxRetry
    /\ sent' = [sent EXCEPT ![m] = "dlq"]
    /\ UNCHANGED <<medium, active, subscribed, routerIds, dispatches, stream, lastId, polling, handled,
                   attempts, handed>>
-----------------------------------------------------------------------------
(* The listen loop of RedisEventBus.                                       *)

\* "$" means the end of the stream at the time Redis sees the command, again
\* at every poll until a first message was read.
BeginRead ==
    /\ active /\ medium = "redis" /\ polling = -1 /\ subscribed # {}
    /\ polling' = IF lastId = 0 THEN Len(stream) ELSE lastId
    /\ UNCHANGED <<medium, active, subscribed, routerIds, dispatches, stream, lastId, handled, sent,
                   attempts, handed>>

\* Mutant: the loop goes on at the end of the stream, not of the batch.
ReadToEnd(new) == lastId' = Len(stream)

\* The last id is that of the last message of the batch.
Advance(new) == lastId' = polling + Len(new)

Min2(a, b) == IF a < b THEN a ELSE b

EndRead ==
    /\ polling >= 0 /\ Len(stream) > polling
    /\ LET new == SubSeq(stream, polling + 1, polling + Min2(Batch, Len(stream) - polling))
       IN /\ Advance(new)
          /\ handled' = handled \cup (polling + 1 .. polling + Len(new))
          /\ Dispatch(ToSet(new))
    /\ polling' = -1
    /\ UNCHANGED <<medium, active, subscribed, routerIds, stream, sent, attempts>>

\* The block timeout passed without a message, or the command failed.
ReadEmpty ==
    /\ polling >= 0 /\ polling' = -1
    /\ UNCHANGED <<medium, active, subscribed, routerIds, dispatches, stream, lastId, handled, sent,
                   attempts, handed>>

\* A callback returns or raises; the exception is logged.
CallbackEnds(m, s) ==
    /\ <<m, s>> \in dispatches
    /\ dispatches' = dispatches \ {<<m, s>>}
    /\ UNCHANGED <<medium, active, subscribed, routerIds, stream, lastId, polling, handled, sent,
                   attempts, handed>>

BusNext ==
    \/ StartBus \/ StopBus \/ ShutdownBus \/ RouterShutdown
    \/ BeginRead \/ EndRead \/ ReadEmpty
    \/ \E s \in Subscribers : BusSubscribe(s) \/ Unsubscribe(s)
    \/ \E m \in Messages : BusPublish(m) \/ PublishMessage(m) \/ DeadLetter(m)
    \/ \E m \in Messages, s \in Subscribers : CallbackEnds(m, s)
-----------------------------------------------------------------------------
(* Properties.                                                             *)

BusTypeOK ==
    /\ stream \in Seq(Messages) /\ lastId \in 0 .. Len(stream) /\ polling \in -1 .. Len(stream)
    /\ sent \in [Messages -> {"new", "again", "true", "false", "raised", "dlq"}]
    /\ attempts \in [Messages -> 0 .. MaxRetry]

Copies(m) == Cardinality({i \in DOMAIN stream : stream[i] = m})

\* From the first message it reads until it is stopped, the listen loop reads
\* every message of the stream, in order and none twice, however its batches,
\* timeouts and errors fall.
NoGaps == lastId > 0 => \E first \in 1 .. lastId : handled = first .. lastId

\* A subscriber is called at most once per message on the memory bus and at
\* most once per copy in the stream on Redis, restarts of the loop included.
DispatchedOnce ==
    \A m \in Messages, s \in Subscribers :
        handed[m][s] <= (IF medium = "memory" THEN 1 ELSE Copies(m))

\* An answer of True means that the message went out; on the memory bus a dead
\* letter or a False means that it did not. Retries make no more copies than
\* there were attempts.
AnswersAreTrue ==
    \A m \in Messages :
        /\ sent[m] = "true" /\ medium = "redis" => Copies(m) > 0
        /\ sent[m] \in {"dlq", "false"} /\ medium = "memory" => \A s \in Subscribers : handed[m][s] = 0
        /\ sent[m] = "dlq" => attempts[m] = MaxRetry
        /\ Copies(m) <= MaxRetry

\* No callback runs on a bus that was stopped, and none of the router's stays
\* subscribed behind its back.
StoppedIsQuiet ==
    /\ ~active => dispatches = {} /\ polling = -1
    /\ subscribed \cap Routed \subseteq routerIds

\* The promises of the event bus.
BusSafe == BusTypeOK /\ NoGaps /\ DispatchedOnce /\ AnswersAreTrue /\ StoppedIsQuiet
=============================================================================
