------------------------------ MODULE Transport ------------------------------
(***************************************************************************)
(* core/mission/transports: a channel of a LocalTransport or of a          *)
(* RemoteTransport (Redis publish/subscribe with a pump task for each      *)
(* subscriber), the envelopes that travel on it, and the leases of the     *)
(* LocalTransport. The leases of Redis are in LeaderElection.              *)
(*                                                                         *)
(* backend says which transport it is. A LocalTransport has nothing that   *)
(* suspends but the queue its reader waits on; with Redis, SUBSCRIBE, the  *)
(* polling of the pump and the end of aclose() are steps of their own.     *)
(***************************************************************************)
EXTENDS Naturals, Sequences, FiniteSets

CONSTANTS
    Readers,        \* subscribers
    Keys,           \* idempotency keys
    Holders,        \* who asks for a lease
    LeaseTTL,       \* ttl_seconds
    MaxPublished    \* bound: messages published

ASSUME TransportAssumption == LeaseTTL \in Nat \ {0} /\ MaxPublished \in Nat

VARIABLES
    backend,        \* "local" or "remote"
    shut,           \* transport._closed
    published,      \* history: envelopes in the order they were published
    joined,         \* history: Len(published) when the reader was registered
    given,          \* history: what __anext__ returned
    registered,     \* readers in the fan-out: _channels, or Redis' SUBSCRIBE
    pump,           \* where the reader's pump is
    wire,           \* messages Redis sent to the reader's connection
    inbox,          \* subscriber._queue
    done,           \* subscriber._closed
    reading,        \* the consumer: "no", "waiting" in __anext__, "ended"
    lease,          \* _leases[key]: whose token, or "none"
    expires,        \* what is left of it
    believes        \* what is left of the TTL each holder was last granted

channel == <<published, joined, given>>
readers == <<registered, pump, wire, inbox, done, reading>>
leases == <<lease, expires, believes>>
transportVars == <<backend, shut, published, joined, given, registered, pump,
                   wire, inbox, done, reading, lease, expires, believes>>
-----------------------------------------------------------------------------
(* The envelope codec.                                                     *)

Versions == {1, 2}

\* EnvelopeV1Dto, and what a later codec would put on the wire.
Envelopes == [version : Versions, key : Keys]

\* pack(): the key travels as a string.
Pack(e) == [version |-> e.version, text |-> <<"str", e.key>>]

Unsupported == [version |-> 0, key |-> "unsupported"]

\* Mutant: the version gate is gone.
UnpackAnything(raw) == [version |-> 1, key |-> raw.text[2]]

\* unpack(): the version gate, then the inverse of pack().
Unpack(raw) ==
    IF raw.version # 1 THEN Unsupported ELSE [version |-> 1, key |-> raw.text[2]]
-----------------------------------------------------------------------------
END == [version |-> 0, text |-> "end"]
ERR == [version |-> 0, text |-> "error"]

Raw == {Pack(e) : e \in Envelopes}

PumpPoints == {"none", "starting", "polling", "stopped"}

TransportTypeOK ==
    /\ backend \in {"local", "remote"} /\ shut \in BOOLEAN
    /\ published \in Seq(Envelopes) /\ Len(published) <= MaxPublished
    /\ joined \in [Readers -> 0 .. MaxPublished]
    /\ given \in [Readers -> Seq(Envelopes \cup {Unsupported})]
    /\ registered \subseteq Readers
    /\ pump \in [Readers -> PumpPoints]
    /\ wire \in [Readers -> Seq(Raw)]
    /\ inbox \in [Readers -> Seq(Raw \cup {END, ERR})]
    /\ done \subseteq Readers
    /\ reading \in [Readers -> {"no", "waiting", "ended"}]
    /\ lease \in Holders \cup {"none"} /\ expires \in 0 .. LeaseTTL
    /\ believes \in [Holders -> 0 .. LeaseTTL]

TransportInit ==
    /\ backend \in {"local", "remote"} /\ shut = FALSE
    /\ published = <<>> /\ joined = [r \in Readers |-> 0]
    /\ given = [r \in Readers |-> <<>>]
    /\ registered = {} /\ pump = [r \in Readers |-> "none"]
    /\ wire = [r \in Readers |-> <<>>] /\ inbox = [r \in Readers |-> <<>>]
    /\ done = {} /\ reading = [r \in Readers |-> "no"]
    /\ lease = "none" /\ expires = 0 /\ believes = [h \in Holders |-> 0]

local == backend = "local"
remote == backend = "remote"

\* The reader has an iterator.
Subscribed(r) == pump[r] # "none"

Put(r, m) == inbox' = [inbox EXCEPT ![r] = Append(@, m)]
-----------------------------------------------------------------------------
(* publish(), subscribe() and the pump.                                    *)

\* Every registered reader gets its copy.
Fanned(q, e) == [r \in Readers |-> IF r \in registered THEN Append(q[r], Pack(e)) ELSE q[r]]

\* publish() puts the message in the queues, or Redis sends it to the
\* connections.
PublishLocal(e) == local /\ inbox' = Fanned(inbox, e) /\ UNCHANGED wire
PublishRemote(e) == remote /\ wire' = Fanned(wire, e) /\ UNCHANGED inbox

Publish(e) ==
    /\ ~shut /\ Len(published) < MaxPublished
    /\ published' = Append(published, e)
    /\ PublishLocal(e) \/ PublishRemote(e)
    /\ UNCHANGED <<backend, shut, joined, given, registered, pump, done, reading, leases>>

\* subscribe() registers the queue, or creates the pump.
SubscribeLocal(r) ==
    /\ local
    /\ registered' = registered \cup {r}
    /\ joined' = [joined EXCEPT ![r] = Len(published)]
    /\ pump' = [pump EXCEPT ![r] = "stopped"]

SubscribeRemote(r) ==
    /\ remote
    /\ pump' = [pump EXCEPT ![r] = "starting"]
    /\ UNCHANGED <<registered, joined>>

Subscribe(r) ==
    /\ ~shut /\ ~Subscribed(r)
    /\ SubscribeLocal(r) \/ SubscribeRemote(r)
    /\ UNCHANGED <<backend, shut, published, given, wire, inbox, done, reading, leases>>

\* Redis confirms SUBSCRIBE; messages published before are missed.
PumpSubscribes(r) ==
    /\ pump[r] = "starting"
    /\ registered' = registered \cup {r}
    /\ joined' = [joined EXCEPT ![r] = Len(published)]
    /\ pump' = [pump EXCEPT ![r] = "polling"]
    /\ UNCHANGED <<backend, shut, published, given, wire, inbox, done, reading, leases>>

\* get_message() returns a message.
PumpReads(r) ==
    /\ pump[r] = "polling" /\ wire[r] # <<>>
    /\ Put(r, Head(wire[r]))
    /\ wire' = [wire EXCEPT ![r] = Tail(@)]
    /\ UNCHANGED <<backend, shut, channel, registered, pump, done, reading, leases>>

\* Mutant: the pump fails in silence.
PumpFailsSilently(r) ==
    /\ pump[r] \in {"starting", "polling"}
    /\ pump' = [pump EXCEPT ![r] = "stopped"]
    /\ registered' = registered \ {r}
    /\ wire' = [wire EXCEPT ![r] = <<>>]
    /\ UNCHANGED <<inbox, backend, shut, channel, done, reading, leases>>

\* SUBSCRIBE or get_message() raises: the error and the end go to the queue.
\* The connection, and what Redis still sends on it, is read no more.
PumpFails(r) ==
    /\ pump[r] \in {"starting", "polling"}
    /\ pump' = [pump EXCEPT ![r] = "stopped"]
    /\ registered' = registered \ {r}
    /\ wire' = [wire EXCEPT ![r] = <<>>]
    /\ inbox' = [inbox EXCEPT ![r] = @ \o <<ERR, END>>]
    /\ UNCHANGED <<backend, shut, channel, done, reading, leases>>
-----------------------------------------------------------------------------
(* The iterator.                                                           *)

\* __anext__() is called: it ends at once, or waits for the queue.
CallNext(r) ==
    /\ Subscribed(r) /\ reading[r] = "no"
    /\ reading' = [reading EXCEPT ![r] = IF r \in done THEN "ended" ELSE "waiting"]
    /\ UNCHANGED <<backend, shut, channel, registered, pump, wire, inbox, done, leases>>

\* queue.get() returns: a message, the end, or the pump's error.
NextReturns(r) ==
    /\ reading[r] = "waiting" /\ inbox[r] # <<>>
    /\ inbox' = [inbox EXCEPT ![r] = Tail(@)]
    /\ LET m == Head(inbox[r])
       IN IF m \in {END, ERR}
            THEN /\ reading' = [reading EXCEPT ![r] = "ended"]
                 /\ done' = done \cup {r}
                 /\ UNCHANGED given
            ELSE /\ reading' = [reading EXCEPT ![r] = "no"]
                 /\ given' = [given EXCEPT ![r] = Append(@, Unpack(m))]
                 /\ UNCHANGED done
    /\ UNCHANGED <<backend, shut, published, joined, registered, pump, wire, leases>>

\* aclose(): the queue is unregistered and nobody is woken; or the pump is
\* cancelled and its end marker wakes the consumer.
AcloseLocal(r) == local /\ UNCHANGED <<pump, wire, inbox>>

AcloseRemote(r) ==
    /\ remote
    /\ pump' = [pump EXCEPT ![r] = "stopped"]
    /\ wire' = [wire EXCEPT ![r] = <<>>]
    /\ IF pump[r] \in {"starting", "polling"} THEN Put(r, END) ELSE UNCHANGED inbox

Aclose(r) ==
    /\ Subscribed(r) /\ r \notin done
    /\ done' = done \cup {r} /\ registered' = registered \ {r}
    /\ AcloseLocal(r) \/ AcloseRemote(r)
    /\ UNCHANGED <<backend, shut, channel, reading, leases>>

\* close(): a LocalTransport sends the end to every queue and drops the leases;
\* a RemoteTransport only locks itself here, its subscribers follow.
CloseLocal ==
    /\ local
    /\ inbox' = [r \in Readers |-> IF r \in registered THEN Append(inbox[r], END) ELSE inbox[r]]
    /\ registered' = {} /\ lease' = "none" /\ expires' = 0

CloseRemote == remote /\ UNCHANGED <<registered, inbox, lease, expires>>

Close ==
    /\ ~shut /\ shut' = TRUE
    /\ CloseLocal \/ CloseRemote
    /\ UNCHANGED <<backend, channel, pump, wire, done, reading, believes>>

\* RemoteTransport.close() goes on with aclose() of a subscriber.
CloseGoesOn(r) == shut /\ remote /\ Aclose(r)
-----------------------------------------------------------------------------
(* The leases of a LocalTransport.                                         *)

\* lease() on a free or expired key; every call has a token of its own.
Lease(h) ==
    /\ local /\ ~shut /\ (lease = "none" \/ expires = 0)
    /\ lease' = h /\ expires' = LeaseTTL
    /\ believes' = [believes EXCEPT ![h] = LeaseTTL]
    /\ UNCHANGED <<backend, shut, channel, readers>>

\* renew_lease() with the token of h: an expired entry is dropped.
RenewLease(h) ==
    /\ local /\ ~shut /\ lease = h
    /\ IF expires = 0
         THEN lease' = "none" /\ UNCHANGED <<expires, believes>>
         ELSE /\ expires' = LeaseTTL
              /\ believes' = [believes EXCEPT ![h] = LeaseTTL]
              /\ UNCHANGED lease
    /\ UNCHANGED <<backend, shut, channel, readers>>

\* release_lease() with the token of h; another token changes nothing.
ReleaseLease(h) ==
    /\ local /\ (lease = h \/ believes[h] > 0)
    /\ IF lease = h THEN lease' = "none" /\ expires' = 0 ELSE UNCHANGED <<lease, expires>>
    /\ believes' = [believes EXCEPT ![h] = 0]
    /\ UNCHANGED <<backend, shut, channel, readers>>

\* A unit of the monotonic clock.
TimePasses ==
    /\ local /\ (expires > 0 \/ \E h \in Holders : believes[h] > 0)
    /\ expires' = IF expires > 0 THEN expires - 1 ELSE 0
    /\ believes' = [h \in Holders |-> IF believes[h] > 0 THEN believes[h] - 1 ELSE 0]
    /\ UNCHANGED <<backend, shut, channel, readers, lease>>
-----------------------------------------------------------------------------
ReaderStep(r) ==
    PumpSubscribes(r) \/ PumpReads(r) \/ NextReturns(r) \/ CloseGoesOn(r)

LeaseStep(h) == Lease(h) \/ RenewLease(h) \/ ReleaseLease(h)

TransportNext ==
    \/ \E e \in Envelopes : Publish(e)
    \/ \E r \in Readers :
         \/ Subscribe(r) \/ CallNext(r) \/ Aclose(r) \/ PumpFails(r) \/ ReaderStep(r)
    \/ Close
    \/ \E h \in Holders : LeaseStep(h)
    \/ TimePasses

\* The event loop resumes the pumps, the consumers and close().
TransportFairness == \A r \in Readers : WF_transportVars(ReaderStep(r))
-----------------------------------------------------------------------------
(* Properties.                                                             *)

\* What a consumer of version 1 makes of an envelope.
AsRead(e) == IF e.version = 1 THEN e ELSE Unsupported

Promise == INSTANCE Channel WITH
    log <- [i \in DOMAIN published |-> AsRead(published[i])],
    from <- joined, got <- given, Envelopes <- Envelopes \cup {Unsupported}

\* Both transports implement the channel MissionTransport promises: every
\* reader is given the envelopes published since it joined, in order, once and
\* without a gap, an unknown version as an error; whatever pumps fail and
\* whoever closes.
ImplementsChannel == Promise!ChannelSpec

\* Existing iterators terminate after close(), and a pump that failed wakes its
\* consumer: nobody waits for ever. (The exception is a LocalSubscriber that was
\* closed while its consumer waited: aclose() wakes nobody and close() does not
\* know it any more.)
IteratorsEnd ==
    \A r \in Readers :
        (reading[r] = "waiting" /\ (shut \/ (remote /\ pump[r] = "stopped")))
            ~> (reading[r] # "waiting" \/ (local /\ r \in done))

\* Two holders of a LocalTransport never both count on the lease they were
\* granted, until close() clears it.
OneLeaseHolder ==
    \A h, k \in Holders : ~shut /\ believes[h] > 0 /\ believes[k] > 0 => h = k

\* No consumer waits for something that cannot come any more, and leases of
\* the local transport exclude each other.
ReadersEnd == [](TransportTypeOK /\ OneLeaseHolder) /\ IteratorsEnd
=============================================================================
