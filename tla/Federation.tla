----------------------------- MODULE Federation ------------------------------
(***************************************************************************)
(* core/runtime/federation.py with the inbound side of                     *)
(* api/routes/federation.py: the registry of peers in memory and on disk,  *)
(* messages that are signed, posted with retries and taken once by the     *)
(* peer's replay cache.                                                    *)
(*                                                                         *)
(* Only the HTTP requests suspend. Everything before and after an await is *)
(* one step; a request may be lost, be late or lose its answer. Time is    *)
(* counted in units of which Window is the freshness of a request and the  *)
(* life of a cache entry; the clocks of the nodes agree.                   *)
(***************************************************************************)
EXTENDS Naturals, FiniteSets

CONSTANTS
    Nodes,          \* node ids that may be registered
    Urls,           \* base urls
    Calls,          \* calls of route_message() and ping_peer()
    Window          \* 300 seconds

ASSUME FederationAssumption == Window \in Nat

Attempts == 3
NoUrl == "none"

VARIABLES
    file,           \* the peers file: the url of a node, or NoUrl
    peers,          \* self._peers
    call,           \* where each call is
    target,         \* the peer record it took: <<node, url>>
    tries,          \* attempts made
    flying,         \* copies of the request under way
    age,            \* how long ago the request was stamped
    seen,           \* age of the entry in the peer's replay cache; Window + 1: none
    accepted        \* how often the peer's route handler ran for it

requests == <<call, target, tries, flying, age, seen, accepted>>
federationVars == <<file, peers, call, target, tries, flying, age, seen, accepted>>
-----------------------------------------------------------------------------
CallPoints == {"idle", "routing", "pinging", "success", "failed", "online", "offline"}

FederationTypeOK ==
    /\ file \in [Nodes -> Urls \cup {NoUrl}] /\ peers \in [Nodes -> Urls \cup {NoUrl}]
    /\ call \in [Calls -> CallPoints]
    /\ target \in [Calls -> (Nodes \X Urls) \cup {<<NoUrl, NoUrl>>}]
    /\ tries \in [Calls -> 0 .. Attempts] /\ flying \in [Calls -> 0 .. Attempts]
    /\ age \in [Calls -> 0 .. Window + 1] /\ seen \in [Calls -> 0 .. Window + 1]
    /\ accepted \in [Calls -> 0 .. Attempts]

FederationInit ==
    /\ file = [n \in Nodes |-> NoUrl] /\ peers = file
    /\ call = [c \in Calls |-> "idle"]
    /\ target = [c \in Calls |-> <<NoUrl, NoUrl>>]
    /\ tries = [c \in Calls |-> 0] /\ flying = tries
    /\ age = tries /\ accepted = tries
    /\ seen = [c \in Calls |-> Window + 1]
-----------------------------------------------------------------------------
(* The registry.                                                           *)

\* initialize() and list_peers() read the file.
ListPeers ==
    /\ peers' = file
    /\ UNCHANGED <<file, requests>>

\* register_peer() reads the file, adds the node, writes the file.
RegisterPeer(n, u) ==
    /\ peers' = [file EXCEPT ![n] = u]
    /\ file' = peers'
    /\ UNCHANGED requests

\* shutdown() clears the memory; a request may still be under way.
FederationShutdown ==
    /\ peers' = [n \in Nodes |-> NoUrl]
    /\ UNCHANGED <<file, requests>>
-----------------------------------------------------------------------------
(* The sending side.                                                       *)

\* route_message() and ping_peer() up to the first request.
BeginCall(c, n, k) ==
    /\ call[c] = "idle"
    /\ peers' = file
    /\ IF file[n] = NoUrl
         THEN /\ call' = [call EXCEPT ![c] = "failed"]
              /\ UNCHANGED <<target, tries, flying>>
         ELSE /\ call' = [call EXCEPT ![c] = k]
              /\ target' = [target EXCEPT ![c] = <<n, file[n]>>]
              /\ tries' = [tries EXCEPT ![c] = 1]
              /\ flying' = [flying EXCEPT ![c] = 1]
    /\ UNCHANGED <<file, age, seen, accepted>>

\* The answer: on status 200 the record that was read before the request is
\* put back in what is in memory now, and that is written.
Answered(c, ok) ==
    /\ IF ok
         THEN /\ peers' = [peers EXCEPT ![target[c][1]] = target[c][2]]
              /\ file' = peers'
         ELSE UNCHANGED <<peers, file>>
    /\ call' = [call EXCEPT ![c] = IF @ = "routing" THEN IF ok THEN "success" ELSE "failed"
                                   ELSE IF ok THEN "online" ELSE "offline"]

\* An HTTPError: the same signed request is posted again, three times at most;
\* ping_peer() tries once, and any other exception ends route_message() too.
RequestFails(c) ==
    /\ \/ /\ call[c] = "routing" /\ tries[c] < Attempts
          /\ tries' = [tries EXCEPT ![c] = @ + 1]
          /\ flying' = [flying EXCEPT ![c] = @ + 1]
          /\ UNCHANGED call
       \/ /\ call[c] \in {"routing", "pinging"}
          /\ call' = [call EXCEPT ![c] = IF @ = "routing" THEN "failed" ELSE "offline"]
          /\ UNCHANGED <<tries, flying>>
    /\ UNCHANGED <<file, peers, target, age, seen, accepted>>
-----------------------------------------------------------------------------
(* The receiving side.                                                     *)

\* Mutant: message ids are not kept.
VerifyForgets(c) == age[c] <= Window /\ seen' = seen

\* verify_signature(): fresh, and neither the id nor the nonce in the cache,
\* which then holds both. An answer of FALSE leaves the cache as it is.
Verify(c) ==
    /\ age[c] <= Window /\ seen[c] > Window
    /\ seen' = [seen EXCEPT ![c] = 0]

\* A request arrives: it is published once on the peer's event bus, or refused
\* with 401; the answer may reach a call that still waits for it.
Arrives(c) ==
    /\ flying[c] > 0
    /\ flying' = [flying EXCEPT ![c] = @ - 1]
    /\ \/ /\ call[c] # "pinging" /\ Verify(c)
          /\ accepted' = [accepted EXCEPT ![c] = @ + 1]
          /\ \/ call[c] = "routing" /\ Answered(c, TRUE)
             \/ UNCHANGED <<peers, file, call>>
       \/ /\ call[c] # "pinging" /\ ~(age[c] <= Window /\ seen[c] > Window)
          /\ UNCHANGED <<seen, accepted>>
          /\ \/ call[c] = "routing" /\ Answered(c, FALSE)
             \/ UNCHANGED <<peers, file, call>>
       \/ /\ call[c] = "pinging" /\ UNCHANGED <<seen, accepted>>
          /\ \E ok \in BOOLEAN : Answered(c, ok)
    /\ UNCHANGED <<target, tries, age>>

RequestLost(c) ==
    /\ flying[c] > 0
    /\ flying' = [flying EXCEPT ![c] = @ - 1]
    /\ UNCHANGED <<file, peers, call, target, tries, age, seen, accepted>>

\* Requests and cache entries grow older.
ClockTicks ==
    /\ \E c \in Calls : flying[c] > 0
    /\ LET older(f, cs) == [c \in Calls |-> IF c \in cs /\ f[c] <= Window THEN f[c] + 1 ELSE f[c]]
       IN age' = older(age, {c \in Calls : tries[c] > 0}) /\ seen' = older(seen, Calls)
    /\ UNCHANGED <<file, peers, call, target, tries, flying, accepted>>

FederationNext ==
    \/ ListPeers \/ FederationShutdown \/ ClockTicks
    \/ \E n \in Nodes, u \in Urls : RegisterPeer(n, u)
    \/ \E c \in Calls :
         \/ \E n \in Nodes : BeginCall(c, n, "routing") \/ BeginCall(c, n, "pinging")
         \/ RequestFails(c) \/ Arrives(c) \/ RequestLost(c)
-----------------------------------------------------------------------------
(* Properties.                                                             *)

\* However often a message is posted again, and however late a copy is, the
\* peer publishes it at most once: the cache keeps an id as long as a copy of
\* the request can still be fresh.
AtMostOnce == \A c \in Calls : accepted[c] <= 1

\* route_message() answers success only if the peer has taken the message.
\* (The converse is false: a copy whose answer is lost was taken, and the next
\* one is refused.)
SuccessMeansTaken ==
    \A c \in Calls : call[c] = "success" => accepted[c] = 1

\* A registered peer stays on file whatever calls overlap with registrations.
\* (The exception is an answer that comes between shutdown() and the next read
\* of the file: it writes a registry of one.)
PeersStay ==
    [][(\E n \in Nodes : file[n] # NoUrl /\ file'[n] = NoUrl)
         => peers # file /\ \E c \in Calls : call'[c] # call[c]]_federationVars

\* Messages and peers survive retries, late copies and lost answers.
FederationSafe == [](FederationTypeOK /\ AtMostOnce /\ SuccessMeansTaken) /\ PeersStay
=============================================================================
