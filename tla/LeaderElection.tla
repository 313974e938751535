--------------------------- MODULE LeaderElection ---------------------------
(***************************************************************************)
(* core/mission/leader_election.py over the Redis lease of                 *)
(* core/mission/transports/redis.py: candidates contend for one lease key. *)
(*                                                                         *)
(* Every call on the transport suspends the calling coroutine twice over:  *)
(* the request travels, the server executes it, the reply travels back.    *)
(* Between these points other coroutines run, of the same candidate too:   *)
(* `main' is the coroutine that acquires and renews (directly or through   *)
(* campaign()), `owner' one that calls release() concurrently, and a       *)
(* cancelled campaign runs release() itself.                               *)
(*                                                                         *)
(* Time is counted down, never up: left is what is left of the key's TTL,   *)
(* wait[c] what is left of the longest delay of c's pending step.     *)
(* With Timely, no step is delayed by more than MaxLag; without it, steps  *)
(* may be delayed for ever.                                                *)
(***************************************************************************)
EXTENDS Integers, FiniteSets, TLC

CONSTANTS
    Candidates,     \* LeaderElection instances contending for the key
    Tokens,         \* uuid4 lease tokens
    NoToken,        \* None
    TTL,            \* ttl_seconds
    Interval,       \* renew_interval of campaign()
    MaxLag,         \* longest delay of one step, when Timely
    Timely,         \* TRUE: every step happens within MaxLag of being due
    Faults,         \* TRUE: calls on Redis may raise a connection error
    Direct,         \* TRUE: callers use try_acquire()/renew() themselves too
    BoundedCampaign \* TRUE: callers pass max_iterations to campaign()

ASSUME TimeAssumption ==
    /\ TTL \in Nat \ {0} /\ Interval \in Nat \ {0} /\ MaxLag \in Nat
    /\ Interval + 3 * MaxLag < TTL

ASSUME SwitchAssumption ==
    {Timely, Faults, Direct, BoundedCampaign} \subseteq BOOLEAN

ASSUME TokenAssumption == NoToken \notin Tokens

VARIABLES
    holder,     \* the token stored under the Redis key, or NoToken
    left,       \* what is left of the key's TTL
    closed,     \* the candidates whose transport was closed
    role,       \* LeaderElection._role
    token,      \* LeaderElection._token
    pc,         \* where c's main coroutine is suspended
    camp,       \* the candidates whose main coroutine runs campaign()
    wire,       \* main's call: the token it carries, or the one in the reply
    wait,       \* time left before main's pending step is overdue
    rel,        \* rel[<<c, k>>]: where the release() called by k is suspended
    relTok      \* relTok[<<c, k>>]: the token that release() carries

vars == <<holder, left, closed, role, token, pc, camp, wire, wait, rel, relTok>>

-----------------------------------------------------------------------------
Roles == {"CANDIDATE", "FOLLOWER", "LEADER", "STEPPED_DOWN", "RELEASED", "CLOSED"}

RE_ACQUIRABLE == {"CANDIDATE", "FOLLOWER"}

\* The two coroutines that may be inside release() of one candidate.
Releasers == {"owner", "campaign"}

\* Where main can be: between calls, with a request under way, with a reply
\* under way, asleep between renewals, or gone with its last request still
\* under way.
Points == {"idle", "lease", "leased", "sleep", "renew", "renewed",
           "strayLease", "strayRenew"}

Waiting == {"lease", "leased", "sleep", "renew", "renewed"}

TokenOrNone == Tokens \cup {NoToken}

\* The longest delay is the one of a sleep.
Delay == 0..(Interval + MaxLag)

ReleasePoints == {"idle", "release", "released"}

TypeOK ==
    /\ holder \in TokenOrNone
    /\ left \in 0..TTL
    /\ closed \subseteq Candidates
    /\ role \in [Candidates -> Roles]
    /\ token \in [Candidates -> TokenOrNone]
    /\ pc \in [Candidates -> Points]
    /\ camp \subseteq Candidates
    /\ wire \in [Candidates -> TokenOrNone]
    /\ wait \in [Candidates -> Delay]
    /\ rel \in [Candidates \X Releasers -> ReleasePoints]
    /\ relTok \in [Candidates \X Releasers -> TokenOrNone]

Init ==
    /\ holder = NoToken /\ left = 0
    /\ closed = {}
    /\ role = [c \in Candidates |-> "CANDIDATE"]
    /\ token = [c \in Candidates |-> NoToken]
    /\ pc = [c \in Candidates |-> "idle"]
    /\ camp = {}
    /\ wire = [c \in Candidates |-> NoToken]
    /\ wait = [c \in Candidates |-> 0]
    /\ rel = [ck \in Candidates \X Releasers |-> "idle"]
    /\ relTok = [ck \in Candidates \X Releasers |-> NoToken]

-----------------------------------------------------------------------------
(* The Redis server: each operation is one atomic command or script.       *)

\* A token no one refers to: what uuid4 returns.
Fresh ==
    Tokens \ ({holder}
              \cup {token[c] : c \in Candidates}
              \cup {wire[c] : c \in Candidates}
              \cup {relTok[<<c, k>>] : c \in Candidates, k \in Releasers})

\* Mutant: SET without NX.
SetWithoutNX(tok) == holder' = tok /\ left' = TTL

\* SET key tok NX EX ttl, on a free key.
Granted(tok) ==
    /\ holder = NoToken
    /\ holder' = tok /\ left' = TTL

\* SET ... NX on a held key.
Refused ==
    /\ holder # NoToken
    /\ UNCHANGED <<holder, left>>

\* Mutant: the reply of the renew script is not checked.
AlwaysRenewed(tok) == tok # NoToken

\* The renew script extends the key's life if it still holds this token.
Renewed(tok) == holder = tok

LuaRenew(tok) ==
    /\ left' = IF Renewed(tok) THEN TTL ELSE left
    /\ UNCHANGED holder

\* Mutant: DEL without comparing the token.
PlainDelete(tok) == tok # NoToken /\ holder' = NoToken /\ left' = 0

\* The release script deletes the key if it still holds this token.
LuaRelease(tok) ==
    /\ holder' = IF holder = tok THEN NoToken ELSE holder
    /\ left' = IF holder = tok THEN 0 ELSE left

-----------------------------------------------------------------------------
(* try_acquire() and campaign().                                           *)

\* try_acquire() up to its await, or to its end on a closed transport.
EnterTryAcquire(c) ==
    /\ IF c \in closed
         THEN /\ role' = [role EXCEPT ![c] = "CLOSED"]
              /\ token' = [token EXCEPT ![c] = NoToken]
              /\ UNCHANGED <<pc, wait>>
         ELSE /\ pc' = [pc EXCEPT ![c] = "lease"]
              /\ wait' = [wait EXCEPT ![c] = MaxLag]
              /\ UNCHANGED <<role, token>>
    /\ UNCHANGED <<holder, left, closed, wire, rel, relTok>>

\* The caller calls try_acquire(), from any other role it raises.
TryAcquire(c) ==
    /\ Direct
    /\ pc[c] = "idle" /\ role[c] \in RE_ACQUIRABLE
    /\ EnterTryAcquire(c)
    /\ camp' = camp \ {c}

\* The caller starts campaign(), from any other role it raises.
Campaign(c) ==
    /\ pc[c] = "idle" /\ role[c] = "CANDIDATE"
    /\ EnterTryAcquire(c)
    /\ camp' = camp \cup {c}

\* The server executes the SET NX EX of lease(). A caller that is gone
\* leaves the reply unread.
ExecuteLease(c) ==
    /\ pc[c] \in {"lease", "strayLease"}
    /\ \/ \E tok \in Fresh :
            /\ Granted(tok)
            /\ wire' = [wire EXCEPT ![c] = IF pc[c] = "lease" THEN tok ELSE NoToken]
       \/ Refused /\ wire' = [wire EXCEPT ![c] = NoToken]
    /\ pc' = [pc EXCEPT ![c] = IF @ = "lease" THEN "leased" ELSE "idle"]
    /\ wait' = [wait EXCEPT ![c] = MaxLag]
    /\ UNCHANGED <<closed, role, token, camp, rel, relTok>>

\* Back in try_acquire() with the reply; in campaign(), the loop begins or the
\* campaign returns. A call made on its own returns to the caller.
AcquireReturns(c) ==
    /\ pc[c] = "leased"
    /\ token' = [token EXCEPT ![c] = wire[c]]
    /\ wire' = [wire EXCEPT ![c] = NoToken]
    /\ IF wire[c] = NoToken
         THEN /\ role' = [role EXCEPT ![c] = "FOLLOWER"]
              /\ pc' = [pc EXCEPT ![c] = "idle"]
              /\ wait' = [wait EXCEPT ![c] = 0]
         ELSE /\ role' = [role EXCEPT ![c] = "LEADER"]
              /\ pc' = [pc EXCEPT ![c] = IF c \in camp THEN "sleep" ELSE "idle"]
              /\ wait' = [wait EXCEPT ![c] = IF c \in camp THEN Interval + MaxLag ELSE 0]
    /\ UNCHANGED <<holder, left, closed, camp, rel, relTok>>

\* campaign() returns LEADER because max_iterations were made.
CampaignReturns(c) ==
    /\ BoundedCampaign
    /\ pc[c] = "sleep" /\ wait[c] = Interval + MaxLag
    /\ pc' = [pc EXCEPT ![c] = "idle"]
    /\ wait' = [wait EXCEPT ![c] = 0]
    /\ UNCHANGED <<holder, left, closed, role, token, camp, wire, rel, relTok>>

-----------------------------------------------------------------------------
(* renew().                                                                *)

\* renew() is entered: after campaign()'s sleep, or by the caller. A renew
\* that finds nothing to do ends the campaign.
Renew(c) ==
    /\ \/ pc[c] = "sleep" /\ wait[c] <= MaxLag
       \/ pc[c] = "idle" /\ Direct /\ role[c] = "LEADER"
    /\ IF role[c] # "LEADER" \/ c \in closed
         THEN /\ role' = [role EXCEPT ![c] = IF @ = "LEADER" THEN "CLOSED" ELSE @]
              /\ token' = [token EXCEPT ![c] = IF role[c] = "LEADER" THEN NoToken ELSE @]
              /\ pc' = [pc EXCEPT ![c] = "idle"]
              /\ UNCHANGED <<wire, wait, camp>>
         ELSE /\ wire' = [wire EXCEPT ![c] = token[c]]
              /\ pc' = [pc EXCEPT ![c] = "renew"]
              /\ wait' = [wait EXCEPT ![c] = MaxLag]
              /\ camp' = IF pc[c] = "sleep" THEN camp ELSE camp \ {c}
              /\ UNCHANGED <<role, token>>
    /\ UNCHANGED <<holder, left, closed, rel, relTok>>

\* The server executes the renew script.
ExecuteRenew(c) ==
    /\ pc[c] \in {"renew", "strayRenew"}
    /\ LuaRenew(wire[c])
    /\ wire' = [wire EXCEPT ![c] =
                  IF pc[c] = "renew" /\ Renewed(wire[c]) THEN @ ELSE NoToken]
    /\ pc' = [pc EXCEPT ![c] = IF @ = "renew" THEN "renewed" ELSE "idle"]
    /\ wait' = [wait EXCEPT ![c] = MaxLag]
    /\ UNCHANGED <<closed, role, token, camp, rel, relTok>>

\* Back in renew() with the reply: a lost lease steps the candidate down,
\* whatever its role has become in the meantime.
RenewReturns(c) ==
    /\ pc[c] = "renewed"
    /\ wire' = [wire EXCEPT ![c] = NoToken]
    /\ IF wire[c] = NoToken
         THEN /\ role' = [role EXCEPT ![c] = "STEPPED_DOWN"]
              /\ token' = [token EXCEPT ![c] = NoToken]
              /\ pc' = [pc EXCEPT ![c] = "idle"]
              /\ wait' = [wait EXCEPT ![c] = 0]
         ELSE /\ pc' = [pc EXCEPT ![c] = IF c \in camp THEN "sleep" ELSE "idle"]
              /\ wait' = [wait EXCEPT ![c] = IF c \in camp THEN Interval + MaxLag ELSE 0]
              /\ UNCHANGED <<role, token>>
    /\ UNCHANGED <<holder, left, closed, camp, rel, relTok>>

-----------------------------------------------------------------------------
(* release(), called by the owner or by a campaign that is cancelled.      *)

\* Mutant: release() forgets the token and not the role.
ForgetTokenOnly(c) ==
    /\ token' = [token EXCEPT ![c] = NoToken]
    /\ UNCHANGED role

\* The end of release(): the token is forgotten, the role becomes RELEASED
\* unless the transport closed.
Forget(c) ==
    /\ token' = [token EXCEPT ![c] = NoToken]
    /\ role' = [role EXCEPT ![c] = IF @ = "CLOSED" THEN @ ELSE "RELEASED"]

\* release() up to its await, or to its end when there is nothing to release.
EnterRelease(c, k) ==
    /\ rel[<<c, k>>] = "idle"
    /\ IF role[c] = "LEADER" /\ c \notin closed
         THEN /\ rel' = [rel EXCEPT ![<<c, k>>] = "release"]
              /\ relTok' = [relTok EXCEPT ![<<c, k>>] = token[c]]
              /\ UNCHANGED <<role, token>>
         ELSE Forget(c) /\ UNCHANGED <<rel, relTok>>

Release(c) ==
    /\ EnterRelease(c, "owner")
    /\ UNCHANGED <<holder, left, closed, pc, camp, wire, wait>>

\* main leaves its call or its sleep by an exception. A request under way may
\* still reach the server, or never.
Abandon(c) ==
    \/ /\ pc' = [pc EXCEPT ![c] = "idle"]
       /\ wire' = [wire EXCEPT ![c] = NoToken]
    \/ /\ pc[c] = "lease"
       /\ pc' = [pc EXCEPT ![c] = "strayLease"]
       /\ UNCHANGED wire
    \/ /\ pc[c] = "renew"
       /\ pc' = [pc EXCEPT ![c] = "strayRenew"]
       /\ UNCHANGED wire

\* The campaign's task is cancelled. Before the lease is acquired the
\* cancellation passes through; in the loop it runs release() first.
CancelCampaign(c) ==
    /\ c \in camp /\ pc[c] \in Waiting
    /\ Abandon(c)
    /\ IF pc[c] \in {"lease", "leased"}
         THEN UNCHANGED <<role, token, rel, relTok>>
         ELSE EnterRelease(c, "campaign")
    /\ UNCHANGED <<holder, left, closed, camp, wait>>

\* The server executes the release script.
ExecuteRelease(c, k) ==
    /\ rel[<<c, k>>] = "release"
    /\ LuaRelease(relTok[<<c, k>>])
    /\ rel' = [rel EXCEPT ![<<c, k>>] = "released"]
    /\ UNCHANGED <<closed, role, token, pc, camp, wire, wait, relTok>>

ReleaseReturns(c, k) ==
    /\ rel[<<c, k>>] = "released"
    /\ Forget(c)
    /\ rel' = [rel EXCEPT ![<<c, k>>] = "idle"]
    /\ relTok' = [relTok EXCEPT ![<<c, k>>] = NoToken]
    /\ UNCHANGED <<holder, left, closed, pc, camp, wire, wait>>

-----------------------------------------------------------------------------
(* The environment: close(), connection errors, time.                      *)

\* RemoteTransport.close(): a flag that later calls read. The key stays.
Close(c) ==
    /\ c \notin closed
    /\ closed' = closed \cup {c}
    /\ UNCHANGED <<holder, left, role, token, pc, camp, wire, wait, rel, relTok>>

\* A call of main raises: there is no handler, so the role stays what it was
\* and a campaign ends.
CallRaises(c) ==
    /\ Faults
    /\ pc[c] \in Waiting \ {"sleep"}
    /\ Abandon(c)
    /\ UNCHANGED <<holder, left, closed, role, token, camp, wait, rel, relTok>>

\* release_lease() raises: release() is left before it forgets the token.
ReleaseRaises(c, k) ==
    /\ Faults
    /\ rel[<<c, k>>] \in {"release", "released"}
    /\ rel' = [rel EXCEPT ![<<c, k>>] = "idle"]
    /\ relTok' = [relTok EXCEPT ![<<c, k>>] = NoToken]
    /\ UNCHANGED <<holder, left, closed, role, token, pc, camp, wire, wait>>

\* One unit of time passes. An expired key is gone. When Timely, time cannot
\* pass over a step that is overdue.
Tick ==
    /\ Timely => \A c \in Candidates : pc[c] \in Waiting => wait[c] > 0
    /\ left' = IF left > 0 THEN left - 1 ELSE 0
    /\ holder' = IF left > 1 THEN holder ELSE NoToken
    /\ wait' = [c \in Candidates |-> IF wait[c] > 0 THEN wait[c] - 1 ELSE 0]
    /\ UNCHANGED <<closed, role, token, pc, camp, wire, rel, relTok>>

-----------------------------------------------------------------------------
Main(c) ==
    \/ ExecuteLease(c) \/ AcquireReturns(c)
    \/ Renew(c) \/ ExecuteRenew(c) \/ RenewReturns(c)

Releasing(c, k) == ExecuteRelease(c, k) \/ ReleaseReturns(c, k)

Next ==
    \/ \E c \in Candidates :
         \/ TryAcquire(c) \/ Campaign(c)
         \/ Main(c)
         \/ CampaignReturns(c)
         \/ Release(c)
         \/ CancelCampaign(c)
         \/ \E k \in Releasers : Releasing(c, k) \/ ReleaseRaises(c, k)
         \/ Close(c)
         \/ CallRaises(c)
    \/ Tick

Spec == Init /\ [][Next]_vars

\* The event loop resumes a coroutine whose sleep or reply is due, Redis
\* answers what it is asked, and time passes.
Fairness ==
    /\ \A c \in Candidates : WF_vars(Main(c))
    /\ \A c \in Candidates, k \in Releasers : WF_vars(Releasing(c, k))
    /\ WF_vars(Tick)

FairSpec == Spec /\ Fairness
-----------------------------------------------------------------------------
(* Properties.                                                             *)

\* A candidate that is LEADER has a token and only a LEADER has one: what
\* renew() asserts ("invariant: LEADER <-> token"), whatever coroutines of
\* the candidate interleave between reading and writing the two fields.
LeaderIffToken ==
    \A c \in Candidates : (role[c] = "LEADER") <=> (token[c] # NoToken)

\* c is LEADER and no release() of it is under way.
Leads(c) == role[c] = "LEADER" /\ \A k \in Releasers : rel[<<c, k>>] = "idle"

HoldsLease(c) == token[c] # NoToken /\ holder = token[c]

\* Every leader runs campaign(), no step of it is late by more than MaxLag,
\* and Redis answers.
Punctual == Timely /\ ~Faults /\ ~Direct /\ ~BoundedCampaign

\* Split-brain prevention: when no step of a campaign is late by more than
\* MaxLag, two candidates that have not begun to release() do not lead at the
\* same time. The renew cadence, the order of the calls, the fresh tokens and
\* the atomic scripts all matter.
AtMostOneLeader ==
    Punctual => \A c, d \in Candidates : Leads(c) /\ Leads(d) => c = d

\* A key that has not expired leaves its holder only by a release() that
\* carries its own token: neither a late release nor a late renewal of a
\* former leader takes the key from its successor.
OnlyHolderFreesLease ==
    [][left > 1 /\ holder' # holder =>
         /\ holder' = NoToken
         /\ \E c \in Candidates, k \in Releasers :
              rel[<<c, k>>] = "release" /\ relTok[<<c, k>>] = holder]_vars

\* c's campaign() is under way and past try_acquire().
Campaigning(c) == c \in camp /\ pc[c] \in {"sleep", "renew", "renewed"}

\* A campaign whose lease was lost does not stay LEADER for ever: it steps
\* down, or it ends because it was cancelled, returned or a call raised.
StaleLeaderStepsDown ==
    \A c \in Candidates :
        (role[c] = "LEADER" /\ holder # token[c] /\ Campaigning(c))
            ~> (role[c] # "LEADER" \/ ~Campaigning(c))
-----------------------------------------------------------------------------
(* What keeps AtMostOneLeader inductive.                                   *)

\* One of c's fields, calls or replies has token t.
RefersTo(c, t) ==
    token[c] = t \/ wire[c] = t \/ \E k \in Releasers : relTok[<<c, k>>] = t

\* uuid4 tokens are not shared between candidates.
TokensPrivate ==
    \A t \in Tokens : \A c, d \in Candidates : RefersTo(c, t) /\ RefersTo(d, t) => c = d

\* No one leads while its lease() is under way, so no release() can carry the
\* token that is being granted.
AcquiringNotLeading ==
    \A c \in Candidates : pc[c] \in {"lease", "leased"} =>
        /\ role[c] # "LEADER"
        /\ \A k \in Releasers : wire[c] # NoToken => relTok[<<c, k>>] # wire[c]

\* A key that does not exist has nothing left of its TTL.
FreeKeyExpired == holder = NoToken => left = 0

\* A token travels with every renewal, or in a reply.
WireQuiet ==
    \A c \in Candidates :
        /\ pc[c] \in {"idle", "lease", "sleep", "strayLease"} => wire[c] = NoToken
        /\ pc[c] \in {"renew", "strayRenew"} => wire[c] # NoToken

\* c's lease has at least this long to live: TTL less the longest time that can
\* have passed since Redis last set it.
KeepsFor(c, elapsed) == left >= TTL - elapsed + wait[c]

\* The key is c's from the moment Redis executes the SET until c gives it up,
\* because every renewal is executed before the key expires.
Keeps(c) ==
    /\ pc[c] = "leased" /\ wire[c] # NoToken =>
         holder = wire[c] /\ c \in camp /\ KeepsFor(c, MaxLag)
    /\ Leads(c) =>
         /\ HoldsLease(c) /\ c \in camp
         /\ \/ pc[c] = "sleep" /\ KeepsFor(c, Interval + 2 * MaxLag)
            \/ /\ pc[c] = "renew" /\ wire[c] = token[c]
               /\ KeepsFor(c, Interval + 3 * MaxLag)
            \/ pc[c] = "renewed" /\ wire[c] = token[c] /\ KeepsFor(c, MaxLag)

IInv ==
    /\ TypeOK /\ LeaderIffToken
    /\ TokensPrivate /\ AcquiringNotLeading /\ WireQuiet /\ FreeKeyExpired
    /\ Punctual => /\ \A c \in Candidates : pc[c] = "lease" => c \in camp
                   /\ \A c \in Candidates : Keeps(c)

\* Candidates and tokens are interchangeable: a safety run uses the symmetry.
Symmetry == Permutations(Candidates) \cup Permutations(Tokens)
=============================================================================
