----------------------------- MODULE StateSync -----------------------------
(***************************************************************************)
(* core/security/sync.py: devices exchange whole states (vault and memory  *)
(* database) through a shared folder: a package per push and one file,     *)
(* latest.json, that names the last. Vector clocks tell which state        *)
(* follows which. A process runs push_state() and pull_state() without     *)
(* suspending, but the processes of two devices interleave in the folder.  *)
(***************************************************************************)
EXTENDS Integers, Functions, Folds

CONSTANTS
    Devices,        \* processes, named by their first client ids
    SyncClients,    \* client ids, a new one for every process
    Edits,          \* changes users make to a state
    VaultEdits,     \* ... those to the vault, the others are to the database
    Sessions,       \* bound: sets of edits made between two calls
    MaxCount,       \* bound on a component of a vector clock
    MaxTotal,       \* bound on the sum of its components
    NoPackage       \* no file

ASSUME SyncAssumption ==
    /\ {MaxCount, MaxTotal} \subseteq Nat \ {0} /\ Devices \subseteq SyncClients
    /\ VaultEdits \subseteq Edits /\ Sessions \subseteq SUBSET Edits
    /\ NoPackage \notin [clock : [SyncClients -> 0 .. MaxCount], known : SUBSET Edits]

VARIABLES
    client,         \* client_id of each device
    clock,          \* vector_clock
    contained,      \* edits the device's state contains or has superseded
    based,          \* ... those of the state its clock stands for
    syncStep,       \* where its push or pull is
    inHand,         \* the package it works on
    latest,         \* the package latest.json names
    latestTmp,      \* ... and latest.json.tmp, which all devices share
    reused          \* history: a count was taken back that others may have seen

syncVars == <<client, clock, contained, based, syncStep, inHand, latest, latestTmp, reused>>
-----------------------------------------------------------------------------
Clocks == [SyncClients -> 0 .. MaxCount]
Packages == [clock : Clocks, known : SUBSET Edits]
NoClock == [c \in SyncClients |-> 0]
InBounds(k) == k \in Clocks /\ FoldFunction(LAMBDA a, b : a + b, 0, k) <= MaxTotal

SyncInit ==
    /\ client = [d \in Devices |-> d]
    /\ clock = [d \in Devices |-> NoClock]
    /\ contained = [d \in Devices |-> {}] /\ based = [d \in Devices |-> {}]
    /\ syncStep = [d \in Devices |-> "idle"] /\ inHand = [d \in Devices |-> NoPackage]
    /\ latest = NoPackage /\ latestTmp = NoPackage
    /\ reused = FALSE

\* _compare_clocks(): a missing component counts as 0.
UpTo(a, b) == \A c \in SyncClients : a[c] <= b[c]
Dominates(b, a) == UpTo(a, b) /\ a # b
Concurrent(a, b) == ~UpTo(a, b) /\ ~UpTo(b, a)

\* latest.json.tmp when d gives up its push: it matters only while another device is
\* about to move it, the next push overwrites it.
LeftBy(d) == IF \E x \in Devices \ {d} : syncStep[x] = "named" THEN latestTmp ELSE NoPackage

SyncGoes(d, to, p) == syncStep' = [syncStep EXCEPT ![d] = to] /\ inHand' = [inHand EXCEPT ![d] = p]

\* The user changes the state of a device; no clock counts that.
Edit(d, made) ==
    /\ syncStep[d] = "idle" /\ \A x \in Devices : made \cap contained[x] = {}
    /\ contained' = [contained EXCEPT ![d] = @ \cup made]
    /\ UNCHANGED <<client, clock, based, syncStep, inHand, latest, latestTmp, reused>>
-----------------------------------------------------------------------------
\* push_state(): the own count goes up, the package is written under a new name
\* and upload() writes latest.json.tmp, over another device's too. (The package
\* alone is seen by nobody; a push that fails before takes its count back.)
BeginPush(d) ==
    /\ syncStep[d] = "idle"
    /\ clock' = [clock EXCEPT ![d][client[d]] = @ + 1] /\ InBounds(clock'[d])
    /\ latestTmp' = [clock |-> clock'[d], known |-> contained[d]]
    /\ SyncGoes(d, "named", latestTmp')
    /\ UNCHANGED <<client, contained, based, latest, reused>>

\* ... and moves it into place, whoever wrote it last.
MoveLatest(d) ==
    /\ syncStep[d] = "named" /\ latestTmp # NoPackage
    /\ latest' = latestTmp /\ latestTmp' = NoPackage
    /\ based' = [based EXCEPT ![d] = inHand[d].known]
    /\ SyncGoes(d, "idle", NoPackage)
    /\ UNCHANGED <<client, clock, contained, reused>>

\* The upload fails, for one because another device has moved the file already:
\* the count is taken back, even if the other one has published this package.
PushFails(d) ==
    /\ syncStep[d] = "named"
    /\ clock' = [clock EXCEPT ![d][client[d]] = @ - 1]
    /\ reused' = (reused \/ latestTmp # inHand[d] \/ \E x \in Devices \ {d} : syncStep[x] = "named")
    /\ latestTmp' = LeftBy(d) /\ SyncGoes(d, "idle", NoPackage)
    /\ UNCHANGED <<client, contained, based, latest>>
-----------------------------------------------------------------------------
\* pull_state() reads latest.json, then the package it names.
BeginPull(d) ==
    /\ syncStep[d] = "idle" /\ latest # NoPackage
    /\ SyncGoes(d, "found", latest)
    /\ UNCHANGED <<client, clock, contained, based, latest, latestTmp, reused>>

\* Of two concurrent states the one with the later time stays, of equal times the
\* one of the smaller client id: the clocks of two machines and random ids can
\* order them either way.
Applies(d, p) == Dominates(p.clock, clock[d]) \/ Concurrent(p.clock, clock[d])

Max2(a, b) == IF a >= b THEN a ELSE b
Merged(d, p) ==
    [c \in SyncClients |-> Max2(clock[d][c], p.clock[c]) + IF c = client[d] THEN 1 ELSE 0]

\* The vault is replaced first, on disk and in memory ...
ReplaceVault(d) ==
    /\ syncStep[d] = "found" /\ Applies(d, inHand[d])
    /\ contained' = [contained EXCEPT ![d] = @ \cup (inHand[d].known \cap VaultEdits)]
    /\ SyncGoes(d, "half", inHand[d])
    /\ UNCHANGED <<client, clock, based, latest, latestTmp, reused>>

\* ... then the database; with both the clocks are merged.
ReplaceDatabase(d) ==
    LET p == inHand[d]
    IN /\ syncStep[d] = "half"
       /\ InBounds(Merged(d, p))
       /\ clock' = [clock EXCEPT ![d] = Merged(d, p)]
       /\ contained' = [contained EXCEPT ![d] = @ \cup p.known]
       /\ based' = [based EXCEPT ![d] = contained'[d]]
       /\ SyncGoes(d, "idle", NoPackage)
       /\ UNCHANGED <<client, latest, latestTmp, reused>>

\* The database cannot be replaced: the package's vault stays, beside the old
\* database and the old clock.
PullFails(d) ==
    /\ syncStep[d] = "half"
    /\ SyncGoes(d, "idle", NoPackage)
    /\ UNCHANGED <<client, clock, contained, based, latest, latestTmp, reused>>

\* The pull changes nothing: the state is not newer or loses to this one,
\* the package does not open with this device's master key, its database is
\* damaged or the vault cannot be replaced.
PullEnds(d) ==
    /\ syncStep[d] = "found"
    /\ SyncGoes(d, "idle", NoPackage)
    /\ UNCHANGED <<client, clock, contained, based, latest, latestTmp, reused>>

\* The process is started again: its state is on disk, its clock, its times and
\* its client id are not.
RestartDevice(d) ==
    /\ \E c \in SyncClients :
         /\ \A x \in Devices : client[x] # c /\ clock[x][c] = 0
         /\ (latest # NoPackage => latest.clock[c] = 0) /\ (latestTmp # NoPackage => latestTmp.clock[c] = 0)
         /\ \A x \in Devices : inHand[x] # NoPackage => inHand[x].clock[c] = 0
         /\ client' = [client EXCEPT ![d] = c]
    /\ clock' = [clock EXCEPT ![d] = NoClock]
    /\ based' = [based EXCEPT ![d] = {}]
    /\ latestTmp' = LeftBy(d) /\ SyncGoes(d, "idle", NoPackage)
    /\ UNCHANGED <<contained, latest, reused>>

SyncNext ==
    \E d \in Devices :
        \/ BeginPush(d) \/ MoveLatest(d) \/ PushFails(d)
        \/ BeginPull(d) \/ ReplaceVault(d) \/ ReplaceDatabase(d) \/ PullFails(d)
        \/ PullEnds(d) \/ RestartDevice(d)
        \/ \E made \in Sessions : Edit(d, made)
-----------------------------------------------------------------------------
(* Properties.                                                             *)

SyncTypeOK ==
    /\ client \in [Devices -> SyncClients] /\ clock \in [Devices -> Clocks]
    /\ contained \in [Devices -> SUBSET Edits] /\ based \in [Devices -> SUBSET Edits]
    /\ inHand \in [Devices -> Packages \cup {NoPackage}]
    /\ {latest, latestTmp} \subseteq Packages \cup {NoPackage} /\ reused \in BOOLEAN

\* A pull that is skipped because the clock is not behind misses no edit, unless
\* the package's count was taken back and used again: half a package that was
\* applied is pulled again.
SkippedIsKnown ==
    latest # NoPackage /\ ~reused =>
        \A d \in Devices : UpTo(latest.clock, clock[d]) => latest.known \subseteq contained[d]

\* A package whose clock dominates contains, or has superseded, everything the
\* device had pushed or pulled before: only what it never pushed is overwritten.
DominatingContains ==
    latest # NoPackage /\ ~reused =>
        \A d \in Devices : UpTo(clock[d], latest.clock) => based[d] \subseteq latest.known

\* The synchronisation of the devices.
StateSyncSafe == SyncTypeOK /\ SkippedIsKnown /\ DominatingContains
=============================================================================
