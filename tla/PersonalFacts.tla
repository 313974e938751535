---------------------------- MODULE PersonalFacts ----------------------------
(***************************************************************************)
(* core/memory/intelligence.py: versioned facts about the user in the      *)
(* table user_personal_memories. A fact that is stated again replaces the  *)
(* active version by a new one; the versions before stay. Every request    *)
(* has a session of its own and reads the active versions in one step and  *)
(* writes in another.                                                      *)
(***************************************************************************)
EXTENDS Integers, FiniteSets

CONSTANTS
    Facts,          \* facts
    Aliased,        \* facts that share an alias
    MemoryIds,            \* memory_id
    Updates,        \* requests under way
    MaxVersion,     \* bound on the versions of a memory
    NoRow           \* no matching version

ASSUME FactAssumption ==
    Aliased \subseteq Facts /\ MaxVersion \in Nat \ {0}

VARIABLES
    versions,       \* the table
    factStep,           \* where each request is
    stated,         \* the fact and lock level it brings
    matched,        \* the version it found
    overtaken       \* history: memories a request wrote after another had changed them

factVars == <<versions, factStep, stated, matched, overtaken>>
-----------------------------------------------------------------------------
Locks == {"NORMAL", "PINNED", "SYSTEM_LOCKED"}

Versions == [id : MemoryIds, version : 1 .. MaxVersion, fact : Facts, lock : Locks,
             is : {"active", "replaced", "forgotten"}]
Statements == [fact : Facts, lock : Locks]

ASSUME NoRowAssumption == NoRow \notin Versions

FactsInit ==
    /\ versions = {}
    /\ factStep = [u \in Updates |-> "idle"]
    /\ stated = [u \in Updates |-> NoRow] /\ matched = [u \in Updates |-> NoRow]
    /\ overtaken = {}

\* get_memories(active_only): active and not deleted.
ActiveVersions == {r \in versions : r.is = "active"}
Of(id) == {r \in versions : r.id = id}

Matches(f, r) == r.fact = f \/ {f, r.fact} \subseteq Aliased

Done(u) ==
    /\ factStep' = [factStep EXCEPT ![u] = "idle"]
    /\ stated' = [stated EXCEPT ![u] = NoRow] /\ matched' = [matched EXCEPT ![u] = NoRow]
-----------------------------------------------------------------------------
\* A locked version is not replaced, a pinned one by a pinned one only.
MayReplace(r, s) ==
    /\ r.lock # "SYSTEM_LOCKED"
    /\ r.lock = "PINNED" => s.lock = "PINNED"

\* add_or_update_memory() reads the active versions and takes the first, in the
\* order of the table, that says the same.
FindMatch(u, s) ==
    /\ factStep[u] = "idle"
    /\ LET same == {r \in ActiveVersions : Matches(s.fact, r)}
       IN \/ /\ same = {} /\ matched' = [matched EXCEPT ![u] = NoRow]
          \/ \E r \in same : MayReplace(r, s) /\ matched' = [matched EXCEPT ![u] = r]
    /\ stated' = [stated EXCEPT ![u] = s] /\ factStep' = [factStep EXCEPT ![u] = "write"]
    /\ UNCHANGED <<versions, overtaken>>

\* auto_classify_and_save(): an instruction is pinned, everything else is normal;
\* noise and questions are not stored.
AutoClassify(u, f, isRule) ==
    FindMatch(u, [fact |-> f, lock |-> IF isRule THEN "PINNED" ELSE "NORMAL"])

NewVersion(id, v, s) ==
    [id |-> id, version |-> v, fact |-> s.fact, lock |-> s.lock, is |-> "active"]

\* Nothing matched: a memory of its own.
InsertFirst(u) ==
    /\ factStep[u] = "write" /\ matched[u] = NoRow
    /\ \E id \in MemoryIds :
         /\ Of(id) = {} /\ \A q \in Updates : (matched[q] # NoRow => matched[q].id # id)
         /\ versions' = versions \cup {NewVersion(id, 1, stated[u])}
         /\ overtaken' = IF \E r \in ActiveVersions : Matches(stated[u].fact, r)
                         THEN overtaken \cup {id} ELSE overtaken
    /\ Done(u)

\* The row that was read, whatever became of it since.
Current(r) == {q \in Of(r.id) : q.version = r.version /\ q.fact = r.fact /\ q.lock = r.lock}

\* The version that was read becomes inactive and its successor is written.
InsertNext(u) ==
    /\ factStep[u] = "write" /\ matched[u] # NoRow /\ matched[u].version < MaxVersion
    /\ Current(matched[u]) # {}
    /\ versions' = {IF r \in Current(matched[u]) THEN [r EXCEPT !.is = IF @ = "forgotten" THEN @ ELSE "replaced"] ELSE r : r \in versions}
                   \cup {NewVersion(matched[u].id, matched[u].version + 1, stated[u])}
    /\ overtaken' = IF matched[u] \in ActiveVersions THEN overtaken ELSE overtaken \cup {matched[u].id}
    /\ Done(u)

\* The row was purged in between: the update finds no row and the request fails.
InsertFails(u) ==
    /\ factStep[u] = "write" /\ matched[u] # NoRow /\ Current(matched[u]) = {}
    /\ Done(u) /\ UNCHANGED <<versions, overtaken>>
-----------------------------------------------------------------------------
\* forget(): every version, active or not.
ForgetFact(id) ==
    /\ Of(id) # {}
    /\ versions' = {IF r.id = id THEN [r EXCEPT !.is = "forgotten"] ELSE r : r \in versions}
    /\ UNCHANGED <<factStep, stated, matched, overtaken>>

\* purge(): no version is left.
PurgeFact(id) ==
    /\ Of(id) # {}
    /\ versions' = versions \ Of(id)
    /\ overtaken' = overtaken \ {id}
    /\ UNCHANGED <<factStep, stated, matched>>

FactsNext ==
    \/ \E u \in Updates :
         \/ InsertFirst(u) \/ InsertNext(u) \/ InsertFails(u)
         \/ \E s \in Statements : FindMatch(u, s)
         \/ \E f \in Facts, isRule \in BOOLEAN : AutoClassify(u, f, isRule)
    \/ \E id \in MemoryIds : ForgetFact(id) \/ PurgeFact(id)
-----------------------------------------------------------------------------
(* Properties.                                                             *)

FactsTypeOK ==
    /\ versions \subseteq Versions /\ overtaken \subseteq MemoryIds
    /\ factStep \in [Updates -> {"idle", "write"}]
    /\ stated \in [Updates -> Statements \cup {NoRow}] /\ matched \in [Updates -> Versions \cup {NoRow}]

\* A memory has one active version and it is the latest, unless two requests
\* replaced the same version (get_memory() then raises for good).
LatestIsActive ==
    \A id \in MemoryIds \ overtaken : \A r \in ActiveVersions \cap Of(id), q \in Of(id) :
        q = r \/ (q.is # "active" /\ q.version < r.version)

\* A forgotten memory comes back only through a request that had read it before.
ForgottenStays ==
    \A id \in MemoryIds \ overtaken : (\E r \in Of(id) : r.is = "forgotten") => ActiveVersions \cap Of(id) = {}

\* A fact is known under one memory unless it was first stated twice at a time,
\* or an alias leads to either of two memories.
KnownOnce ==
    \A r, q \in ActiveVersions :
        r.fact = q.fact /\ r.fact \notin Aliased /\ {r.id, q.id} \cap overtaken = {} => r = q

\* Replacing never weakens a lock: after a locked version there is none, after a
\* pinned one only pinned ones.
LocksHold ==
    \A id \in MemoryIds \ overtaken : \A r, q \in Of(id) :
        r.version < q.version => MayReplace(r, q)

\* The personal facts.
PersonalFactsSafe == FactsTypeOK /\ LatestIsActive /\ ForgottenStays /\ KnownOnce /\ LocksHold
=============================================================================
