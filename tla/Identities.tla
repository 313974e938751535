----------------------------- MODULE Identities -----------------------------
(***************************************************************************)
(* core/reasoning/identity.py: the personas are rows, one of them active;  *)
(* the service keeps the active one in memory and shows it to the brain.   *)
(* Requests overlap between their reads, their commits and what they do in *)
(* memory afterwards.                                                      *)
(***************************************************************************)
EXTENDS Integers

CONSTANTS
    Personas,       \* identity ids that may be created
    IdentityCalls,  \* requests under way at most
    DefaultPersona, \* DEFAULT_IDENTITY, which has no row
    NoPersona       \* nothing cached, nothing in the context

ASSUME IdentityAssumption ==
    NoPersona \notin Personas /\ DefaultPersona \notin Personas \cup {NoPersona}

VARIABLES
    personaRows,    \* agent_identities: "new" has no row yet
    cached,         \* _cached_active_identity
    shown,          \* brain_context["active_identity"]
    idCalls,        \* the requests
    chosen,         \* history: the last one activated and those created active since
    crossedOver         \* history: requests crossed, an event was refused or two rows were
                    \* active, since the last activation that crossed no other request

identityVars == <<personaRows, cached, shown, idCalls, chosen, crossedOver>>
-----------------------------------------------------------------------------
Stored == {p \in Personas : personaRows[p] \in {"idle", "active"}}
ActiveRows == {p \in Personas : personaRows[p] = "active"}
SeveralActive == \E p, q \in ActiveRows : p # q
Free == [kind |-> "none", id |-> NoPersona, at |-> "idle", crossed |-> FALSE]

IdentityInit ==
    /\ personaRows = [p \in Personas |-> "new"]
    /\ cached = NoPersona /\ shown = NoPersona
    /\ idCalls = [c \in IdentityCalls |-> Free] /\ chosen = {} /\ crossedOver = FALSE

\* A request goes on; when it changed something, the others have crossed it.
IdGoes(c, call) ==
    idCalls' = [d \in IdentityCalls |->
        IF d = c THEN call
        ELSE IF idCalls[d] = Free THEN Free ELSE [idCalls[d] EXCEPT !.crossed = TRUE]]

BeginRequest(c, kind, p, at) ==
    /\ idCalls[c] = Free
    /\ idCalls' = [idCalls EXCEPT ![c] = [kind |-> kind, id |-> p, at |-> at, crossed |-> FALSE]]

\* _apply_side_effects()
ApplySideEffects(p) == shown' = p

\* create_identity() commits the row; an id is never used again.
CreateIdentity(c, p, active) ==
    /\ personaRows[p] = "new" /\ idCalls[c] = Free
    /\ personaRows' = [personaRows EXCEPT ![p] = IF active THEN "active" ELSE "idle"]
    /\ chosen' = IF active THEN chosen \cup {p} ELSE chosen
    /\ IdGoes(c, [kind |-> IF active THEN "createActive" ELSE "create", id |-> p,
                at |-> "apply", crossed |-> FALSE])
    /\ UNCHANGED <<cached, shown, crossedOver>>

\* activate_identity() and delete_identity() look for the row: without it a 404.
FindIdentity(c, kind, p) ==
    /\ p \in Stored /\ BeginRequest(c, kind, p, "write")
    /\ UNCHANGED <<personaRows, cached, shown, chosen, crossedOver>>

\* The rows of an activation are written in one transaction: all others are put
\* out, this one is set if it still exists.
ActivateRows(p) ==
    [q \in Personas |-> IF q \notin Stored THEN personaRows[q] ELSE IF q = p THEN "active" ELSE "idle"]

WriteIdentity(c) ==
    LET p == idCalls[c].id
    IN /\ idCalls[c].at = "write"
       /\ personaRows' = IF idCalls[c].kind = "activate" THEN ActivateRows(p)
                         ELSE [personaRows EXCEPT ![p] = "deleted"]
       /\ chosen' = IF idCalls[c].kind = "activate" THEN {p} ELSE chosen
       /\ IdGoes(c, [idCalls[c] EXCEPT !.at = "apply"])
       /\ UNCHANGED <<cached, shown, crossedOver>>

\* The database refuses (500).
WriteFails(c) ==
    /\ idCalls[c].at = "write" /\ idCalls' = [idCalls EXCEPT ![c] = Free]
    /\ UNCHANGED <<personaRows, cached, shown, chosen, crossedOver>>

\* Without a cached identity get_active_identity() reads an active row; without an
\* active row it answers with the default, which is not cached.
GetActiveIdentity(c, p) ==
    /\ cached = NoPersona /\ p \in ActiveRows /\ BeginRequest(c, "get", p, "apply")
    /\ UNCHANGED <<personaRows, cached, shown, chosen, crossedOver>>

Blurs(c) == crossedOver \/ idCalls[c].crossed \/ SeveralActive

\* What a request does in memory when its commit or its read has come back.
ApplyActivation(c) ==
    /\ idCalls[c].at = "apply" /\ idCalls[c].kind = "activate"
    /\ cached' = idCalls[c].id /\ ApplySideEffects(idCalls[c].id)
    /\ crossedOver' = idCalls[c].crossed
    /\ IdGoes(c, Free) /\ UNCHANGED <<personaRows, chosen>>

Created(c) == idCalls[c].at = "apply" /\ idCalls[c].kind \in {"create", "createActive"}

ApplyCreation(c) ==
    /\ Created(c)
    /\ IF idCalls[c].kind = "createActive"
       THEN cached' = idCalls[c].id /\ ApplySideEffects(idCalls[c].id)
       ELSE UNCHANGED <<cached, shown>>
    /\ crossedOver' = Blurs(c) /\ IdGoes(c, Free) /\ UNCHANGED <<personaRows, chosen>>

\* Only the cached identity is taken out of memory, and the default shown.
ApplyDeletion(c) ==
    /\ idCalls[c].at = "apply" /\ idCalls[c].kind = "delete"
    /\ IF cached = idCalls[c].id
       THEN cached' = NoPersona /\ ApplySideEffects(DefaultPersona)
       ELSE UNCHANGED <<cached, shown>>
    /\ crossedOver' = Blurs(c) /\ IdGoes(c, Free) /\ UNCHANGED <<personaRows, chosen>>

\* get_active_identity() caches what it read, the context is not told.
ApplyRead(c) ==
    /\ idCalls[c].at = "apply" /\ idCalls[c].kind = "get"
    /\ cached' = idCalls[c].id /\ crossedOver' = Blurs(c)
    /\ IdGoes(c, Free) /\ UNCHANGED <<personaRows, shown, chosen>>

\* The bus refuses "identity.created": the row is there, nothing is applied.
PublishFails(c) ==
    /\ Created(c)
    /\ crossedOver' = TRUE /\ IdGoes(c, Free) /\ UNCHANGED <<personaRows, cached, shown, chosen>>

InvalidateCache ==
    /\ cached # NoPersona /\ cached' = NoPersona /\ crossedOver' = TRUE
    /\ UNCHANGED <<personaRows, shown, idCalls, chosen>>

\* The process starts again: requests are cut off, memory is empty.
RestartIdentities ==
    /\ cached' = NoPersona /\ shown' = NoPersona /\ idCalls' = [c \in IdentityCalls |-> Free]
    /\ crossedOver' = SeveralActive
    /\ UNCHANGED <<personaRows, chosen>>

IdentityNext ==
    \/ InvalidateCache \/ RestartIdentities
    \/ \E c \in IdentityCalls :
         \/ \E p \in Personas :
              \/ GetActiveIdentity(c, p)
              \/ \E active \in BOOLEAN : CreateIdentity(c, p, active)
              \/ \E kind \in {"activate", "delete"} : FindIdentity(c, kind, p)
         \/ WriteIdentity(c) \/ WriteFails(c) \/ PublishFails(c)
         \/ ApplyActivation(c) \/ ApplyCreation(c) \/ ApplyDeletion(c) \/ ApplyRead(c)
-----------------------------------------------------------------------------
(* Properties.                                                             *)

IdentityTypeOK ==
    /\ personaRows \in [Personas -> {"new", "idle", "active", "deleted"}]
    /\ cached \in Personas \cup {NoPersona}
    /\ shown \in Personas \cup {NoPersona, DefaultPersona}
    /\ chosen \subseteq Personas /\ crossedOver \in BOOLEAN

AtRest == \A c \in IdentityCalls : idCalls[c] = Free

\* However requests overlap, an activation puts out every other identity: only those
\* created active since then are active beside it.
ActivationIsExclusive == ActiveRows \subseteq chosen

\* One activation that crosses no other request, or a restart with a single active row,
\* repairs whatever came before: memory, brain context and row agree again, also
\* after later creations and deletions.
ServedIsStored ==
    AtRest /\ ~crossedOver =>
        /\ ~SeveralActive
        /\ cached # NoPersona => cached \in ActiveRows /\ shown \in {cached, NoPersona}
        /\ shown \in Personas => shown = cached
        /\ shown = DefaultPersona => cached = NoPersona /\ ActiveRows = {}

\* The identity the agent works under.
IdentitiesSafe == IdentityTypeOK /\ ActivationIsExclusive /\ ServedIsStored
=============================================================================
