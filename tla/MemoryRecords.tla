---------------------------- MODULE MemoryRecords ----------------------------
(***************************************************************************)
(* core/memory: the memory orchestrator on its in-memory repository, with  *)
(* the vector index, the retrieval and scoring engines and the retention   *)
(* cycle, as the kernel wires them and the REST routes call them.          *)
(*                                                                         *)
(* Repository and vector store never suspend: reading a record and writing *)
(* it back under its version is one step, and the version always matches.  *)
(* Calls are suspended while a text is embedded and while an event is      *)
(* published. store() never sets provenance.workflow_id or agent_id, so    *)
(* evaluate_promotions() and the cascades of forget() find no record.      *)
(***************************************************************************)
EXTENDS Integers, FiniteSets

CONSTANTS
    Memories,       \* memory_id
    Texts,       \* content, and its hash
    Pinned,         \* memories that are stored with metadata pinned
    Shared,         \* memories that are stored with a visibility for all
    NoMemory,       \* no record, no entry in _hash_index
    MaxAccess       \* bound: access_count is counted up to here

ASSUME MemoryAssumption ==
    /\ NoMemory \notin Memories /\ MaxAccess \in Nat \ {0}
    /\ Pinned \subseteq Memories /\ Shared \subseteq Memories

VARIABLES
    records,        \* InMemoryRecordRepository._records
    hashIndex,      \* InMemoryRecordRepository._hash_index
    vectors,        \* InMemoryVectorRepository.vectors
    embedding,      \* store() calls that wait for the embedding of their record
    batch,          \* what a retention cycle has decided and not done yet
    touched,        \* history: records another call changed since it decided
    recalled        \* what the last recall() gave to the scoring engine

recordVars == <<records, hashIndex, vectors, embedding, batch, touched, recalled>>
-----------------------------------------------------------------------------
Tiers == {"working", "conversation", "long_term", "archived"}

\* _PROMOTION_TRANSITIONS
Chain == {<<"working", "conversation">>, <<"conversation", "long_term">>,
          <<"long_term", "archived">>}

\* MemoryRecord. confidence: 0, or enough to keep the score up; expires is expires_at: unset, the year 2000 of delete() or the year 9999 of
\* archive(); recent: updated_at is within the time to live of the tier.
Records ==
    [content : Texts, tier : Tiers, expires : {"none", "2000", "9999"},
     recent : BOOLEAN, access : 0 .. MaxAccess, confidence : 0 .. 1]

RecordsInit ==
    /\ records = [m \in Memories |-> NoMemory]
    /\ hashIndex = [c \in Texts |-> NoMemory]
    /\ vectors = {} /\ embedding = {} /\ batch = {} /\ touched = {} /\ recalled = {}

\* get_by_id(): a deleted record is still found.
Found(m) == records[m] # NoMemory

\* update(), delete() and archive(): updated_at is now.
Written(m, r) == records' = [records EXCEPT ![m] = [r EXCEPT !.recent = TRUE]]

Touch(m) == touched' = IF \E a \in {"archive", "forget"} : <<m, a>> \in batch THEN touched \cup {m} ELSE touched
-----------------------------------------------------------------------------
(* store(), reflect(), forget(), archive() and promote().                  *)

CountUp(n) == IF n < MaxAccess THEN n + 1 ELSE n

\* The content is known: its record is read again, also a deleted one.
StoreAgain(c) ==
    /\ hashIndex[c] # NoMemory
    /\ LET m == hashIndex[c]
       IN /\ Written(m, [records[m] EXCEPT !.access = CountUp(@)])
          /\ Touch(m)
    /\ UNCHANGED <<hashIndex, vectors, embedding, batch, recalled>>

NewRecord(c) ==
    [content |-> c, tier |-> "working", expires |-> "none", recent |-> TRUE, access |-> 0,
     confidence |-> 1]

\* Mutant: the index is not looked up.
StoreUnseen(m, c) ==
    /\ ~Found(m)
    /\ records' = [records EXCEPT ![m] = NewRecord(c)]
    /\ hashIndex' = [hashIndex EXCEPT ![c] = m]
    /\ embedding' = embedding \cup {m}
    /\ UNCHANGED <<vectors, batch, touched, recalled>>

\* A new record in the working tier; its embedding is under way.
StoreNew(m, c) ==
    /\ hashIndex[c] = NoMemory /\ ~Found(m)
    /\ records' = [records EXCEPT ![m] = NewRecord(c)]
    /\ hashIndex' = [hashIndex EXCEPT ![c] = m]
    /\ embedding' = embedding \cup {m}
    /\ UNCHANGED <<vectors, batch, touched, recalled>>

\* The vector is added, whatever has become of the record meanwhile.
IndexMemory(m) ==
    /\ m \in embedding
    /\ embedding' = embedding \ {m}
    /\ vectors' = vectors \cup {m}
    /\ UNCHANGED <<records, hashIndex, batch, touched, recalled>>

\* The embedding times out; the memory stays without a vector.
IndexFails(m) ==
    /\ m \in embedding
    /\ embedding' = embedding \ {m}
    /\ UNCHANGED <<records, hashIndex, vectors, batch, touched, recalled>>

\* reflect(): confidence goes up or down and stays between 0 and 1; a timeout
\* costs importance, which the model leaves out.
ReflectMemory(m) ==
    /\ Found(m)
    /\ \E n \in 0 .. 1 : Written(m, [records[m] EXCEPT !.confidence = n])
    /\ Touch(m)
    /\ UNCHANGED <<hashIndex, vectors, embedding, batch, recalled>>

\* A soft delete; the vector goes if it is there already.
Forgotten(m) ==
    /\ Written(m, [records[m] EXCEPT !.expires = "2000"])
    /\ vectors' = vectors \ {m}

\* Also brings a deleted record back.
Archived(m) ==
    /\ Written(m, [records[m] EXCEPT !.expires = "9999"])
    /\ UNCHANGED vectors

ForgetMemory(m) ==
    /\ Found(m) /\ Forgotten(m) /\ Touch(m)
    /\ UNCHANGED <<hashIndex, embedding, batch, recalled>>

ArchiveMemory(m) ==
    /\ Found(m) /\ Archived(m) /\ Touch(m)
    /\ UNCHANGED <<hashIndex, embedding, batch, recalled>>

\* validate_tier_transition()
Allowed(from, to) == <<from, to>> \in Chain

\* promote() to the same tier changes nothing; archive() left the tier alone.
PromoteMemory(m, t) ==
    /\ Found(m) /\ Allowed(records[m].tier, t)
    /\ Written(m, [records[m] EXCEPT !.tier = t])
    /\ Touch(m)
    /\ UNCHANGED <<hashIndex, vectors, embedding, batch, recalled>>
-----------------------------------------------------------------------------
(* The retention cycle.                                                    *)

\* The time to live of the record's tier passes.
GrowsStale(m) ==
    /\ Found(m) /\ records[m].recent
    /\ records' = [records EXCEPT ![m].recent = FALSE]
    /\ UNCHANGED <<hashIndex, vectors, embedding, batch, touched, recalled>>

\* A score below l3_decay_threshold: the pin alone is worth more than that, and
\* so is full confidence.
Decayed(m) == m \notin Pinned /\ ~records[m].recent /\ records[m].confidence = 0

\* After a day a score reaches l2_promotion_threshold only with the pin.
Promotable(m) == m \in Pinned /\ records[m].access >= 2

\* evaluate_forgetting() for one record.
Decision(m) ==
    LET tier == records[m].tier
        due == ~records[m].recent
    IN CASE tier \in {"working", "archived"} /\ due -> "forget"
         [] tier = "conversation" /\ due /\ ~Promotable(m) -> "forget"
         [] tier = "long_term" /\ Decayed(m) -> "archive"
         [] OTHER -> "keep"

\* list_records(include_archived=True)
Listed == {m \in Memories : Found(m) /\ records[m].expires # "2000"}

\* evaluate_all(); the batch is carried out after an event was published.
EvaluateAll ==
    /\ batch = {}
    /\ batch' = {<<m, Decision(m)>> : m \in {n \in Listed : Decision(n) # "keep"}}
    /\ UNCHANGED <<records, hashIndex, vectors, embedding, touched, recalled>>

\* One action of the batch, on the record as it is by now; nothing is decided
\* again.
CarryOut(m, a) ==
    /\ <<m, a>> \in batch
    /\ batch' = batch \ {<<m, a>>}
    /\ IF a = "archive" THEN Archived(m) ELSE Forgotten(m)
    /\ touched' = touched \ {m}
    /\ UNCHANGED <<hashIndex, embedding, recalled>>
-----------------------------------------------------------------------------
(* recall().                                                               *)

\* filter_by_permission(): nobody passes an owner, so only shared records.
Permitted(m) == Found(m) /\ m \in Shared

\* RetrievalEngine._infer_tier(), which does not know the tier of the metadata.
InferredArchived(m) == records[m].expires = "9999"

\* The candidates of the vector index that are left for scoring.
Candidates == {m \in vectors : Permitted(m) /\ ~InferredArchived(m) /\ records[m].expires # "2000"}

\* retrieve() ranks the candidates by a clock without time zone, while
\* updated_at has one: with a candidate the call raises. It changes nothing.
Recall ==
    /\ recalled' = Candidates
    /\ UNCHANGED <<records, hashIndex, vectors, embedding, batch, touched>>

RecordsNext ==
    \/ \E c \in Texts : StoreAgain(c) \/ \E m \in Memories : StoreNew(m, c)
    \/ \E m \in Memories :
         \/ IndexMemory(m) \/ IndexFails(m) \/ ReflectMemory(m) \/ ForgetMemory(m)
         \/ ArchiveMemory(m) \/ GrowsStale(m)
         \/ \E t \in Tiers : PromoteMemory(m, t)
         \/ \E a \in {"archive", "forget"} : CarryOut(m, a)
    \/ EvaluateAll \/ Recall
-----------------------------------------------------------------------------
(* Properties.                                                             *)

RecordsTypeOK ==
    /\ records \in [Memories -> Records \cup {NoMemory}]
    /\ hashIndex \in [Texts -> Memories \cup {NoMemory}]
    /\ vectors \subseteq Memories /\ embedding \subseteq Memories /\ recalled \subseteq Memories
    /\ batch \subseteq Memories \X {"archive", "forget"} /\ touched \subseteq Memories

\* A content has one record, however many calls store it at once, and the hash
\* index leads to it.
OneRecordPerContent ==
    \A m \in Memories : Found(m) => hashIndex[records[m].content] = m

\* Every vector belongs to a record; nothing without a vector is recalled.
VectorsHaveRecords == \A m \in vectors \cup embedding : Found(m)

\* A tier is left only for the next one: a promotion that was decided while
\* other calls moved the record is checked against the tier it has by now.
TiersMoveUp ==
    [][\A m \in Memories : Found(m) /\ records'[m].tier # records[m].tier =>
         <<records[m].tier, records'[m].tier>> \in Chain]_recordVars

\* What the retention cycle does to a record is still due, unless another call
\* changed the record after the cycle had decided.
RetentionIsDue ==
    [][\A m \in Memories, a \in {"archive", "forget"} :
         <<m, a>> \in batch /\ <<m, a>> \notin batch' /\ m \notin touched
            => Decision(m) = a]_recordVars

\* The cycle deletes no long-term memory it found in that tier, and a memory is
\* deleted by the cycle only from a tier with a time to live.
LongTermIsArchived ==
    [][\A m \in Memories : Found(m) /\ batch' # batch /\ m \notin touched
            /\ records[m].tier = "long_term" /\ records[m].expires # "2000"
         => records'[m].expires # "2000"]_recordVars

\* A forgotten memory is not recalled, even when its vector was added after it
\* was forgotten; only archive() brings it back.
ForgottenIsGone ==
    [][/\ recalled' # recalled => \A m \in recalled' : records[m].expires = "none"
       /\ \A m \in Memories : Found(m) /\ records[m].expires = "2000"
            => records'[m].expires \in {"2000", "9999"}]_recordVars

\* The memory orchestrator in every state, and in every step.
RecordsInv == RecordsTypeOK /\ OneRecordPerContent /\ VectorsHaveRecords
RecordsSteps == TiersMoveUp /\ RetentionIsDue /\ LongTermIsArchived /\ ForgottenIsGone
=============================================================================
