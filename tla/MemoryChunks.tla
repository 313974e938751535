---------------------------- MODULE MemoryChunks ----------------------------
(***************************************************************************)
(* core/memory: the chunk store. MemoryService and MemoryEngine write the  *)
(* table memory_chunks through PostgresMemoryRepository; the engine keeps  *)
(* the records used last in its working memory; MemoryIndexer follows the  *)
(* events and maintains vectors and graph nodes, with retries and a dead   *)
(* letter topic. Events are delivered once (see EventBus for repetitions).  *)
(***************************************************************************)
EXTENDS Integers, FiniteSets, SequencesExt

CONSTANTS
    ChunkIds,       \* ids of chunks, given once each (uuid4)
    ChunkTexts,     \* the contents: for each the ids that may be given to it
    ChunkCalls,     \* calls of the service and the engine under way, a transaction each
    WorkingSize,    \* l1_max_items
    Indexed,        \* the chunks whose storing is announced on "memory.chunk.created": by the service
    MaxAttempts,    \* max_attempts (3 in the code)
    NoChunk         \* no chunk in hand

ASSUME ChunkAssumption ==
    /\ Indexed \subseteq ChunkIds /\ MaxAttempts \in Nat \ {0}
    /\ WorkingSize \in Nat \ {0} /\ NoChunk \notin ChunkIds
    /\ \A k \in ChunkIds : \E t \in ChunkTexts : k \in t

VARIABLES
    row,            \* memory_chunks as committed; is_deleted set by the service or dropped by the engine
    taken,          \* ids given
    chunkAt,        \* where each call is suspended
    hand,           \* the chunk it works on
    flushed,        \* what its transaction has made of the row, not committed yet
    lru,            \* lru_order
    working,        \* ids in working_memory
    created,        \* chunks whose "memory.chunk.created" is to be handled
    removed,        \* chunks whose "memory.chunk.deleted" is to be handled
    indexing,       \* where handle_chunk_created is, for each chunk
    indexTries,     \* its attempt
    processed,      \* processed_event_ids
    vector,         \* vector_records
    node,           \* graph_nodes
    deadLetters,    \* events on "memory.index.failed"
    raced,          \* history: indexed or cached during or after its deletion
    hasty           \* history: an event of it was handled before what it says was committed

callVars == <<taken, chunkAt, hand, flushed>>
cacheVars == <<lru, working>>
indexVars == <<created, removed, indexing, indexTries, processed, vector, node, deadLetters>>
pastVars == <<raced, hasty>>
chunkVars == <<row, taken, chunkAt, hand, flushed, lru, working, created, removed, indexing, indexTries,
               processed, vector, node, deadLetters, raced, hasty>>
-----------------------------------------------------------------------------
ChunkPoints == {"idle", "insert", "announce", "cache", "soft_delete", "drop", "delete", "unannounce", "commit"}

ChunksInit ==
    /\ row = [k \in ChunkIds |-> "none"] /\ taken = {}
    /\ chunkAt = [p \in ChunkCalls |-> "idle"] /\ hand = [p \in ChunkCalls |-> NoChunk]
    /\ flushed = [p \in ChunkCalls |-> "nothing"]
    /\ lru = <<>> /\ working = {}
    /\ created = {} /\ removed = {}
    /\ indexing = [k \in Indexed |-> "no"] /\ indexTries = [k \in Indexed |-> 0]
    /\ processed = {} /\ vector = {} /\ node = {} /\ deadLetters = {} /\ raced = {} /\ hasty = {}

\* get_chunk() in another session sees neither deleted rows nor what is not committed.
Live(k) == row[k] = "live"

\* The chunks with the same content_hash, k among them.
SameText(k) == UNION {t \in ChunkTexts : k \in t}

Goes(p, point, k) == chunkAt' = [chunkAt EXCEPT ![p] = point] /\ hand' = [hand EXCEPT ![p] = k]
Stays == UNCHANGED <<taken, flushed>>
Returns(p) == Goes(p, "idle", NoChunk) /\ Stays
-----------------------------------------------------------------------------
(* store() of the service and of the engine.                               *)

\* get_chunk_by_hash() finds a live row, whose access is counted; the engine
\* also makes it the record used last.
StoreKnown(p, k) ==
    /\ chunkAt[p] = "idle" /\ Live(k)
    /\ Goes(p, "cache", k) /\ Stays
    /\ UNCHANGED row /\ UNCHANGED cacheVars /\ UNCHANGED indexVars /\ UNCHANGED pastVars

\* It finds none; the new chunk is about to be inserted.
StoreUnknown(p, k) ==
    /\ chunkAt[p] = "idle" /\ k \notin taken /\ \A j \in SameText(k) : ~Live(j)
    /\ Goes(p, "insert", k) /\ taken' = taken \cup {k}
    /\ UNCHANGED <<row, flushed>> /\ UNCHANGED cacheVars /\ UNCHANGED indexVars /\ UNCHANGED pastVars

\* content_hash is unique, over deleted rows too.
Unique(k) == \A j \in SameText(k) : row[j] = "none"

\* A flush that meets what another transaction has flushed waits for its end.
Unhindered(p) ==
    \A q \in ChunkCalls \ {p} : flushed[q] # "nothing" => hand[q] \notin SameText(hand[p])

Flushes(p, state, point) ==
    /\ flushed' = [flushed EXCEPT ![p] = state] /\ Goes(p, point, hand[p])
    /\ UNCHANGED <<row, taken>> /\ UNCHANGED cacheVars /\ UNCHANGED indexVars /\ UNCHANGED pastVars

\* Mutant: the column is not unique.
CreateChunkAnyway(p) ==
    /\ chunkAt[p] = "insert"
    /\ Flushes(p, "live", "announce")

\* create_source() and create_chunk() flush; nobody else sees the row.
CreateChunk(p) ==
    /\ chunkAt[p] = "insert" /\ Unhindered(p) /\ Unique(hand[p])
    /\ Flushes(p, "live", "announce")

\* Another call was faster, or the content was deleted once: it raises.
CreateRaises(p) ==
    /\ chunkAt[p] = "insert" /\ Unhindered(p) /\ ~Unique(hand[p])
    /\ Returns(p)
    /\ UNCHANGED row /\ UNCHANGED cacheVars /\ UNCHANGED indexVars /\ UNCHANGED pastVars

\* An id is in the order once.
Without(s, k) == IF k \in Range(s) THEN RemoveAt(s, CHOOSE i \in DOMAIN s : s[i] = k) ELSE s

Evicted(s) == IF Len(s) > WorkingSize THEN SubSeq(s, Len(s) - WorkingSize + 1, Len(s)) ELSE s

\* _update_lru(): to the end of the order, the oldest go.
UpdateLru(k) ==
    LET order == Evicted(Append(Without(lru, k), k))
    IN /\ lru' = order
       /\ working' = (working \cup {k}) \cap Range(order)

\* The service publishes the event that is indexed, the engine puts the record
\* into its working memory; both before the caller commits.
AnnounceCreated(p) ==
    /\ chunkAt[p] = "announce"
    /\ IF hand[p] \in Indexed
         THEN created' = created \cup {hand[p]} /\ UNCHANGED cacheVars
         ELSE UpdateLru(hand[p]) /\ UNCHANGED created
    /\ Goes(p, "commit", hand[p]) /\ Stays
    /\ UNCHANGED <<row, removed, indexing, indexTries, processed, vector, node, deadLetters>>
    /\ UNCHANGED pastVars
-----------------------------------------------------------------------------
(* The caller's transaction.                                               *)

\* A row that is deleted stays so; a record that was cached again while it was
\* dropped stays cached.
Commit(p) ==
    /\ chunkAt[p] = "commit"
    /\ row' = [row EXCEPT ![hand[p]] = IF @ \in {"none", "live"} THEN flushed[p] ELSE @]
    /\ raced' = IF flushed[p] = "dropped" /\ hand[p] \in working THEN raced \cup {hand[p]} ELSE raced
    /\ flushed' = [flushed EXCEPT ![p] = "nothing"] /\ Goes(p, "idle", NoChunk)
    /\ UNCHANGED <<taken, hasty>> /\ UNCHANGED cacheVars /\ UNCHANGED indexVars

\* It is rolled back, or the call cut off: what was published, cached or removed
\* from working memory stays so.
RollBack(p) ==
    /\ chunkAt[p] # "idle"
    /\ flushed' = [flushed EXCEPT ![p] = "nothing"] /\ Goes(p, "idle", NoChunk)
    /\ UNCHANGED <<row, taken>> /\ UNCHANGED cacheVars /\ UNCHANGED indexVars /\ UNCHANGED pastVars
-----------------------------------------------------------------------------
(* The working memory of the engine.                                       *)

\* retrieve() finds the record in working memory, deleted or not; update() then
\* writes the row, unless it is gone or another call has raised its version.
UseCached(p, k) ==
    /\ chunkAt[p] = "idle" /\ k \in working
    /\ UpdateLru(k)
    /\ UNCHANGED <<chunkAt, hand>> \/ (Live(k) /\ Goes(p, "cache", k))
    /\ Stays /\ UNCHANGED row /\ UNCHANGED indexVars /\ UNCHANGED pastVars

\* It reads the row.
RetrieveRow(p, k) ==
    /\ chunkAt[p] = "idle" /\ k \notin working /\ Live(k)
    /\ Goes(p, "cache", k) /\ Stays
    /\ UNCHANGED row /\ UNCHANGED cacheVars /\ UNCHANGED indexVars /\ UNCHANGED pastVars

\* The record as it was read becomes the one used last.
CacheRecord(p) ==
    /\ chunkAt[p] = "cache"
    /\ UpdateLru(hand[p]) /\ Returns(p)
    /\ raced' = IF Live(hand[p]) THEN raced ELSE raced \cup {hand[p]}
    /\ UNCHANGED <<row, hasty>> /\ UNCHANGED indexVars

\* delete() of the engine: out of working memory first.
DeleteCached(p, k) ==
    /\ chunkAt[p] = "idle"
    /\ working' = working \ {k} /\ lru' = Without(lru, k)
    /\ Goes(p, "soft_delete", k) /\ Stays
    /\ UNCHANGED row /\ UNCHANGED indexVars /\ UNCHANGED pastVars
-----------------------------------------------------------------------------
(* delete() of the service, and what follows for both.                     *)

\* soft_delete_chunk() finds the row, for the service ...
DeleteNode(p, k) ==
    /\ chunkAt[p] = "idle" /\ Live(k)
    /\ Goes(p, "delete", k) /\ Stays
    /\ UNCHANGED row /\ UNCHANGED cacheVars /\ UNCHANGED indexVars /\ UNCHANGED pastVars

\* ... and for the engine.
DropRow(p) ==
    /\ chunkAt[p] = "soft_delete"
    /\ IF Live(hand[p]) THEN Goes(p, "drop", hand[p]) /\ Stays ELSE Returns(p)
    /\ UNCHANGED row /\ UNCHANGED cacheVars /\ UNCHANGED indexVars /\ UNCHANGED pastVars

\* It flushes is_deleted, whatever has become of the row since.
SoftDelete(p) ==
    /\ chunkAt[p] \in {"delete", "drop"} /\ Unhindered(p)
    /\ IF chunkAt[p] = "delete" THEN Flushes(p, "deleted", "unannounce") ELSE Flushes(p, "dropped", "commit")

\* The service publishes the event that removes the vector.
AnnounceDeleted(p) ==
    /\ chunkAt[p] = "unannounce"
    /\ removed' = removed \cup {hand[p]}
    /\ Goes(p, "commit", hand[p]) /\ Stays
    /\ UNCHANGED <<row, created, indexing, indexTries, processed, vector, node, deadLetters>>
    /\ UNCHANGED cacheVars /\ UNCHANGED pastVars
-----------------------------------------------------------------------------
(* The indexer.                                                            *)

Unindexed == UNCHANGED row /\ UNCHANGED callVars /\ UNCHANGED cacheVars

\* handle_chunk_created() begins.
HandleCreated(k) ==
    /\ k \in created
    /\ created' = created \ {k}
    /\ indexing' = [indexing EXCEPT ![k] = "read"] /\ indexTries' = [indexTries EXCEPT ![k] = 1]
    /\ UNCHANGED <<removed, processed, vector, node, deadLetters, raced, hasty>> /\ Unindexed

Handled(k, ok) ==
    /\ indexing' = [indexing EXCEPT ![k] = "no"] /\ indexTries' = [indexTries EXCEPT ![k] = 0]
    /\ processed' = IF ok THEN processed \cup {k} ELSE processed
    /\ deadLetters' = IF ok THEN deadLetters ELSE deadLetters \cup {k}

\* The row is read; a deleted chunk needs no index, one that is not committed yet
\* is taken for deleted.
IndexReads(k) ==
    /\ indexing[k] = "read"
    /\ IF Live(k)
         THEN /\ indexing' = [indexing EXCEPT ![k] = "vector"]
              /\ UNCHANGED <<indexTries, processed, deadLetters>>
         ELSE Handled(k, TRUE)
    /\ hasty' = IF row[k] = "none" THEN hasty \cup {k} ELSE hasty
    /\ UNCHANGED <<created, removed, vector, node, raced>> /\ Unindexed

\* A deletion is announced and not committed.
Leaving(k) == \E p \in ChunkCalls : hand[p] = k /\ flushed[p] = "deleted" /\ chunkAt[p] = "commit"

\* The embedding is there and the vector is written, whatever the row is now.
IndexVector(k) ==
    /\ indexing[k] = "vector"
    /\ indexing' = [indexing EXCEPT ![k] = "node"]
    /\ vector' = vector \cup {k}
    /\ raced' = IF Live(k) /\ ~Leaving(k) THEN raced ELSE raced \cup {k}
    /\ UNCHANGED <<created, removed, indexTries, processed, node, deadLetters, hasty>> /\ Unindexed

\* create_node(): the primary key admits it once.
IndexNode(k) ==
    /\ indexing[k] = "node" /\ k \notin node
    /\ node' = node \cup {k}
    /\ Handled(k, TRUE)
    /\ UNCHANGED <<created, removed, vector, raced, hasty>> /\ Unindexed

\* Reading, embedding or writing fails: again from the start, or a dead letter.
IndexAttemptFails(k) ==
    /\ indexing[k] # "no"
    /\ IF indexTries[k] < MaxAttempts
         THEN /\ indexing' = [indexing EXCEPT ![k] = "read"]
              /\ indexTries' = [indexTries EXCEPT ![k] = @ + 1]
              /\ UNCHANGED <<processed, deadLetters>>
         ELSE Handled(k, FALSE)
    /\ UNCHANGED <<created, removed, vector, node, raced, hasty>> /\ Unindexed

\* handle_chunk_deleted(): the vector goes, the graph node stays, also when the
\* deletion will be rolled back.
HandleDeleted(k) ==
    /\ k \in removed
    /\ removed' = removed \ {k} /\ vector' = vector \ {k}
    /\ hasty' = IF Live(k) THEN hasty \cup {k} ELSE hasty
    /\ UNCHANGED <<created, indexing, indexTries, processed, node, deadLetters, raced>> /\ Unindexed

ChunksNext ==
    \/ \E p \in ChunkCalls :
         \/ CreateChunk(p) \/ CreateRaises(p) \/ AnnounceCreated(p) \/ CacheRecord(p)
         \/ DropRow(p) \/ SoftDelete(p) \/ AnnounceDeleted(p) \/ Commit(p) \/ RollBack(p)
         \/ \E k \in ChunkIds :
              \/ StoreKnown(p, k) \/ StoreUnknown(p, k) \/ UseCached(p, k) \/ RetrieveRow(p, k)
              \/ DeleteCached(p, k) \/ DeleteNode(p, k)
    \/ \E k \in Indexed :
         \/ HandleCreated(k) \/ IndexReads(k) \/ IndexVector(k) \/ IndexNode(k)
         \/ IndexAttemptFails(k)
    \/ \E k \in ChunkIds : HandleDeleted(k)
-----------------------------------------------------------------------------
(* Properties.                                                             *)

ChunksTypeOK ==
    /\ row \in [ChunkIds -> {"none", "live", "deleted", "dropped"}]
    /\ flushed \in [ChunkCalls -> {"nothing", "live", "deleted", "dropped"}] /\ taken \subseteq ChunkIds
    /\ chunkAt \in [ChunkCalls -> ChunkPoints] /\ hand \in [ChunkCalls -> ChunkIds \cup {NoChunk}]
    /\ working \subseteq ChunkIds /\ created \subseteq Indexed
    /\ indexing \in [Indexed -> {"no", "read", "vector", "node"}]
    /\ indexTries \in [Indexed -> 0 .. MaxAttempts]

\* A content is stored once, however many calls miss it at the same time.
OneChunkPerHash ==
    \A t \in ChunkTexts : \A j, k \in t \cap ChunkIds : row[j] # "none" /\ row[k] # "none" => j = k

\* The order and the index of the working memory agree and stay within bounds.
WorkingMemoryFits ==
    /\ Len(lru) <= WorkingSize
    /\ working = Range(lru) /\ Cardinality(working) = Len(lru)

\* Once the service has deleted a chunk and its event was handled no vector is
\* left, and once the engine has, it is not served from working memory, unless it
\* was indexed or read while it was being deleted.
DeletedIsGone ==
    \A k \in ChunkIds \ raced :
        /\ row[k] = "deleted" /\ k \notin removed => k \notin vector
        /\ row[k] = "dropped" => k \notin working

\* An event counts as processed only when the chunk has its node and its vector
\* or was deleted, unless the event of its creation or of a deletion that was rolled
\* back was handled before its transaction had ended; the others are handled again
\* or are dead letters.
IndexedMeansIndexed ==
    \A k \in processed \ hasty : Live(k) => k \in node /\ k \in vector

\* The chunk store.
MemoryChunksSafe ==
    ChunksTypeOK /\ OneChunkPerHash /\ WorkingMemoryFits /\ DeletedIsGone /\ IndexedMeansIndexed
=============================================================================
