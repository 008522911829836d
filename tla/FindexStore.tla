----------------------------- MODULE FindexStore -----------------------------
(***************************************************************************)
(* The native index store (findex/native/findex_store.c): a table of       *)
(* directory records that grows by whole segments, one immutable block per *)
(* published directory, and the completion journal.  NIF calls run on      *)
(* dirty scheduler threads and take store->lock for short sections only,   *)
(* so a call that drops the lock half way interleaves with all the others. *)
(* One action is one critical section, or one system call made outside it. *)
(***************************************************************************)
EXTENDS Integers, Sequences, FiniteSets, Functions

CONSTANTS Threads,            \* dirty scheduler threads inside a NIF of the store
          Readers,            \* pollers of completed_since, each with its cursor
          MaxId,              \* UINT32_MAX, which is also NO_DIRECTORY_ID
          SegmentSize,        \* DIRECTORY_RECORDS_PER_SEGMENT
          JournalChunk,       \* first completion_capacity (1024 in the code)
          Batches,            \* directory contents a caller may hand over
          Limits,             \* page sizes passed to completed_since
          NULL                \* no block

Kinds == {"directory", "other", "failed"}   \* a row; "failed": metadata error, name not assured
States == {"pending", "published", "failed"}
Batch == [types : Seq(Kinds), rows : Seq(Nat)]

ASSUME MaxIdAssumption == MaxId \in Nat \ {0}
ASSUME SegmentSizeAssumption == SegmentSize \in Nat \ {0}
ASSUME JournalChunkAssumption == JournalChunk \in Nat \ {0}
ASSUME BatchesAssumption == Batches \subseteq Batch
ASSUME LimitsAssumption == Limits \subseteq Nat \ {0}
ASSUME NULLAssumption == NULL \notin [types : Seq(Kinds), rows : Seq(Nat), first_child_id : 0 .. MaxId]

ROOT_DIRECTORY_ID == 0
NO_DIRECTORY_ID == MaxId
Ids == 0 .. MaxId - 1
Block == [types : Seq(Kinds), rows : Seq(Nat), first_child_id : 0 .. MaxId]

VARIABLES
    directory_count,      \* ids handed out so far: 0 .. directory_count - 1
    records,              \* their records
    segment_count,        \* segments allocated
    published_count,      \* published_directory_count
    failed_count,         \* failed_directory_count
    entry_count,          \* rows of all published blocks
    completion_journal,   \* completed ids; completion_count is its length
    completion_capacity,  \* entries the journal's allocation can hold
    root_open,            \* root_fd >= 0
    descriptors,          \* directory descriptors the process holds for this store
    call,                 \* [Threads -> the NIF call in progress]
    cursor,               \* [Readers -> next_cursor of the last page]
    page,                 \* [Readers -> result_count while completed_since runs, or -1]
    delivered             \* [Readers -> ids received since cursor 0] (history)

table == <<directory_count, records, segment_count, published_count, failed_count, entry_count,
           completion_journal, completion_capacity>>
reading == <<cursor, page, delivered>>
vars == <<table, root_open, descriptors, call, reading>>

completion_count == Len(completion_journal)
pending_count == directory_count - published_count - failed_count
IsDirectory(id) == id < directory_count          \* directory_record_locked # NULL

Record == [parent_id : 0 .. MaxId, parent_entry_index : Nat,
           state : States, block : Block \cup {NULL}]
NewRecord(parent, row) ==
    [parent_id |-> parent, parent_entry_index |-> row, state |-> "pending", block |-> NULL]

CompletedRecord(record, state, block) ==
    [parent_id |-> record.parent_id, parent_entry_index |-> record.parent_entry_index,
     state |-> state, block |-> block]

\* A call in progress: its stage, the directory it is about, the components
\* still to open, the directory its descriptor denotes, the block it holds.
Doing(stage, id, at, held) ==
    [stage |-> stage, id |-> id, components |-> <<>>, at |-> at, held |-> held]
Walking(id, components, at) ==
    [stage |-> "walking", id |-> id, components |-> components, at |-> at, held |-> NULL]
Idle == Doing("idle", ROOT_DIRECTORY_ID, NO_DIRECTORY_ID, NULL)
-----------------------------------------------------------------------------
\* An operator whose name ends in Bug is a slip that could be made in the
\* operator below it; no specification uses it.

\* validate_directory_block: every child row is a subdirectory row of the
\* batch (rows count from 1 here) and none is listed twice.
ValidBlock(batch) ==
    /\ \A i \in DOMAIN batch.rows :
          /\ batch.rows[i] \in DOMAIN batch.types
          /\ batch.types[batch.rows[i]] = "directory"
    /\ \A i, j \in DOMAIN batch.rows : batch.rows[i] = batch.rows[j] => i = j

\* A scan collects its child rows in the order it meets them.
InRowOrder(batch) == \A i, j \in DOMAIN batch.rows : i < j => batch.rows[i] < batch.rows[j]

\* The block as built: its children have no ids yet.
BuiltBlock(batch) ==
    [types |-> batch.types, rows |-> batch.rows, first_child_id |-> NO_DIRECTORY_ID]

\* A block gets the id of its first child when it is published; a childless one
\* keeps NO_DIRECTORY_ID.
NumberedBlock(built, first) ==
    [types |-> built.types, rows |-> built.rows,
     first_child_id |-> IF built.rows = <<>> THEN built.first_child_id ELSE first]

\* block_reference on the name column: the row exists and is not an error row.
HasName(block, row) == row \in DOMAIN block.types /\ block.types[row] # "failed"

SegmentsFor(count) == (count + SegmentSize - 1) \div SegmentSize

EnsureDirectoryCapacityBug(required, ok) ==
    \/ /\ ok
       /\ required <= MaxId + 1
       /\ segment_count' = IF segment_count < SegmentsFor(required)
                             THEN SegmentsFor(required) ELSE segment_count
    \/ /\ ~ok
       /\ required > MaxId + 1
       /\ UNCHANGED segment_count

\* ensure_directory_capacity_locked: refuses ids past UINT32_MAX, and keeps the
\* segments it got when a later allocation fails.
EnsureDirectoryCapacity(required, ok) ==
    \/ /\ ok
       /\ required <= MaxId
       /\ segment_count' = IF segment_count < SegmentsFor(required)
                             THEN SegmentsFor(required) ELSE segment_count
    \/ /\ ~ok
       /\ required > MaxId
       /\ UNCHANGED segment_count
    \/ /\ ~ok
       /\ required <= MaxId
       /\ segment_count' \in segment_count .. SegmentsFor(required) - 1

\* ensure_completion_capacity_locked for one more completion: the doubling loop
\* runs at most once, because the journal is never longer than its capacity.
EnsureCompletionCapacity(ok) ==
    \/ /\ ok
       /\ completion_count < completion_capacity
       /\ UNCHANGED completion_capacity
    \/ /\ ok
       /\ completion_count >= completion_capacity
       /\ completion_capacity' = IF completion_capacity = 0
                                   THEN JournalChunk ELSE 2 * completion_capacity
    \/ /\ ~ok
       /\ completion_count >= completion_capacity
       /\ UNCHANGED completion_capacity

\* What the two loops of open_store_directory_fd climb: from a directory, through
\* parents of ever smaller ids, to a child of the root; empty for the root.
IsChain(chain, id) ==
    /\ id = ROOT_DIRECTORY_ID <=> chain = <<>>
    /\ chain # <<>> => chain[1] = id
    /\ \A k \in DOMAIN chain :
          /\ chain[k] \in DOMAIN records \ {ROOT_DIRECTORY_ID}
          /\ records[chain[k]].parent_id < chain[k]
          /\ records[chain[k]].parent_id = IF k = Len(chain) THEN ROOT_DIRECTORY_ID ELSE chain[k + 1]

Chains == UNION {[1 .. n -> Ids] : n \in 0 .. MaxId - 1}
HasChain(id) == \E chain \in Chains : IsChain(chain, id)

ComponentsBug(id) ==
    LET chain == CHOOSE chain \in Chains : IsChain(chain, id)
    IN [k \in DOMAIN chain |-> chain[Len(chain) + 1 - k]]

\* The components to open, in the order collected: the directory itself first.
Components(id) == CHOOSE chain \in Chains : IsChain(chain, id)

\* A component's name is a row of the parent's block.
NameKnown(id) ==
    LET parent == records[records[id].parent_id]
    IN parent.block # NULL /\ HasName(parent.block, records[id].parent_entry_index)

CompletableBug(id) == IsDirectory(id)

\* The test publish and fail share: the directory exists and is still pending.
Completable(id) == IsDirectory(id) /\ records[id].state = "pending"

JournalWithBug(id) == <<id>> \o completion_journal

\* The journal after a completion.
JournalWith(id) == Append(completion_journal, id)

ChildRecordBug(parent, block, k) == NewRecord(parent, k)

\* The record of a block's k-th child: pending, named by the row the k-th child
\* entry index points at.
ChildRecord(parent, block, k) == NewRecord(parent, block.rows[k])
-----------------------------------------------------------------------------
Init ==
    /\ directory_count = 1
    /\ records = [id \in {ROOT_DIRECTORY_ID} |-> NewRecord(NO_DIRECTORY_ID, NO_DIRECTORY_ID)]
    /\ segment_count = 1
    /\ published_count = 0 /\ failed_count = 0 /\ entry_count = 0
    /\ completion_journal = <<>> /\ completion_capacity = 0
    /\ root_open \in BOOLEAN
    /\ descriptors = IF root_open THEN 1 ELSE 0
    /\ call = [t \in Threads |-> Idle]
    /\ cursor = [r \in Readers |-> 0]
    /\ page = [r \in Readers |-> -1]
    /\ delivered = [r \in Readers |-> <<>>]

Finish(t) == call' = [call EXCEPT ![t] = Idle]

\* scan_and_publish opens the path it was given, before it looks at the store:
\* the path opens, or is too long or crosses a symlink (the descriptor walk is
\* tried instead), or the call ends with the error.
OpenPath(t, id) ==
    /\ call[t].stage = "idle"
    /\ \/ /\ call' = [call EXCEPT ![t] = Doing("opened", id, id, NULL)]
          /\ descriptors' = descriptors + 1
       \/ /\ call' = [call EXCEPT ![t] = Doing("fallback", id, NO_DIRECTORY_ID, NULL)]
          /\ UNCHANGED descriptors
    /\ UNCHANGED <<table, root_open, reading>>

\* open_store_directory_fd under the lock: the id must exist, the root must
\* still be open, the names of the whole chain are borrowed from the blocks and
\* the root descriptor is duplicated.
StartWalk(t) ==
    /\ call[t].stage = "fallback"
    /\ IsDirectory(call[t].id) /\ root_open
    /\ HasChain(call[t].id)
    /\ \A k \in DOMAIN Components(call[t].id) : NameKnown(Components(call[t].id)[k])
    /\ call' = [call EXCEPT ![t] =
                  Walking(call[t].id, Components(call[t].id), ROOT_DIRECTORY_ID)]
    /\ descriptors' = descriptors + 1
    /\ UNCHANGED <<table, root_open, reading>>

\* Unknown directory, closed root, broken tree, or dup failed: nothing is held.
RefuseWalk(t) ==
    /\ call[t].stage = "fallback"
    /\ Finish(t)
    /\ UNCHANGED <<table, root_open, descriptors, reading>>

\* openat failed: the descriptor walked so far is closed.
AbandonWalk(t) == Finish(t) /\ descriptors' = descriptors - 1

\* One openat of the walk, from the component nearest the root: the child is
\* opened under the current descriptor, then that one is closed.  The names
\* are still those in the blocks although the lock is long gone.
OpenComponent(t) ==
    LET c == call[t]
        next == c.components[Len(c.components)]
    IN /\ c.stage = "walking" /\ c.components # <<>>
       /\ \/ /\ call' = [call EXCEPT ![t] =
                   Walking(c.id, SubSeq(c.components, 1, Len(c.components) - 1),
                           IF records[next].parent_id = c.at THEN next ELSE NO_DIRECTORY_ID)]
             /\ UNCHANGED descriptors
          \/ AbandonWalk(t)
       /\ UNCHANGED <<table, root_open, reading>>

WalkDone(t) ==
    /\ call[t].stage = "walking" /\ call[t].components = <<>>
    /\ call' = [call EXCEPT ![t] = Doing("opened", call[t].id, call[t].at, NULL)]
    /\ UNCHANGED <<table, root_open, descriptors, reading>>

\* findex_scan_directory_fd and the block built from it; the descriptor is
\* closed whether the read worked or not.  A cursor from
\* index_store_open_directory is read and closed the same way.
ReadDirectory(t, batch) ==
    /\ call[t].stage = "opened"
    /\ \/ /\ ValidBlock(batch) /\ InRowOrder(batch)
          /\ call' = [call EXCEPT ![t] =
                        Doing("built", call[t].id, NO_DIRECTORY_ID, BuiltBlock(batch))]
       \/ Finish(t)
    /\ descriptors' = descriptors - 1
    /\ UNCHANGED <<table, root_open, reading>>

\* index_store_publish builds the block from the caller's batch and child
\* rows; what does not validate is refused as invalid_block.
BuildBlock(t, id, batch) ==
    /\ call[t].stage = "idle"
    /\ ValidBlock(batch)
    /\ call' = [call EXCEPT ![t] =
                  Doing("built", id, NO_DIRECTORY_ID, BuiltBlock(batch))]
    /\ UNCHANGED <<table, root_open, descriptors, reading>>

\* publish_directory_block, its two early returns: the directory is unknown or
\* has completed already.
PublishRefused(t) ==
    /\ call[t].stage = "built"
    /\ ~Completable(call[t].id)
    /\ Finish(t)
    /\ UNCHANGED <<table, root_open, descriptors, reading>>

PublishOutOfMemoryBug(t) ==
    LET required == directory_count + Len(call[t].held.rows)
    IN /\ call[t].stage = "built"
       /\ Completable(call[t].id)
       /\ EnsureDirectoryCapacity(required, TRUE) /\ EnsureCompletionCapacity(FALSE)
       /\ records' = [records EXCEPT ![call[t].id].block = call[t].held]
       /\ Finish(t)
       /\ UNCHANGED <<directory_count, published_count, failed_count, entry_count,
                      completion_journal, root_open, descriptors, reading>>

\* publish_directory_block without memory or ids for the children: capacity
\* may have grown, the logical state has not changed.
PublishOutOfMemory(t) ==
    LET required == directory_count + Len(call[t].held.rows)
    IN /\ call[t].stage = "built"
       /\ Completable(call[t].id)
       /\ \/ EnsureDirectoryCapacity(required, FALSE) /\ UNCHANGED completion_capacity
          \/ EnsureDirectoryCapacity(required, TRUE) /\ EnsureCompletionCapacity(FALSE)
       /\ Finish(t)
       /\ UNCHANGED <<directory_count, records, published_count, failed_count, entry_count,
                      completion_journal, root_open, descriptors, reading>>

\* publish_directory_block: consecutive ids for the children, then the block,
\* the terminal state, the counts and the journal entry in one section.
PublishBlock(t) ==
    LET id == call[t].id
        built == call[t].held
        first == directory_count
        children == first .. first + Len(built.rows) - 1
    IN /\ call[t].stage = "built"
       /\ Completable(id)
       /\ EnsureDirectoryCapacity(first + Len(built.rows), TRUE)
       /\ EnsureCompletionCapacity(TRUE)
       /\ records' = [i \in DOMAIN records \cup children |->
                        IF i \in children THEN ChildRecord(id, built, i - first + 1)
                        ELSE IF i = id THEN CompletedRecord(records[id], "published", NumberedBlock(built, first))
                        ELSE records[i]]
       /\ directory_count' = first + Len(built.rows)
       /\ published_count' = published_count + 1
       /\ entry_count' = entry_count + Len(built.types)
       /\ completion_journal' = JournalWith(id)
       /\ Finish(t)
       /\ UNCHANGED <<failed_count, root_open, descriptors, reading>>

\* index_store_fail: same test as publish, no children, same journal.  When it
\* is refused or runs out of memory it changes nothing.
Fail(t, id) ==
    /\ call[t].stage = "idle"
    /\ Completable(id)
    /\ EnsureCompletionCapacity(TRUE)
    /\ records' = [records EXCEPT ![id] = CompletedRecord(records[id], "failed", NULL)]
    /\ failed_count' = failed_count + 1
    /\ completion_journal' = JournalWith(id)
    /\ UNCHANGED <<directory_count, segment_count, published_count, entry_count, root_open,
                   descriptors, call, reading>>

\* index_store_fetch copies the record under the lock and dereferences the
\* block after it: the call holds the block pointer in between.
FetchSnapshot(t, id) ==
    /\ call[t].stage = "idle"
    /\ IsDirectory(id)
    /\ call' = [call EXCEPT ![t] = Doing("fetching", id, NO_DIRECTORY_ID, records[id].block)]
    /\ UNCHANGED <<table, root_open, descriptors, reading>>

FetchReturn(t) ==
    /\ call[t].stage = "fetching"
    /\ Finish(t)
    /\ UNCHANGED <<table, root_open, descriptors, reading>>

\* index_store_close_traversal: the root descriptor is closed once.
CloseTraversal ==
    /\ root_open
    /\ root_open' = FALSE
    /\ descriptors' = descriptors - 1
    /\ UNCHANGED <<table, call, reading>>

\* completed_since, first section: the size of the page is fixed, then the
\* lock is dropped to allocate the copy.
CountCompleted(r, limit) ==
    /\ page[r] = -1
    /\ cursor[r] <= completion_count
    /\ page' = [page EXCEPT ![r] =
                  IF completion_count - cursor[r] < limit
                    THEN completion_count - cursor[r] ELSE limit]
    /\ UNCHANGED <<table, root_open, descriptors, call, cursor, delivered>>

CopyCompletedBug(r) ==
    /\ page[r] # -1
    /\ delivered' = [delivered EXCEPT ![r] =
                       @ \o SubSeq(completion_journal, cursor[r] + 1, completion_count)]
    /\ cursor' = [cursor EXCEPT ![r] = @ + page[r]]
    /\ page' = [page EXCEPT ![r] = -1]
    /\ UNCHANGED <<table, root_open, descriptors, call>>

\* completed_since, second section: the journal may have grown, and have been
\* moved by realloc, since the first one.
CopyCompleted(r) ==
    /\ page[r] # -1
    /\ delivered' = [delivered EXCEPT ![r] =
                       @ \o SubSeq(completion_journal, cursor[r] + 1, cursor[r] + page[r])]
    /\ cursor' = [cursor EXCEPT ![r] = @ + page[r]]
    /\ page' = [page EXCEPT ![r] = -1]
    /\ UNCHANGED <<table, root_open, descriptors, call>>

\* A cursor is only an offset: its owner may start over at 0.
Rewind(r) ==
    /\ page[r] = -1 /\ cursor[r] # 0
    /\ cursor' = [cursor EXCEPT ![r] = 0]
    /\ delivered' = [delivered EXCEPT ![r] = <<>>]
    /\ UNCHANGED <<table, root_open, descriptors, call, page>>

ThreadStep(t) ==
    \/ \E id \in Ids :
         \/ OpenPath(t, id) \/ Fail(t, id) \/ FetchSnapshot(t, id)
         \/ \E batch \in Batches : BuildBlock(t, id, batch)
    \/ \E batch \in Batches : ReadDirectory(t, batch)
    \/ StartWalk(t) \/ RefuseWalk(t) \/ OpenComponent(t) \/ WalkDone(t)
    \/ PublishRefused(t) \/ PublishOutOfMemory(t) \/ PublishBlock(t)
    \/ FetchReturn(t)

ReaderStep(r) ==
    \/ \E limit \in Limits : CountCompleted(r, limit)
    \/ CopyCompleted(r)
    \/ Rewind(r)

Next ==
    \/ \E t \in Threads : ThreadStep(t)
    \/ \E r \in Readers : ReaderStep(r)
    \/ CloseTraversal

Spec == Init /\ [][Next]_vars
-----------------------------------------------------------------------------
Holding == {"walking", "opened"}    \* stages in which a call owns a descriptor

Call == [stage : {"idle", "fallback", "walking", "opened", "built", "fetching"},
         id : Ids, components : Seq(Ids), at : 0 .. MaxId, held : Block \cup {NULL}]

Terminal == {id \in DOMAIN records : records[id].state # "pending"}

\* Every variable has its type, and the records in use are those of the ids
\* handed out, none of which is the reserved one.
TypeOK ==
    /\ directory_count \in 1 .. MaxId
    /\ records \in [0 .. directory_count - 1 -> Record]
    /\ segment_count \in Nat /\ published_count \in Nat
    /\ failed_count \in Nat /\ entry_count \in Nat
    /\ completion_journal \in Seq(Ids)
    /\ completion_capacity \in Nat
    /\ root_open \in BOOLEAN
    /\ descriptors \in Int
    /\ call \in [Threads -> Call]
    /\ cursor \in [Readers -> Nat]
    /\ page \in [Readers -> Nat \cup {-1}]
    /\ delivered \in [Readers -> Seq(Ids)]

\* The journal lists the published and the failed directories, each exactly
\* once, whichever calls raced for them (Store.completed_since's promise).
JournalIsExact ==
    /\ {completion_journal[i] : i \in DOMAIN completion_journal} = Terminal
    /\ \A i, j \in DOMAIN completion_journal :
          completion_journal[i] = completion_journal[j] => i = j

\* A directory completes after the directory that lists it: its parent is
\* published, and earlier in the journal.  The desktop relies on this order.
ParentsCompleteFirst ==
    \A j \in DOMAIN completion_journal :
      LET id == completion_journal[j]
      IN id # ROOT_DIRECTORY_ID =>
           \E i \in 1 .. j - 1 : completion_journal[i] = records[id].parent_id

\* Blocks and records tell the same tree: the k-th child row of a published
\* block is the record first_child_id + k - 1, and every record but the root
\* is a child row of its parent's block.  This is what fetch and the descriptor
\* walk need to never answer invalid_tree.
TreeIsConsistent ==
    /\ \A id \in DOMAIN records :
          /\ records[id].state = "published" <=> records[id].block # NULL
          /\ records[id].block # NULL =>
               \A k \in DOMAIN records[id].block.rows :
                 LET child == records[id].block.first_child_id + k - 1
                 IN /\ child \in DOMAIN records
                    /\ records[child].parent_id = id
                    /\ records[child].parent_entry_index = records[id].block.rows[k]
    /\ \A id \in DOMAIN records \ {ROOT_DIRECTORY_ID} :
          HasChain(id) /\ NameKnown(id)

\* No write falls outside an allocation: records lie in allocated segments and
\* the journal fits its array, also after growth that failed half way.
WritesStayAllocated ==
    /\ directory_count <= segment_count * SegmentSize
    /\ completion_count <= completion_capacity
    /\ directory_count <= MaxId

\* The rows of the published blocks.
RowCounts == [id \in {i \in DOMAIN records : records[i].block # NULL} |-> Len(records[id].block.types)]

\* index_store_stats never lies: the counters agree with the records, and the
\* unsigned subtraction that yields pending cannot wrap.
StatsAgree ==
    /\ published_count = Cardinality({id \in DOMAIN records : records[id].state = "published"})
    /\ failed_count = Cardinality({id \in DOMAIN records : records[id].state = "failed"})
    /\ pending_count = Cardinality({id \in DOMAIN records : records[id].state = "pending"})
    /\ entry_count = SumFunctionOnSet(RowCounts, DOMAIN RowCounts)

\* Tree, counters and capacities agree, after any growth that failed and any race
\* for a completion.
TablesAgree == TreeIsConsistent /\ WritesStayAllocated /\ StatsAgree

\* What a reader has received is the journal up to its cursor, although the
\* journal grows and moves between the two sections of completed_since.
DeliveredIsJournalPrefix ==
    \A r \in Readers :
      /\ cursor[r] + (IF page[r] = -1 THEN 0 ELSE page[r]) <= completion_count
      /\ delivered[r] = SubSeq(completion_journal, 1, cursor[r])

\* A walk that ends without an error has opened the directory it was asked
\* for, component by component from the root.
WalkOpensRequestedDirectory ==
    \A t \in Threads : call[t].stage = "opened" => call[t].at = call[t].id

\* Every descriptor is owned by the open root or by a call that will close it,
\* and none is closed twice, whatever step of the walk or the scan failed.
DescriptorsOwned ==
    descriptors = (IF root_open THEN 1 ELSE 0)
                + Cardinality({t \in Threads : call[t].stage \in Holding})

\* The block a fetch reads after it dropped the lock is still the directory's
\* block, and the child ids it reports exist.
FetchedBlockIsLive ==
    \A t \in Threads :
      call[t].stage = "fetching" /\ call[t].held # NULL =>
        /\ records[call[t].id].block = call[t].held
        /\ \A k \in DOMAIN call[t].held.rows :
              call[t].held.first_child_id + k - 1 < directory_count

\* What a call has found without the lock is what it was asked for and still
\* holds, and what it has opened it closes.
CallsSeeTheTree == WalkOpensRequestedDirectory /\ FetchedBlockIsLive /\ DescriptorsOwned

\* A completed record never changes again and the journal only grows at its
\* end: the names and blocks borrowed without the lock rest on this.
CompletedStaysPut ==
    [][/\ \A id \in Terminal : records'[id] = records[id]
       /\ completion_count <= Len(completion_journal')
       /\ SubSeq(completion_journal', 1, completion_count) = completion_journal]_vars

\* A call that leaves the journal alone leaves the tree alone: no failed
\* publication, not even one out of memory half way, shows in the store.
OnlyCompletionsChangeTheTree ==
    [][(completion_journal' = completion_journal) =>
         UNCHANGED <<directory_count, records, published_count, failed_count, entry_count>>]_vars

\* The store implements the completion log it promises to its readers.
Log == INSTANCE CompletionLog WITH
         Root <- ROOT_DIRECTORY_ID,
         outcome <- [id \in DOMAIN records |-> records[id].state],
         log <- completion_journal
CompletionLogSpec == Log!Spec
=============================================================================
