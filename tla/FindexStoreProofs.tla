-------------------------- MODULE FindexStoreProofs --------------------------
(***************************************************************************)
(* Theorems about FindexStore for every number of threads, readers, ids,   *)
(* segment sizes and batches, checked by TLAPS.                            *)
(***************************************************************************)
EXTENDS FindexStore, FoldLemmas

\* What the type of the calls leaves open: a call about to publish holds a
\* block, and a page being copied lies within the journal.
CallsInv ==
    /\ \A t \in Threads : call[t].stage = "built" => call[t].held # NULL
    /\ \A r \in Readers : page[r] # -1 => cursor[r] + page[r] <= completion_count

Inv == TypeOK /\ CallsInv
-----------------------------------------------------------------------------
\* Segments are counted in whole numbers.
LEMMA SegmentsForType ==
    ASSUME NEW count \in Nat
    PROVE  SegmentsFor(count) \in Nat
<1>1. SegmentSize \in Nat /\ SegmentSize > 0
  BY SegmentSizeAssumption
<1>2. count + SegmentSize - 1 \in Nat
  BY <1>1
<1> QED
  BY <1>1, <1>2 DEF SegmentsFor

\* The capacity checks keep the sizes natural numbers, and a granted request
\* for records never exceeds the reserved id.
LEMMA CapacityTypes ==
    ASSUME TypeOK, NEW required \in Nat, NEW ok \in BOOLEAN
    PROVE  /\ EnsureDirectoryCapacity(required, ok) =>
                segment_count' \in Nat /\ (ok => required <= MaxId)
           /\ EnsureCompletionCapacity(ok) => completion_capacity' \in Nat
<1>1. SegmentsFor(required) \in Nat
  BY SegmentsForType
<1>2. MaxId \in Nat /\ JournalChunk \in Nat
  BY MaxIdAssumption, JournalChunkAssumption
<1>3. segment_count \in Nat /\ completion_capacity \in Nat
  BY DEF TypeOK
<1>4. EnsureDirectoryCapacity(required, ok) => segment_count' \in Nat /\ (ok => required <= MaxId)
  BY <1>1, <1>2, <1>3 DEF EnsureDirectoryCapacity
<1>5. EnsureCompletionCapacity(ok) => completion_capacity' \in Nat
  BY <1>2, <1>3 DEF EnsureCompletionCapacity
<1> QED
  BY <1>4, <1>5

\* The walk's components are directory ids.
LEMMA ComponentsType ==
    ASSUME NEW id \in Ids, HasChain(id)
    PROVE  Components(id) \in Seq(Ids)
<1>1. Components(id) \in Chains
  BY DEF HasChain, Components
<1> QED
  BY <1>1 DEF Chains

\* A publication by thread t keeps the types: the children get fresh ids below
\* the reserved one.
LEMMA PublishType ==
    ASSUME TypeOK, CallsInv, NEW t \in Threads, PublishBlock(t)
    PROVE  TypeOK'
<1> DEFINE id == call[t].id
           built == call[t].held
           n == Len(built.rows)
           children == directory_count .. directory_count + n - 1
           block == NumberedBlock(built, directory_count)
<1>1. /\ id \in Ids /\ id \in DOMAIN records
      /\ built \in Block /\ n \in Nat
      /\ directory_count \in 1 .. MaxId /\ MaxId \in Nat
      /\ entry_count + Len(built.types) \in Nat
  BY SMTT(30), ZenonT(30), MaxIdAssumption DEF TypeOK, CallsInv, PublishBlock, Completable, IsDirectory, Call, Block, Ids
<1>2. /\ segment_count' \in Nat /\ directory_count + n <= MaxId
      /\ completion_capacity' \in Nat
  <2>1. EnsureDirectoryCapacity(directory_count + n, TRUE) /\ EnsureCompletionCapacity(TRUE)
    BY DEF PublishBlock
  <2>2. directory_count + n \in Nat
    BY <1>1
  <2> QED
    BY <2>1, <2>2, CapacityTypes
<1>3. directory_count' \in 1 .. MaxId
  <2>1. directory_count' = directory_count + n
    BY DEF PublishBlock
  <2> HIDE DEF n
  <2> QED BY <1>1, <1>2, <2>1
<1>4. block \in Block
  BY <1>1 DEF Block, NumberedBlock
<1>5. \A i \in children : ChildRecord(id, built, i - directory_count + 1) \in Record
  <2> SUFFICES ASSUME NEW i \in children
               PROVE  ChildRecord(id, built, i - directory_count + 1) \in Record
    OBVIOUS
  <2>1. i - directory_count + 1 \in 1 .. n
    <3>1. directory_count \in Nat /\ n \in Nat
      BY <1>1
    <3> HIDE DEF n
    <3> QED
      BY <3>1
  <2>2. built.rows \in Seq(Nat)
    BY <1>1 DEF Block
  <2>3. built.rows[i - directory_count + 1] \in Nat
    BY SMTT(30), ZenonT(30), <2>1, <2>2
  <2>4. id \in 0 .. MaxId
    BY SMTT(30), ZenonT(30), <1>1 DEF Ids
  <2> QED
    BY <2>3, <2>4 DEF ChildRecord, NewRecord, Record, States
<1>6. CompletedRecord(records[id], "published", block) \in Record
  BY <1>1, <1>4 DEF TypeOK, Record, States, CompletedRecord
<1>7. DOMAIN records \cup children = 0 .. directory_count + n - 1
  BY SMTT(30), ZenonT(30), <1>1 DEF TypeOK
<1>8. records' \in [0 .. directory_count' - 1 -> Record]
  <2>1. \A i \in DOMAIN records : records[i] \in Record
    BY DEF TypeOK
  <2>2. records' = [i \in DOMAIN records \cup children |->
                      IF i \in children THEN ChildRecord(id, built, i - directory_count + 1)
                      ELSE IF i = id THEN CompletedRecord(records[id], "published", block)
                      ELSE records[i]]
    BY DEF PublishBlock
  <2>3. directory_count' = directory_count + n
    BY DEF PublishBlock
  <2>4. \A i \in DOMAIN records \cup children : records'[i] \in Record
    <3> HIDE DEF children, block, id, built
    <3> QED
      BY <1>5, <1>6, <2>1, <2>2
  <2>5. records' \in [DOMAIN records \cup children -> Record]
    <3> HIDE DEF children, block, id, built
    <3> QED
      BY <2>2, <2>4
  <2>6. directory_count' - 1 = directory_count + n - 1
    <3> HIDE DEF n
    <3> QED
      BY <1>1, <2>3
  <2> QED
    BY <1>7, <2>5, <2>6
<1>9. completion_journal' \in Seq(Ids)
  BY <1>1 DEF PublishBlock, TypeOK, JournalWith
<1>10. call' \in [Threads -> Call]
  <2>1. Idle \in Call
    BY <1>1 DEF Idle, Doing, ROOT_DIRECTORY_ID, Call, Ids, NO_DIRECTORY_ID
  <2> QED
    BY <2>1 DEF PublishBlock, Finish, TypeOK
<1>11. published_count' \in Nat /\ entry_count' \in Nat
  BY <1>1 DEF PublishBlock, TypeOK
<1>12. UNCHANGED <<failed_count, root_open, descriptors, cursor, page, delivered>>
  BY DEF PublishBlock, reading
<1> QED
  BY <1>2, <1>3, <1>8, <1>9, <1>10, <1>11, <1>12 DEF TypeOK

LEMMA InitInv == Init => Inv
<1> SUFFICES ASSUME Init PROVE Inv
  OBVIOUS
<1>1. MaxId \in Nat \ {0} /\ 0 \in Ids /\ MaxId \in 0 .. MaxId
  BY MaxIdAssumption DEF Ids
<1>2. records \in [0 .. 0 -> Record]
  BY <1>1 DEF Init, Record, NewRecord, ROOT_DIRECTORY_ID, NO_DIRECTORY_ID, States
<1>3. Idle \in Call
  BY <1>1 DEF Idle, Doing, ROOT_DIRECTORY_ID, Call, NO_DIRECTORY_ID
<1>4. TypeOK
  BY <1>1, <1>2, <1>3 DEF Init, TypeOK
<1>5. CallsInv
  BY DEF Init, CallsInv, Idle, Doing
<1> QED
  BY <1>4, <1>5 DEF Inv
\* Every step keeps the types and the state of the calls.
LEMMA NextInv == Inv /\ [Next]_vars => Inv'
<1> SUFFICES ASSUME Inv, [Next]_vars PROVE Inv'
  OBVIOUS
<1>0. /\ TypeOK /\ CallsInv
      /\ MaxId \in Nat \ {0} /\ Idle \in Call /\ Idle.stage = "idle"
  BY MaxIdAssumption DEF Inv, Idle, Doing, Call, Ids, ROOT_DIRECTORY_ID, NO_DIRECTORY_ID
<1>1. ASSUME NEW t \in Threads, NEW id \in Ids, OpenPath(t, id) PROVE Inv'
  <2>1. Doing("opened", id, id, NULL) \in Call /\ Doing("fallback", id, NO_DIRECTORY_ID, NULL) \in Call
    BY <1>0 DEF Doing, Call, Ids, NO_DIRECTORY_ID
  <2>2. PICK c \in Call : c.stage # "built" /\ call' = [call EXCEPT ![t] = c]
    BY <1>1, <2>1 DEF OpenPath, Doing
  <2>3. descriptors' \in Int
    BY <1>0, <1>1 DEF OpenPath, TypeOK
  <2> QED
    BY <1>0, <1>1, <2>2, <2>3 DEF OpenPath, Inv, TypeOK, CallsInv, table, reading, completion_count
<1>2. ASSUME NEW t \in Threads, StartWalk(t) PROVE Inv'
  <2>1. Walking(call[t].id, Components(call[t].id), ROOT_DIRECTORY_ID) \in Call
    BY <1>0, <1>2, ComponentsType DEF StartWalk, TypeOK, Walking, Call, ROOT_DIRECTORY_ID
  <2> QED
    BY <1>0, <1>2, <2>1 DEF StartWalk, Inv, TypeOK, CallsInv, Walking, table, reading, completion_count
<1>3. ASSUME NEW t \in Threads, RefuseWalk(t) PROVE Inv'
  BY <1>0, <1>3 DEF RefuseWalk, Finish, Inv, TypeOK, CallsInv, table, reading, completion_count
<1>4. ASSUME NEW t \in Threads, OpenComponent(t) PROVE Inv'
  <2> DEFINE c == call[t]
             next == c.components[Len(c.components)]
             rest == SubSeq(c.components, 1, Len(c.components) - 1)
             at == IF records[next].parent_id = c.at THEN next ELSE NO_DIRECTORY_ID
  <2>1. c \in Call /\ c.components \in Seq(Ids) /\ c.components # <<>>
    BY <1>0, <1>4 DEF OpenComponent, TypeOK, Call
  <2>2. rest \in Seq(Ids) /\ next \in Ids
    BY <2>1
  <2>3. Walking(c.id, rest, at) \in Call
    BY SMTT(30), ZenonT(30), <1>0, <2>1, <2>2 DEF Walking, Call, Ids, NO_DIRECTORY_ID
  <2>4. CASE call' = [call EXCEPT ![t] = Walking(c.id, rest, at)] /\ UNCHANGED descriptors
    BY <1>0, <1>4, <2>3, <2>4 DEF OpenComponent, Inv, TypeOK, CallsInv, Walking, table, reading, completion_count
  <2>5. CASE AbandonWalk(t)
    BY <1>0, <1>4, <2>5 DEF OpenComponent, AbandonWalk, Finish, Inv, TypeOK, CallsInv, table, reading, completion_count
  <2> QED
    BY <1>4, <2>4, <2>5 DEF OpenComponent
<1>5. ASSUME NEW t \in Threads, WalkDone(t) PROVE Inv'
  <2>1. Doing("opened", call[t].id, call[t].at, NULL) \in Call
    BY <1>0 DEF TypeOK, Doing, Call
  <2> QED
    BY <1>0, <1>5, <2>1 DEF WalkDone, Inv, TypeOK, CallsInv, Doing, table, reading, completion_count
<1>6. ASSUME NEW t \in Threads, NEW batch \in Batches, ReadDirectory(t, batch) PROVE Inv'
  <2>1. BuiltBlock(batch) \in Block /\ BuiltBlock(batch) # NULL
    BY <1>0, BatchesAssumption, NULLAssumption DEF BuiltBlock, Block, Batch, NO_DIRECTORY_ID
  <2>2. Doing("built", call[t].id, NO_DIRECTORY_ID, BuiltBlock(batch)) \in Call
    BY <1>0, <2>1 DEF TypeOK, Doing, Call, NO_DIRECTORY_ID
  <2>3. PICK c \in Call : (c.stage = "built" => c.held # NULL) /\ call' = [call EXCEPT ![t] = c]
    BY <1>0, <1>6, <2>1, <2>2 DEF ReadDirectory, Finish, Doing
  <2> QED
    BY <1>0, <1>6, <2>3 DEF ReadDirectory, Inv, TypeOK, CallsInv, table, reading, completion_count
<1>7. ASSUME NEW t \in Threads, NEW id \in Ids, NEW batch \in Batches, BuildBlock(t, id, batch) PROVE Inv'
  <2>1. BuiltBlock(batch) \in Block /\ BuiltBlock(batch) # NULL
    BY <1>0, BatchesAssumption, NULLAssumption DEF BuiltBlock, Block, Batch, NO_DIRECTORY_ID
  <2>2. Doing("built", id, NO_DIRECTORY_ID, BuiltBlock(batch)) \in Call
    BY <1>0, <2>1 DEF Doing, Call, NO_DIRECTORY_ID
  <2> QED
    BY <1>0, <1>7, <2>1, <2>2
       DEF BuildBlock, Inv, TypeOK, CallsInv, Doing, table, reading, completion_count
<1>8. ASSUME NEW t \in Threads, PublishRefused(t) PROVE Inv'
  BY <1>0, <1>8 DEF PublishRefused, Finish, Inv, TypeOK, CallsInv, table, reading, completion_count
<1>9. ASSUME NEW t \in Threads, PublishOutOfMemory(t) PROVE Inv'
  <2> DEFINE required == directory_count + Len(call[t].held.rows)
  <2>1. required \in Nat
    BY SMTT(30), ZenonT(30), <1>0, <1>9 DEF PublishOutOfMemory, TypeOK, CallsInv, Call, Block
  <2>2. segment_count' \in Nat /\ completion_capacity' \in Nat
    <3>1. CASE EnsureDirectoryCapacity(required, FALSE) /\ UNCHANGED completion_capacity
      BY <1>0, <2>1, <3>1, CapacityTypes DEF TypeOK
    <3>2. CASE EnsureDirectoryCapacity(required, TRUE) /\ EnsureCompletionCapacity(FALSE)
      BY <1>0, <2>1, <3>2, CapacityTypes
    <3> QED
      BY <1>9, <3>1, <3>2 DEF PublishOutOfMemory
  <2> QED
    BY <1>0, <1>9, <2>2 DEF PublishOutOfMemory, Finish, Inv, TypeOK, CallsInv, reading, completion_count
<1>10. ASSUME NEW t \in Threads, PublishBlock(t) PROVE Inv'
  <2>1. TypeOK'
    BY <1>0, <1>10, PublishType
  <2>2. completion_count' = completion_count + 1
    BY <1>0, <1>10 DEF PublishBlock, TypeOK, JournalWith, completion_count
  <2>3. completion_count \in Nat
    BY <1>0 DEF TypeOK, completion_count
  <2>4. call' = [call EXCEPT ![t] = Idle] /\ UNCHANGED <<cursor, page>>
    BY <1>10 DEF PublishBlock, Finish, reading
  <2>5. \A r \in Readers : page[r] # -1 => cursor[r] \in Nat /\ page[r] \in Nat
    BY <1>0 DEF TypeOK
  <2>6. CallsInv'
    BY <1>0, <2>2, <2>3, <2>4, <2>5 DEF CallsInv, TypeOK
  <2> QED
    BY <2>1, <2>6 DEF Inv
<1>11. ASSUME NEW t \in Threads, NEW id \in Ids, Fail(t, id) PROVE Inv'
  <2>1. completion_capacity' \in Nat
    BY <1>0, <1>11, CapacityTypes DEF Fail
  <2>2. records' \in [0 .. directory_count - 1 -> Record]
    <3>1. id \in DOMAIN records /\ records[id] \in Record
      BY <1>0, <1>11 DEF Fail, Completable, IsDirectory, TypeOK, Ids
    <3>2. CompletedRecord(records[id], "failed", NULL) \in Record
      BY <3>1 DEF CompletedRecord, Record, States
    <3> QED
      BY <1>0, <1>11, <3>2 DEF Fail, TypeOK
  <2>3. completion_journal' \in Seq(Ids) /\ completion_count' = completion_count + 1
    BY <1>0, <1>11 DEF Fail, TypeOK, JournalWith, completion_count
  <2>4. completion_count \in Nat
    BY <1>0 DEF TypeOK, completion_count
  <2> QED
    BY SMTT(30), ZenonT(30), <1>0, <1>11, <2>1, <2>2, <2>3, <2>4 DEF Fail, Inv, TypeOK, CallsInv, reading
<1>12. ASSUME NEW t \in Threads, NEW id \in Ids, FetchSnapshot(t, id) PROVE Inv'
  <2>1. records[id].block \in Block \cup {NULL}
    BY <1>0, <1>12 DEF FetchSnapshot, IsDirectory, TypeOK, Record, Ids
  <2>2. Doing("fetching", id, NO_DIRECTORY_ID, records[id].block) \in Call
    BY <1>0, <2>1 DEF Doing, Call, NO_DIRECTORY_ID
  <2> QED
    BY <1>0, <1>12, <2>2
       DEF FetchSnapshot, Inv, TypeOK, CallsInv, Doing, table, reading, completion_count
<1>13. ASSUME NEW t \in Threads, FetchReturn(t) PROVE Inv'
  BY <1>0, <1>13 DEF FetchReturn, Finish, Inv, TypeOK, CallsInv, table, reading, completion_count
<1>14. ASSUME NEW r \in Readers, NEW limit \in Limits, CountCompleted(r, limit) PROVE Inv'
  <2>1. limit \in Nat /\ completion_count \in Nat /\ cursor[r] \in Nat
    BY <1>0, LimitsAssumption DEF TypeOK, completion_count
  <2> QED
    BY SMTT(30), ZenonT(30), <1>0, <1>14, <2>1 DEF CountCompleted, Inv, TypeOK, CallsInv, table, completion_count
<1>15. ASSUME NEW r \in Readers, CopyCompleted(r) PROVE Inv'
  <2>1. /\ cursor[r] \in Nat /\ page[r] \in Nat
        /\ cursor[r] + page[r] <= completion_count
        /\ completion_journal \in Seq(Ids) /\ delivered[r] \in Seq(Ids)
    BY <1>0, <1>15 DEF CopyCompleted, TypeOK, CallsInv
  <2>2. SubSeq(completion_journal, cursor[r] + 1, cursor[r] + page[r]) \in Seq(Ids)
    BY <2>1 DEF completion_count
  <2> QED
    BY SMTT(30), ZenonT(30), <1>0, <1>15, <2>1, <2>2 DEF CopyCompleted, Inv, TypeOK, CallsInv, table, completion_count
<1>16. ASSUME NEW r \in Readers, Rewind(r) PROVE Inv'
  BY <1>0, <1>16 DEF Rewind, Inv, TypeOK, CallsInv, table, completion_count
<1>17. CASE CloseTraversal
  <2>1. root_open' \in BOOLEAN /\ descriptors' \in Int
    <3>1. root_open' \in BOOLEAN
      BY <1>17, Zenon DEF CloseTraversal
    <3>2. descriptors' = descriptors - 1 /\ descriptors \in Int
      BY <1>0, <1>17, Zenon DEF CloseTraversal, TypeOK
    <3>3. descriptors' \in Int
      BY <3>2
    <3> QED
      BY <3>1, <3>3, Zenon
  <2>2. UNCHANGED <<table, call, reading>>
    BY <1>17 DEF CloseTraversal
  <2> QED
    BY <1>0, <2>1, <2>2 DEF Inv, TypeOK, CallsInv, table, reading, completion_count
<1>18. CASE UNCHANGED vars
  BY <1>0, <1>18 DEF vars, Inv, TypeOK, CallsInv, table, reading, completion_count
<1> QED
  BY <1>1, <1>2, <1>3, <1>4, <1>5, <1>6, <1>7, <1>8, <1>9, <1>10, <1>11, <1>12, <1>13,
     <1>14, <1>15, <1>16, <1>17, <1>18 DEF Next, ThreadStep, ReaderStep

\* Every reachable state is well typed, and the directory ids handed out stay
\* below the reserved one.
THEOREM TypeCorrect == Spec => []TypeOK
<1>1. Inv => TypeOK
  BY DEF Inv
<1> QED
  BY <1>1, InitInv, NextInv, PTL DEF Spec
-----------------------------------------------------------------------------
\* What a step may do to the tree and the journal: one pending directory
\* completes and enters the journal, and if it has children they are new,
\* pending, and the directory is published.
Completion(id) ==
    /\ id \in DOMAIN records
    /\ records[id].state = "pending"
    /\ completion_journal' = Append(completion_journal, id)
    /\ DOMAIN records \subseteq DOMAIN records'
    /\ records'[id].state # "pending"
    /\ records'[id].parent_id = records[id].parent_id
    /\ \A i \in DOMAIN records \ {id} : records'[i] = records[i]
    /\ \A i \in DOMAIN records' \ DOMAIN records :
          /\ records'[i].state = "pending"
          /\ records'[i].parent_id = id
          /\ records'[id].state = "published"
    /\ UNCHANGED reading

LEMMA PublishCompletes ==
    ASSUME Inv, NEW t \in Threads, PublishBlock(t)
    PROVE  Completion(call[t].id)
<1> DEFINE id == call[t].id
           built == call[t].held
           children == directory_count .. directory_count + Len(built.rows) - 1
           record == CompletedRecord(records[id], "published", NumberedBlock(built, directory_count))
<1>1. /\ TypeOK /\ id \in Ids /\ id \in DOMAIN records
      /\ directory_count \in Nat /\ DOMAIN records = 0 .. directory_count - 1
      /\ built \in Block
  BY SMTT(30), ZenonT(30) DEF Inv, TypeOK, CallsInv, PublishBlock, Completable, IsDirectory, Call, Ids
<1>2. records' = [i \in DOMAIN records \cup children |->
                    IF i \in children THEN ChildRecord(id, built, i - directory_count + 1)
                    ELSE IF i = id THEN record ELSE records[i]]
  BY DEF PublishBlock
<1>3. children \cap DOMAIN records = {}
  BY <1>1, Len(built.rows) \in Nat DEF Block
<1>4. DOMAIN records' = DOMAIN records \cup children
  BY <1>2
<1>5. records'[id] = record
  <2> HIDE DEF children, record, id, built
  <2> QED
    BY <1>1, <1>2, <1>3
<1>6. record.state = "published" /\ record.parent_id = records[id].parent_id
  BY DEF CompletedRecord
<1>7. \A i \in DOMAIN records \ {id} : records'[i] = records[i]
  <2> HIDE DEF children, record, id, built
  <2> QED
    BY <1>2, <1>3
<1>8. \A i \in children : records'[i].state = "pending" /\ records'[i].parent_id = id
  <2>1. \A i \in children : records'[i] = ChildRecord(id, built, i - directory_count + 1)
    <3> HIDE DEF children, record, id, built
    <3> QED
      BY <1>2
  <2>2. \A k : /\ ChildRecord(id, built, k).state = "pending"
               /\ ChildRecord(id, built, k).parent_id = id
    BY DEF ChildRecord, NewRecord
  <2> HIDE DEF children, record, id, built
  <2> QED
    BY <2>1, <2>2
<1>9. /\ records[id].state = "pending"
      /\ completion_journal' = Append(completion_journal, id)
      /\ UNCHANGED reading
  BY DEF PublishBlock, Completable, JournalWith
<1> HIDE DEF children, record, id, built
<1>10. Completion(id)
  BY <1>1, <1>4, <1>5, <1>6, <1>7, <1>8, <1>9 DEF Completion
<1> QED
  BY <1>10 DEF id

LEMMA FailCompletes ==
    ASSUME Inv, NEW t \in Threads, NEW id \in Ids, Fail(t, id)
    PROVE  Completion(id)
<1>1. id \in DOMAIN records
  BY DEF Inv, TypeOK, Fail, Completable, IsDirectory, Ids
<1>2. records' = [records EXCEPT ![id] = CompletedRecord(records[id], "failed", NULL)]
  BY DEF Fail
<1>3. /\ CompletedRecord(records[id], "failed", NULL).state = "failed"
      /\ CompletedRecord(records[id], "failed", NULL).parent_id = records[id].parent_id
  BY DEF CompletedRecord
<1>4. /\ records[id].state = "pending"
      /\ completion_journal' = Append(completion_journal, id)
      /\ UNCHANGED reading
  BY DEF Fail, Completable, JournalWith
<1> QED
  BY <1>1, <1>2, <1>3, <1>4 DEF Completion

\* Every step is a completion, a step of a reader, or invisible to readers.
LEMMA StepCompletesOrStays ==
    ASSUME Inv, [Next]_vars
    PROVE  \/ \E id \in DOMAIN records : Completion(id)
           \/ /\ UNCHANGED <<records, completion_journal>>
              /\ UNCHANGED reading \/ \E r \in Readers : ReaderStep(r)
<1> DEFINE Still == UNCHANGED <<records, completion_journal, reading>>
<1>1. ASSUME NEW t \in Threads, ThreadStep(t)
      PROVE  (\E id \in DOMAIN records : Completion(id)) \/ Still
  <2>1. CASE PublishBlock(t)
    BY <2>1, PublishCompletes DEF Completion
  <2>2. CASE \E id \in Ids : Fail(t, id)
    BY <2>2, FailCompletes DEF Completion
  <2>3. CASE PublishOutOfMemory(t)
    BY <2>3 DEF PublishOutOfMemory
  <2>4. ASSUME NEW id \in Ids, NEW batch \in Batches, BuildBlock(t, id, batch)
        PROVE  Still
    BY <2>4 DEF BuildBlock, table
  <2>5. ASSUME NEW id \in Ids, OpenPath(t, id) \/ FetchSnapshot(t, id)
        PROVE  Still
    BY <2>5 DEF OpenPath, FetchSnapshot, table
  <2>6. ASSUME NEW batch \in Batches, ReadDirectory(t, batch)
        PROVE  Still
    BY <2>6 DEF ReadDirectory, table
  <2>7. ASSUME \/ StartWalk(t) \/ RefuseWalk(t) \/ OpenComponent(t) \/ WalkDone(t)
               \/ PublishRefused(t) \/ FetchReturn(t)
        PROVE  Still
    BY <2>7 DEF StartWalk, RefuseWalk, OpenComponent, WalkDone, PublishRefused, FetchReturn, table
  <2> QED
    BY <1>1, <2>1, <2>2, <2>3, <2>4, <2>5, <2>6, <2>7 DEF ThreadStep
<1>2. ASSUME NEW r \in Readers, ReaderStep(r) PROVE UNCHANGED <<records, completion_journal>>
  BY <1>2 DEF ReaderStep, CountCompleted, CopyCompleted, Rewind, table
<1>3. CASE CloseTraversal
  BY <1>3 DEF CloseTraversal, table
<1>4. CASE UNCHANGED vars
  BY <1>4 DEF vars, table
<1> QED
  BY <1>1, <1>2, <1>3, <1>4 DEF Next
-----------------------------------------------------------------------------
\* The journal properties need the tree: only a published directory has
\* children, so a child can never be completed before its parent.
ParentsPublished ==
    \A id \in DOMAIN records \ {ROOT_DIRECTORY_ID} :
      /\ records[id].parent_id \in DOMAIN records
      /\ records[records[id].parent_id].state = "published"

JournalInv == JournalIsExact /\ ParentsCompleteFirst /\ ParentsPublished

LEMMA InitJournal == Init => JournalInv
<1> SUFFICES ASSUME Init PROVE JournalInv
  OBVIOUS
<1>1. completion_journal = <<>> /\ DOMAIN records = {ROOT_DIRECTORY_ID}
  BY DEF Init
<1>2. records[ROOT_DIRECTORY_ID].state = "pending"
  BY DEF Init, NewRecord
<1> QED
  BY <1>1, <1>2 DEF JournalInv, JournalIsExact, ParentsCompleteFirst, ParentsPublished, Terminal

LEMMA CompletionJournal ==
    ASSUME Inv, JournalInv, NEW id, Completion(id)
    PROVE  JournalInv'
<1> DEFINE J == completion_journal
           n == Len(completion_journal)
<1>1. /\ id \in Ids /\ J \in Seq(Ids) /\ n \in Nat
      /\ DOMAIN J = 1 .. n
  BY MaxIdAssumption DEF Inv, TypeOK, Completion, Ids
<1>2. /\ J' = Append(J, id) /\ DOMAIN J' = 1 .. n + 1 /\ Len(J') = n + 1
      /\ \A k \in 1 .. n : J'[k] = J[k]
      /\ J'[n + 1] = id
  BY <1>1 DEF Completion
<1>3. \A k \in 1 .. n : J[k] \in DOMAIN records /\ records[J[k]].state # "pending"
  BY <1>1 DEF JournalInv, JournalIsExact, Terminal
<1>4. \A k \in 1 .. n : J[k] # id
  BY <1>3 DEF Completion
<1>5. Terminal' = Terminal \cup {id}
  BY DEF Completion, Terminal
<1>6. JournalIsExact'
  <2>1. {J'[k] : k \in 1 .. n + 1} = {J[k] : k \in 1 .. n} \cup {id}
    BY <1>1, <1>2
  <2>2. {J[k] : k \in 1 .. n} = Terminal
    BY <1>1 DEF JournalInv, JournalIsExact
  <2>3. \A i, j \in 1 .. n + 1 : J'[i] = J'[j] => i = j
    <3>1. \A i, j \in 1 .. n : J[i] = J[j] => i = j
      BY <1>1 DEF JournalInv, JournalIsExact
    <3> QED
      BY <1>1, <1>2, <1>4, <3>1
  <2> QED
    BY <1>2, <1>5, <2>1, <2>2, <2>3 DEF JournalIsExact
<1>7. ParentsPublished'
  BY DEF JournalInv, ParentsPublished, Completion
<1>8. ParentsCompleteFirst'
  <2> SUFFICES ASSUME NEW j \in 1 .. n + 1, J'[j] # ROOT_DIRECTORY_ID
               PROVE  \E i \in 1 .. j - 1 : J'[i] = records'[J'[j]].parent_id
    BY <1>2 DEF ParentsCompleteFirst
  <2>1. CASE j \in 1 .. n
    <3>1. J'[j] = J[j] /\ records'[J[j]] = records[J[j]]
      BY <1>2, <1>3, <1>4, <2>1 DEF Completion
    <3>2. PICK i \in 1 .. j - 1 : J[i] = records[J[j]].parent_id
      BY <1>1, <2>1, <3>1 DEF JournalInv, ParentsCompleteFirst
    <3>3. i \in 1 .. n
      BY <1>1, <2>1
    <3> QED
      BY <1>2, <3>1, <3>2, <3>3
  <2>2. CASE j = n + 1
    <3>1. J'[j] = id /\ records'[id].parent_id = records[id].parent_id
      BY <1>2, <2>2 DEF Completion
    <3>2. records[id].parent_id \in Terminal
      BY <3>1 DEF JournalInv, ParentsPublished, Terminal, Completion
    <3>3. PICK i \in 1 .. n : J[i] = records[id].parent_id
      BY <1>1, <3>2 DEF JournalInv, JournalIsExact
    <3>4. i \in 1 .. j - 1
      BY <1>1, <2>2
    <3> QED
      BY <1>2, <3>1, <3>3, <3>4
  <2> QED
    BY <1>1, <2>1, <2>2
<1> QED
  BY <1>6, <1>7, <1>8 DEF JournalInv

LEMMA NextJournal == Inv /\ JournalInv /\ [Next]_vars => JournalInv'
<1> SUFFICES ASSUME Inv, JournalInv, [Next]_vars PROVE JournalInv'
  OBVIOUS
<1>1. CASE \E id \in DOMAIN records : Completion(id)
  BY <1>1, CompletionJournal
<1>2. CASE UNCHANGED <<records, completion_journal>>
  BY <1>2 DEF JournalInv, JournalIsExact, ParentsCompleteFirst, ParentsPublished, Terminal
<1> QED
  BY <1>1, <1>2, StepCompletesOrStays

\* For any number of threads racing to publish and to fail directories, the
\* journal holds every completed directory exactly once.
THEOREM JournalExact == Spec => []JournalIsExact
<1>1. JournalInv => JournalIsExact
  BY DEF JournalInv
<1> QED
  BY <1>1, InitInv, NextInv, InitJournal, NextJournal, PTL DEF Spec

\* A directory is never in the journal before the directory that lists it,
\* which the consumers of the journal build their trees on.
THEOREM ParentsFirst == Spec => []ParentsCompleteFirst
<1>1. JournalInv => ParentsCompleteFirst
  BY DEF JournalInv
<1> QED
  BY <1>1, InitInv, NextInv, InitJournal, NextJournal, PTL DEF Spec

\* Completed records are final and the journal is append-only, so names and
\* blocks borrowed without the lock stay valid.
THEOREM CompletedIsFinal == Spec => CompletedStaysPut
<1> DEFINE A == /\ \A id \in Terminal : records'[id] = records[id]
                /\ completion_count <= Len(completion_journal')
                /\ SubSeq(completion_journal', 1, completion_count) = completion_journal
<1>1. ASSUME Inv, [Next]_vars PROVE A
  <2>1. completion_journal \in Seq(Ids)
    BY <1>1 DEF Inv, TypeOK
  <2>2. CASE UNCHANGED <<records, completion_journal>>
    BY <2>1, <2>2, SubSeqFull DEF completion_count
  <2>3. ASSUME NEW id \in DOMAIN records, Completion(id) PROVE A
    <3>1. id \in Ids
      BY <1>1, MaxIdAssumption DEF Inv, TypeOK, Ids
    <3>2. completion_journal' = Append(completion_journal, id)
      BY <2>3 DEF Completion
    <3>3. Len(completion_journal') = completion_count + 1 /\ completion_count \in Nat
      BY <2>1, <3>1, <3>2 DEF completion_count
    <3>4. SubSeq(completion_journal', 1, completion_count) = completion_journal
      BY <2>1, <3>1, <3>2, <3>3 DEF completion_count
    <3>5. \A i \in Terminal : records'[i] = records[i]
      BY <2>3 DEF Terminal, Completion
    <3> QED
      BY <3>3, <3>4, <3>5
  <2> QED
    BY <1>1, <2>2, <2>3, StepCompletesOrStays
<1>2. Inv /\ [Next]_vars => [A]_vars
  BY <1>1
<1> QED
  BY <1>2, InitInv, NextInv, PTL DEF Spec, CompletedStaysPut
-----------------------------------------------------------------------------
LEMMA InitDelivered == Init => DeliveredIsJournalPrefix
<1> SUFFICES ASSUME Init, NEW r \in Readers
             PROVE  /\ cursor[r] + (IF page[r] = -1 THEN 0 ELSE page[r]) <= completion_count
                    /\ delivered[r] = SubSeq(completion_journal, 1, cursor[r])
  BY DEF DeliveredIsJournalPrefix
<1> QED
  BY DEF Init, completion_count

\* The journal may grow between the two sections of completed_since, but what
\* lies below a cursor stays what it was.
LEMMA NextDelivered ==
    Inv /\ DeliveredIsJournalPrefix /\ [Next]_vars => DeliveredIsJournalPrefix'
<1> SUFFICES ASSUME Inv, DeliveredIsJournalPrefix, [Next]_vars, NEW r \in Readers
             PROVE  /\ cursor'[r] + (IF page'[r] = -1 THEN 0 ELSE page'[r]) <= completion_count'
                    /\ delivered'[r] = SubSeq(completion_journal', 1, cursor'[r])
  BY DEF DeliveredIsJournalPrefix
<1>1. /\ completion_journal \in Seq(Ids) /\ completion_count \in Nat
      /\ cursor \in [Readers -> Nat] /\ page \in [Readers -> Nat \cup {-1}]
      /\ delivered \in [Readers -> Seq(Ids)]
      /\ cursor[r] + (IF page[r] = -1 THEN 0 ELSE page[r]) <= completion_count
      /\ cursor[r] <= completion_count
      /\ delivered[r] = SubSeq(completion_journal, 1, cursor[r])
  BY DEF Inv, TypeOK, DeliveredIsJournalPrefix, completion_count
<1>2. ASSUME NEW id \in DOMAIN records, Completion(id)
      PROVE  /\ cursor'[r] + (IF page'[r] = -1 THEN 0 ELSE page'[r]) <= completion_count'
             /\ delivered'[r] = SubSeq(completion_journal', 1, cursor'[r])
  <2>1. id \in Ids /\ completion_journal' = Append(completion_journal, id) /\ UNCHANGED reading
    BY <1>2, MaxIdAssumption DEF Completion, Inv, TypeOK, Ids
  <2>2. completion_count' = completion_count + 1
    BY <1>1, <2>1 DEF completion_count
  <2>3. SubSeq(completion_journal', 1, cursor[r]) = SubSeq(completion_journal, 1, cursor[r])
    BY <1>1, <2>1 DEF completion_count
  <2>4. cursor' = cursor /\ page' = page /\ delivered' = delivered
    BY <2>1 DEF reading
  <2>5. page[r] = -1 \/ page[r] \in Nat
    BY <1>1
  <2>6. cursor'[r] + (IF page'[r] = -1 THEN 0 ELSE page'[r]) <= completion_count'
    BY <1>1, <2>2, <2>4, <2>5
  <2> QED
    BY <1>1, <2>3, <2>4, <2>6
<1>3. ASSUME UNCHANGED <<records, completion_journal>>, NEW q \in Readers, ReaderStep(q)
      PROVE  /\ cursor'[r] + (IF page'[r] = -1 THEN 0 ELSE page'[r]) <= completion_count'
             /\ delivered'[r] = SubSeq(completion_journal', 1, cursor'[r])
  <2>1. completion_count' = completion_count
    BY <1>3 DEF completion_count
  <2>2. CASE q # r
    <3>1. cursor'[r] = cursor[r] /\ page'[r] = page[r] /\ delivered'[r] = delivered[r]
      BY SMTT(30), ZenonT(30), <1>1, <1>3, <2>2 DEF ReaderStep, CountCompleted, CopyCompleted, Rewind
    <3> QED
      BY <1>1, <1>3, <2>1, <3>1
  <2>3. ASSUME q = r, NEW limit \in Limits, CountCompleted(r, limit)
        PROVE  /\ cursor'[r] + page'[r] <= completion_count
               /\ cursor'[r] = cursor[r] /\ delivered'[r] = delivered[r]
    BY <1>1, <2>3, LimitsAssumption DEF CountCompleted
  <2>4. ASSUME q = r, CopyCompleted(r)
        PROVE  /\ page'[r] = -1 /\ cursor'[r] <= completion_count
               /\ delivered'[r] = SubSeq(completion_journal, 1, cursor'[r])
    <3>1. page[r] \in Nat /\ cursor[r] + page[r] <= completion_count /\ cursor[r] \in Nat
      BY <1>1, <2>4 DEF CopyCompleted
    <3>2. /\ page'[r] = -1 /\ cursor'[r] = cursor[r] + page[r]
          /\ delivered'[r] = SubSeq(completion_journal, 1, cursor[r])
                 \o SubSeq(completion_journal, cursor[r] + 1, cursor[r] + page[r])
      BY <1>1, <2>4 DEF CopyCompleted
    <3>3. /\ cursor[r] \in 1 - 1 .. Len(completion_journal)
          /\ cursor[r] + page[r] \in cursor[r] .. Len(completion_journal)
          /\ 1 \in 1 .. Len(completion_journal) + 1
      BY <1>1, <3>1 DEF completion_count
    <3>4. SubSeq(completion_journal, 1, cursor[r])
             \o SubSeq(completion_journal, cursor[r] + 1, cursor[r] + page[r])
          = SubSeq(completion_journal, 1, cursor[r] + page[r])
      BY <1>1, <3>3, ConcatAdjacentSubSeq
    <3> QED
      BY <3>1, <3>2, <3>4
  <2>5. ASSUME q = r, Rewind(r)
        PROVE  page'[r] = -1 /\ cursor'[r] = 0 /\ delivered'[r] = <<>>
    BY <1>1, <2>5 DEF Rewind
  <2>6. SubSeq(completion_journal, 1, 0) = <<>>
    BY SubSeqEmpty
  <2>7. ASSUME q = r, NEW limit \in Limits, CountCompleted(r, limit)
        PROVE  /\ cursor'[r] + (IF page'[r] = -1 THEN 0 ELSE page'[r]) <= completion_count'
               /\ delivered'[r] = SubSeq(completion_journal', 1, cursor'[r])
    BY <1>1, <1>3, <2>1, <2>3, <2>7
  <2>8. ASSUME q = r, CopyCompleted(r)
        PROVE  /\ cursor'[r] + (IF page'[r] = -1 THEN 0 ELSE page'[r]) <= completion_count'
               /\ delivered'[r] = SubSeq(completion_journal', 1, cursor'[r])
    <3>1. cursor'[r] \in Nat
      BY <1>1, <2>8 DEF CopyCompleted
    <3> QED
      BY <1>3, <2>1, <2>4, <2>8, <3>1
  <2>9. ASSUME q = r, Rewind(r)
        PROVE  /\ cursor'[r] + (IF page'[r] = -1 THEN 0 ELSE page'[r]) <= completion_count'
               /\ delivered'[r] = SubSeq(completion_journal', 1, cursor'[r])
    <3>1. page'[r] = -1 /\ cursor'[r] = 0 /\ delivered'[r] = <<>>
      BY <2>5, <2>9
    <3>2. 0 + 0 <= completion_count'
      BY <1>1, <2>1
    <3>3. SubSeq(completion_journal', 1, cursor'[r]) = <<>>
      BY <1>3, <2>6, <3>1
    <3> QED
      BY <3>1, <3>2, <3>3
  <2> QED
    BY <1>3, <2>2, <2>7, <2>8, <2>9 DEF ReaderStep
<1>4. CASE UNCHANGED <<records, completion_journal>> /\ UNCHANGED reading
  BY <1>1, <1>4 DEF reading, completion_count
<1> QED
  BY <1>2, <1>3, <1>4, StepCompletesOrStays

\* Every reader has received exactly the journal up to its cursor, although
\* completed_since releases the lock between counting and copying.
THEOREM DeliveredPrefix == Spec => []DeliveredIsJournalPrefix
<1> QED
  BY InitInv, NextInv, InitDelivered, NextDelivered, PTL DEF Spec
-----------------------------------------------------------------------------
LEMMA InitRefines == Init => Log!Init
<1> SUFFICES ASSUME Init PROVE Log!Init
  OBVIOUS
<1>1. DOMAIN records = {ROOT_DIRECTORY_ID} /\ records[ROOT_DIRECTORY_ID].state = "pending"
  BY DEF Init, NewRecord
<1>2. [id \in DOMAIN records |-> records[id].state] = [d \in {ROOT_DIRECTORY_ID} |-> "pending"]
  BY <1>1
<1>3. completion_journal = <<>> /\ delivered = [r \in Readers |-> <<>>]
  BY DEF Init
<1> QED
  BY <1>2, <1>3 DEF Log!Init

\* A completion of the store is a completion of the log.
LEMMA CompletionRefines ==
    ASSUME Inv, Inv', NEW id \in DOMAIN records, Completion(id)
    PROVE  Log!Next
<1> DEFINE outcome == [i \in DOMAIN records |-> records[i].state]
           children == DOMAIN records' \ DOMAIN records
           result == records'[id].state
<1>1. id \in Ids /\ DOMAIN records' \subseteq Ids
  <2>1. /\ DOMAIN records = 0 .. directory_count - 1 /\ directory_count \in 1 .. MaxId
        /\ DOMAIN records' = 0 .. directory_count' - 1 /\ directory_count' \in 1 .. MaxId
    BY DEF Inv, TypeOK
  <2>2. \A n \in 1 .. MaxId : 0 .. n - 1 \subseteq Ids
    BY MaxIdAssumption DEF Ids
  <2> QED
    BY <2>1, <2>2
<1>2. result \in {"published", "failed"}
  <2>1. id \in DOMAIN records' /\ records' \in [DOMAIN records' -> Record]
    BY DEF Completion, Inv, TypeOK
  <2>2. records'[id].state \in States
    BY <2>1 DEF Record
  <2> QED
    BY <2>2 DEF Completion, States
<1>3. children \in SUBSET Ids /\ children \cap DOMAIN outcome = {}
  BY <1>1
<1>4. result = "failed" => children = {}
  BY DEF Completion
<1>5. [i \in DOMAIN records' |-> records'[i].state]
       = [c \in DOMAIN outcome \cup children |->
            IF c = id THEN result ELSE IF c \in children THEN "pending" ELSE outcome[c]]
  <2>1. DOMAIN outcome \cup children = DOMAIN records'
    BY DEF Completion
  <2>2. \A c \in DOMAIN records' :
           records'[c].state = IF c = id THEN result
                               ELSE IF c \in children THEN "pending" ELSE outcome[c]
    BY DEF Completion
  <2> QED
    BY <2>1, <2>2
<1>6. outcome[id] = "pending" /\ id \in DOMAIN outcome
  BY DEF Completion
<1>7. completion_journal' = Append(completion_journal, id) /\ delivered' = delivered
  BY DEF Completion, reading
<1> HIDE DEF outcome, children, result
<1>8. PICK res \in {"published", "failed"} : res = result
  BY <1>2
<1>9. PICK kids \in SUBSET Ids : kids = children
  BY <1>3
<1>10. Log!Complete(id, kids, res)
  <2> USE DEF outcome
  <2>1. res = "failed" => kids = {}
    BY <1>4, <1>8, <1>9
  <2>2. kids \cap DOMAIN outcome = {}
    BY <1>3, <1>9
  <2>3. [i \in DOMAIN records' |-> records'[i].state]
          = [c \in DOMAIN outcome \cup kids |->
               IF c = id THEN res ELSE IF c \in kids THEN "pending" ELSE outcome[c]]
    BY <1>5, <1>8, <1>9
  <2> QED
    BY <1>6, <1>7, <2>1, <2>2, <2>3 DEF Log!Complete
<1> QED
  BY <1>1, <1>10 DEF Log!Next

\* Copying a page is a delivery, rewinding starts over, counting is invisible.
LEMMA ReaderRefines ==
    ASSUME Inv, DeliveredIsJournalPrefix, DeliveredIsJournalPrefix',
           NEW r \in Readers, ReaderStep(r)
    PROVE  Log!Next \/ UNCHANGED Log!vars
<1>1. /\ completion_journal \in Seq(Ids) /\ cursor[r] \in Nat
      /\ cursor[r] <= completion_count /\ delivered[r] = SubSeq(completion_journal, 1, cursor[r])
  <2>1. completion_journal \in Seq(Ids) /\ cursor[r] \in Nat /\ page[r] \in Nat \cup {-1}
    BY DEF Inv, TypeOK
  <2>2. completion_count \in Nat
    BY <2>1 DEF completion_count
  <2>3. /\ cursor[r] + (IF page[r] = -1 THEN 0 ELSE page[r]) <= completion_count
        /\ delivered[r] = SubSeq(completion_journal, 1, cursor[r])
    BY DEF DeliveredIsJournalPrefix
  <2>4. cursor[r] <= completion_count
    BY <2>1, <2>2, <2>3
  <2> QED
    BY <2>1, <2>3, <2>4
<1>2. UNCHANGED <<records, completion_journal>>
  BY DEF ReaderStep, CountCompleted, CopyCompleted, Rewind, table
<1>3. UNCHANGED [id \in DOMAIN records |-> records[id].state]
  BY <1>2
<1>4. ASSUME NEW limit \in Limits, CountCompleted(r, limit) PROVE UNCHANGED Log!vars
  BY <1>2, <1>3, <1>4 DEF CountCompleted, Log!vars
<1>5. ASSUME CopyCompleted(r) PROVE Log!Deliver(r)
  <2>1. /\ cursor'[r] = cursor[r] + page[r] /\ page[r] \in Nat
        /\ cursor[r] + page[r] <= completion_count
    BY <1>5 DEF CopyCompleted, Inv, TypeOK, CallsInv
  <2>2. delivered'[r] = SubSeq(completion_journal, 1, cursor'[r])
    BY <1>2 DEF DeliveredIsJournalPrefix
  <2>3. \E v : delivered' = [delivered EXCEPT ![r] = v]
    BY <1>5 DEF CopyCompleted
  <2>4. delivered' = [delivered EXCEPT ![r] = SubSeq(completion_journal, 1, cursor'[r])]
    BY <2>2, <2>3 DEF Inv, TypeOK
  <2>5. cursor'[r] \in Len(delivered[r]) .. Len(completion_journal)
    <3>1. Len(delivered[r]) = cursor[r]
      BY <1>1 DEF completion_count
    <3> QED
      BY <1>1, <2>1, <3>1 DEF completion_count
  <2> QED
    BY <1>2, <1>3, <2>4, <2>5 DEF Log!Deliver
<1>6. ASSUME Rewind(r) PROVE Log!StartOver(r)
  BY <1>2, <1>3, <1>6 DEF Rewind, Log!StartOver
<1> QED
  BY <1>4, <1>5, <1>6 DEF ReaderStep, Log!Next

\* The store implements the abstract completion log: each critical section is
\* one abstract step or none.
THEOREM StoreImplementsLog == Spec => CompletionLogSpec
<1>1. ASSUME Inv, Inv', DeliveredIsJournalPrefix, DeliveredIsJournalPrefix', [Next]_vars
      PROVE  [Log!Next]_(Log!vars)
  <2>1. CASE \E id \in DOMAIN records : Completion(id)
    BY <1>1, <2>1, CompletionRefines
  <2>2. CASE \E r \in Readers : ReaderStep(r)
    BY <1>1, <2>2, ReaderRefines
  <2>3. CASE UNCHANGED <<records, completion_journal>> /\ UNCHANGED reading
    BY <2>3 DEF reading, Log!vars
  <2> QED
    BY <1>1, <2>1, <2>2, <2>3, StepCompletesOrStays
<1> QED
  BY <1>1, InitInv, NextInv, InitDelivered, NextDelivered, InitRefines, PTL
     DEF Spec, CompletionLogSpec, Log!Spec
-----------------------------------------------------------------------------
\* Blocks and records tell the same tree, read off one record at a time.
BlockFits(id) ==
    /\ records[id].state = "published" <=> records[id].block # NULL
    /\ records[id].block # NULL =>
         \A k \in DOMAIN records[id].block.rows :
           LET child == records[id].block.first_child_id + k - 1
           IN /\ child \in DOMAIN records
              /\ records[child].parent_id = id
              /\ records[child].parent_entry_index = records[id].block.rows[k]

\* The parent of a directory has a smaller id and names it.
ParentFits(id) ==
    /\ records[id].parent_id \in DOMAIN records /\ records[id].parent_id < id
    /\ NameKnown(id)

TreeInv ==
    /\ \A id \in DOMAIN records : BlockFits(id)
    /\ \A id \in DOMAIN records \ {ROOT_DIRECTORY_ID} : ParentFits(id)

\* Parents of ever smaller ids lead to the root: the chain of a directory is that
\* of its parent with the directory in front, and no longer than its id.
LEMMA ChainsExist ==
    ASSUME TypeOK, TreeInv, NEW id \in DOMAIN records
    PROVE  HasChain(id)
<1> DEFINE Short(i) == \E chain \in Seq(Ids) : IsChain(chain, i) /\ Len(chain) <= i
           Done == {n \in Nat : \A i \in DOMAIN records : i <= n => Short(i)}
<1>1. /\ DOMAIN records = 0 .. directory_count - 1 /\ directory_count \in 1 .. MaxId
      /\ MaxId \in Nat \ {0} /\ DOMAIN records \subseteq Ids /\ ROOT_DIRECTORY_ID = 0
  BY MaxIdAssumption DEF TypeOK, Ids, ROOT_DIRECTORY_ID
<1>2. 0 \in Done
  <2>1. <<>> \in Seq(Ids) /\ Len(<<>>) = 0 /\ DOMAIN <<>> = {}
    BY EmptySeq
  <2>2. IsChain(<<>>, 0)
    BY <1>1, <2>1 DEF IsChain
  <2>3. Short(0)
    <3> SUFFICES \E chain \in Seq(Ids) : IsChain(chain, 0) /\ Len(chain) <= 0
      OBVIOUS
    <3> WITNESS <<>> \in Seq(Ids)
    <3> QED BY <2>1, <2>2
  <2>4. \A i \in DOMAIN records : i <= 0 => i = 0
    BY <1>1
  <2> QED
    BY <2>3, <2>4
<1>3. ASSUME NEW n \in Nat, n \in Done PROVE n + 1 \in Done
  <2> SUFFICES ASSUME NEW i \in DOMAIN records, i <= n + 1 PROVE Short(i)
    OBVIOUS
  <2>1. CASE i <= n
    BY <1>3, <2>1
  <2>2. CASE i = n + 1
    <3> DEFINE up == records[i].parent_id
    <3>1. i # ROOT_DIRECTORY_ID /\ i \in Nat /\ up \in DOMAIN records /\ up < i /\ up \in Nat
      BY <1>1, <2>2 DEF TreeInv, ParentFits
    <3>2. up <= n
      BY <2>2, <3>1
    <3>3. PICK c \in Seq(Ids) : IsChain(c, up) /\ Len(c) <= up
      BY <1>3, <3>1, <3>2
    <3> DEFINE m == Len(c)
               d == [k \in 1 .. m + 1 |-> IF k = 1 THEN i ELSE c[k - 1]]
    <3>4. m \in Nat /\ DOMAIN c = 1 .. m
      BY <3>3, LenProperties
    <3>5. \A k \in 1 .. m : c[k] \in Ids
      BY <3>3, ElementOfSeq
    <3>6. \A k \in 1 .. m + 1 : d[k] \in Ids
      <4> SUFFICES ASSUME NEW k \in 1 .. m + 1 PROVE d[k] \in Ids
        OBVIOUS
      <4>1. k = 1 \/ k - 1 \in 1 .. m
        BY <3>4
      <4> QED BY <1>1, <3>5, <4>1
    <3>7. d \in Seq(Ids) /\ Len(d) = m + 1 /\ DOMAIN d = 1 .. m + 1
      <4>1. d \in [1 .. m + 1 -> Ids]
        BY <3>6
      <4>2. m + 1 \in Nat
        BY <3>4
      <4> HIDE DEF d, m
      <4> QED BY <4>1, <4>2
    <3>8. d[1] = i /\ \A k \in 1 .. m : d[k + 1] = c[k]
      BY <3>4
    <3>9. ASSUME NEW k \in 1 .. m + 1
          PROVE  /\ d[k] \in DOMAIN records \ {ROOT_DIRECTORY_ID}
                 /\ records[d[k]].parent_id < d[k]
                 /\ records[d[k]].parent_id = IF k = m + 1 THEN ROOT_DIRECTORY_ID ELSE d[k + 1]
      <4> HIDE DEF d, m
      <4>1. CASE k = 1
        <5>1. CASE m = 0
          <6>1. up = ROOT_DIRECTORY_ID
            BY <3>3, <3>4, <5>1, EmptySeq DEF IsChain, m
          <6> QED BY <3>1, <3>8, <4>1, <5>1, <6>1
        <5>2. CASE m # 0
          <6>1. c # <<>> /\ 1 \in 1 .. m /\ k # m + 1
            BY <3>4, <4>1, <5>2, EmptySeq DEF m
          <6>2. d[2] = c[1] /\ c[1] = up
            BY <3>3, <3>8, <6>1 DEF IsChain
          <6> QED BY <3>1, <3>8, <4>1, <6>1, <6>2
        <5> QED BY <5>1, <5>2
      <4>2. CASE k # 1
        <5>1. PICK j \in 1 .. m : k = j + 1
          <6>1. k - 1 \in 1 .. m /\ k = (k - 1) + 1
            BY <3>4, <4>2
          <6> QED BY <6>1
        <5>2. d[k] = c[j] /\ (j # m => j + 1 \in 1 .. m /\ d[k + 1] = c[j + 1])
          BY <3>4, <3>8, <5>1
        <5>3. /\ c[j] \in DOMAIN records \ {ROOT_DIRECTORY_ID}
              /\ records[c[j]].parent_id < c[j]
              /\ records[c[j]].parent_id = IF j = m THEN ROOT_DIRECTORY_ID ELSE c[j + 1]
          BY <3>3, <3>4, <5>1 DEF IsChain, m
        <5>4. j = m <=> k = m + 1
          BY <3>4, <5>1
        <5> QED BY <5>1, <5>2, <5>3, <5>4
      <4> QED BY <4>1, <4>2
    <3>10. IsChain(d, i)
      <4> HIDE DEF d, m
      <4>1. d # <<>>
        BY <3>4, <3>7, EmptySeq
      <4> QED BY <3>1, <3>7, <3>8, <3>9, <4>1 DEF IsChain
    <3>11. Len(d) <= i
      <4> HIDE DEF d, up
      <4> QED BY <3>1, <3>3, <3>4, <3>7
    <3> HIDE DEF d
    <3> QED BY <3>7, <3>10, <3>11
  <2>3. i \in Nat
    BY <1>1
  <2> QED BY <2>1, <2>2, <2>3
<1> HIDE DEF Done
<1>4. Nat \subseteq Done
  BY <1>2, <1>3, Induction
<1>5. id \in Nat /\ id <= MaxId - 1 /\ id <= id
  BY <1>1
<1>6. Short(id)
  BY <1>4, <1>5 DEF Done
<1>7. PICK chain \in Seq(Ids) : IsChain(chain, id) /\ Len(chain) <= id
  BY <1>6
<1>8. Len(chain) \in 0 .. MaxId - 1 /\ chain \in [1 .. Len(chain) -> Ids]
  BY SMTT(30), ZenonT(30), <1>1, <1>5, <1>7, LenProperties
<1>9. chain \in Chains
  BY SMTT(30), ZenonT(30), <1>8 DEF Chains
<1> QED BY <1>7, <1>9 DEF HasChain
-----------------------------------------------------------------------------
\* What a publication by t does to the records: the directory gets its block, and
\* its children are the n new ones from first on.
Publication(id, built, n) ==
    LET first == directory_count
    IN /\ id \in DOMAIN records /\ records[id].state = "pending"
       /\ n = Len(built.rows) /\ n \in Nat /\ directory_count' = first + n
       /\ DOMAIN records' = DOMAIN records \cup first .. first + n - 1
       /\ first .. first + n - 1 \cap DOMAIN records = {}
       /\ records'[id] = CompletedRecord(records[id], "published", NumberedBlock(built, first))
       /\ \A i \in DOMAIN records \ {id} : records'[i] = records[i]
       /\ \A k \in 1 .. n : /\ first + k - 1 \in first .. first + n - 1
                            /\ records'[first + k - 1] = ChildRecord(id, built, k)
       /\ \A i \in first .. first + n - 1 : \E k \in 1 .. n : i = first + k - 1

\* The children of a publication are new, and each is named by its row.
LEMMA WhatPublishDoes ==
    ASSUME Inv, NEW t \in Threads, PublishBlock(t)
    PROVE  Publication(call[t].id, call[t].held, Len(call[t].held.rows))
<1> DEFINE id == call[t].id
           built == call[t].held
           n == Len(built.rows)
           first == directory_count
           children == first .. first + n - 1
           record == CompletedRecord(records[id], "published", NumberedBlock(built, first))
<1>1. /\ TypeOK /\ id \in Ids /\ id \in DOMAIN records
      /\ first \in Nat /\ DOMAIN records = 0 .. first - 1
      /\ built \in Block
  BY SMTT(30), ZenonT(30) DEF Inv, TypeOK, CallsInv, PublishBlock, Completable, IsDirectory, Call, Ids
<1>2. built.rows \in Seq(Nat) /\ n \in Nat
  BY <1>1, LenProperties DEF Block
<1>3. /\ records' = [i \in DOMAIN records \cup children |->
                    IF i \in children THEN ChildRecord(id, built, i - first + 1)
                    ELSE IF i = id THEN record ELSE records[i]]
      /\ directory_count' = first + n /\ records[id].state = "pending"
  BY DEF PublishBlock, Completable
<1> HIDE DEF id, built, n, record
<1>4. children \cap DOMAIN records = {}
  BY <1>1, <1>2
<1>5. DOMAIN records' = DOMAIN records \cup children
  BY <1>3
<1>6. records'[id] = record
  BY <1>1, <1>3, <1>4
<1>7. \A i \in DOMAIN records \ {id} : records'[i] = records[i]
  BY <1>3, <1>4
<1>8. \A k \in 1 .. n : first + k - 1 \in children /\ (first + k - 1) - first + 1 = k
  BY <1>1, <1>2
<1>9. \A k \in 1 .. n : records'[first + k - 1] = ChildRecord(id, built, k)
  BY <1>3, <1>8
<1>10. \A i \in children : i - first + 1 \in 1 .. n /\ i = first + (i - first + 1) - 1
  BY <1>1, <1>2
<1>11. \A i \in children : \E k \in 1 .. n : i = first + k - 1
  BY <1>10
<1> QED
  BY SMTT(30), ZenonT(30), <1>1, <1>2, <1>3, <1>4, <1>5, <1>6, <1>7, <1>8, <1>9, <1>11 DEF Publication, id, built, n, record

\* What every step keeps of the tree.
TreeGrows ==
    /\ DOMAIN records \subseteq DOMAIN records'
    /\ \A i \in DOMAIN records :
          /\ records'[i].parent_id = records[i].parent_id
          /\ records'[i].parent_entry_index = records[i].parent_entry_index
          /\ records[i].block # NULL => records'[i].block = records[i].block

\* What a failure does to the records.
Failure(id) ==
    /\ id \in DOMAIN records /\ records[id].state = "pending"
    /\ records' = [records EXCEPT ![id] = CompletedRecord(records[id], "failed", NULL)]

\* What a step that completes nothing leaves alone.
Quiet == UNCHANGED <<directory_count, records, published_count, failed_count, entry_count,
                     completion_journal>>

\* A step publishes, fails or completes nothing.
LEMMA StepKinds ==
    ASSUME Inv, [Next]_vars
    PROVE  \/ \E t \in Threads : PublishBlock(t)
           \/ \E t \in Threads, id \in Ids : Fail(t, id)
           \/ Quiet
<1>1. ASSUME NEW t \in Threads, ThreadStep(t)
      PROVE  PublishBlock(t) \/ (\E id \in Ids : Fail(t, id)) \/ Quiet
  <2>1. CASE PublishOutOfMemory(t)
    BY <2>1 DEF PublishOutOfMemory, Quiet
  <2>2. ASSUME NEW id \in Ids, NEW batch \in Batches, BuildBlock(t, id, batch)
        PROVE  Quiet
    BY <2>2 DEF BuildBlock, table, Quiet
  <2>3. ASSUME NEW id \in Ids, OpenPath(t, id) \/ FetchSnapshot(t, id)
        PROVE  Quiet
    BY <2>3 DEF OpenPath, FetchSnapshot, table, Quiet
  <2>4. ASSUME NEW batch \in Batches, ReadDirectory(t, batch)
        PROVE  Quiet
    BY <2>4 DEF ReadDirectory, table, Quiet
  <2>5. ASSUME \/ StartWalk(t) \/ RefuseWalk(t) \/ OpenComponent(t) \/ WalkDone(t)
               \/ PublishRefused(t) \/ FetchReturn(t)
        PROVE  Quiet
    BY <2>5 DEF StartWalk, RefuseWalk, OpenComponent, WalkDone, PublishRefused, FetchReturn, table, Quiet
  <2> QED
    BY <1>1, <2>1, <2>2, <2>3, <2>4, <2>5 DEF ThreadStep
<1>2. ASSUME NEW r \in Readers, ReaderStep(r) PROVE Quiet
  BY <1>2 DEF ReaderStep, CountCompleted, CopyCompleted, Rewind, table, Quiet
<1>3. CASE CloseTraversal
  BY <1>3 DEF CloseTraversal, table, Quiet
<1>4. CASE UNCHANGED vars
  BY <1>4 DEF vars, table, Quiet
<1> QED
  BY <1>1, <1>2, <1>3, <1>4 DEF Next

\* A publication or failure appends one entry, and nothing else touches the journal,
\* so what leaves the journal alone completes nothing.
THEOREM FailedCallsLeaveNoTrace == Spec => OnlyCompletionsChangeTheTree
<1> DEFINE A == (completion_journal' = completion_journal) =>
                   UNCHANGED <<directory_count, records, published_count, failed_count, entry_count>>
<1>1. ASSUME Inv, [Next]_vars PROVE A
  <2>1. completion_journal \in Seq(Ids)
    BY <1>1 DEF Inv, TypeOK
  <2>2. ASSUME NEW id \in Ids, completion_journal' = JournalWith(id)
        PROVE  completion_journal' # completion_journal
    <3>1. /\ Len(completion_journal) \in Nat
          /\ Len(Append(completion_journal, id)) = Len(completion_journal) + 1
      BY <2>1, LenProperties, AppendProperties
    <3>2. Len(Append(completion_journal, id)) # Len(completion_journal)
      BY <3>1
    <3> QED BY <2>2, <3>2 DEF JournalWith
  <2>3. ASSUME NEW t \in Threads, PublishBlock(t) PROVE A
    <3>1. call[t].id \in Ids /\ completion_journal' = JournalWith(call[t].id)
      BY <1>1, <2>3 DEF PublishBlock, Inv, TypeOK, Call
    <3> QED BY <2>2, <3>1
  <2>4. ASSUME NEW t \in Threads, NEW id \in Ids, Fail(t, id) PROVE A
    BY <2>2, <2>4 DEF Fail
  <2>5. CASE Quiet
    BY <2>5 DEF Quiet
  <2> QED BY <1>1, <2>3, <2>4, <2>5, StepKinds
<1>2. Inv /\ [Next]_vars => [A]_vars
  BY <1>1
<1> QED
  BY <1>2, InitInv, NextInv, PTL DEF Spec, OnlyCompletionsChangeTheTree
-----------------------------------------------------------------------------
\* What the types say of a record and its block.
LEMMA BlockOfRecord ==
    ASSUME Inv, NEW i \in DOMAIN records
    PROVE  /\ records[i] \in Record /\ i \in Nat /\ i < directory_count
           /\ records[i].block # NULL => records[i].block \in Block
           /\ records[i].block # NULL =>
                /\ records[i].block.rows \in Seq(Nat)
                /\ DOMAIN records[i].block.rows = 1 .. Len(records[i].block.rows)
<1>1. records[i] \in Record /\ i \in Nat /\ i < directory_count
  BY MaxIdAssumption DEF Inv, TypeOK
<1>2. records[i].block # NULL => records[i].block \in Block
  BY <1>1 DEF Record
<1>3. records[i].block # NULL => records[i].block.rows \in Seq(Nat)
  BY <1>2 DEF Block
<1>4. records[i].block # NULL => DOMAIN records[i].block.rows = 1 .. Len(records[i].block.rows)
  BY <1>3, LenProperties
<1> QED BY <1>1, <1>2, <1>3, <1>4

\* A directory that is published was pending and had no block to lose.
LEMMA PublicationGrows ==
    ASSUME Inv, TreeInv, NEW id, NEW built, NEW n, Publication(id, built, n)
    PROVE  TreeGrows
<1>1. /\ id \in DOMAIN records /\ DOMAIN records \subseteq DOMAIN records'
      /\ records'[id] = CompletedRecord(records[id], "published", NumberedBlock(built, directory_count))
      /\ \A i \in DOMAIN records \ {id} : records'[i] = records[i]
      /\ records[id].state = "pending"
  BY DEF Publication
<1>2. records[id].block = NULL
  BY <1>1 DEF TreeInv, BlockFits
<1>3. /\ records'[id].parent_id = records[id].parent_id
      /\ records'[id].parent_entry_index = records[id].parent_entry_index
  BY <1>1 DEF CompletedRecord
<1> QED BY <1>1, <1>2, <1>3 DEF TreeGrows

\* Nor had one that fails.
LEMMA FailureGrows ==
    ASSUME Inv, TreeInv, NEW id, Failure(id)
    PROVE  TreeGrows
<1>1. /\ id \in DOMAIN records /\ DOMAIN records = DOMAIN records'
      /\ records'[id] = CompletedRecord(records[id], "failed", NULL)
      /\ \A i \in DOMAIN records \ {id} : records'[i] = records[i]
      /\ records[id].state = "pending"
  BY DEF Failure
<1>2. records[id].block = NULL
  BY <1>1 DEF TreeInv, BlockFits
<1>3. /\ records'[id].parent_id = records[id].parent_id
      /\ records'[id].parent_entry_index = records[id].parent_entry_index
  BY <1>1 DEF CompletedRecord
<1> QED BY <1>1, <1>2, <1>3 DEF TreeGrows

\* A record that a step does not replace keeps what the tree says of it.
LEMMA BlockFitsStays ==
    ASSUME TreeGrows, NEW i \in DOMAIN records, records'[i] = records[i], BlockFits(i)
    PROVE  BlockFits(i)'
BY DEF TreeGrows, BlockFits

\* A name stays where it was, since the block of a parent does.
LEMMA ParentFitsStays ==
    ASSUME TreeGrows, NEW i \in DOMAIN records, ParentFits(i)
    PROVE  ParentFits(i)'
<1>1. /\ records[i].parent_id \in DOMAIN records /\ records[i].parent_id < i
      /\ records'[i].parent_id = records[i].parent_id
      /\ records'[i].parent_entry_index = records[i].parent_entry_index
      /\ records'[records[i].parent_id].block = records[records[i].parent_id].block
      /\ records[records[i].parent_id].block # NULL
      /\ HasName(records[records[i].parent_id].block, records[i].parent_entry_index)
  BY DEF TreeGrows, ParentFits, NameKnown
<1>2. /\ records'[i].parent_id \in DOMAIN records' /\ records'[i].parent_id < i
      /\ records'[records'[i].parent_id].block = records[records[i].parent_id].block
  BY <1>1 DEF TreeGrows
<1> QED BY <1>1, <1>2 DEF ParentFits, NameKnown

\* The new block and its children agree, with ids that go up.
LEMMA PublicationTree ==
    ASSUME Inv, TreeInv, NEW id, NEW built \in Block, NEW n, Publication(id, built, n),
           ValidBlock(built)
    PROVE  TreeInv'
<1> DEFINE first == directory_count
           new == first .. first + n - 1
           block == NumberedBlock(built, first)
<1>1. /\ id \in DOMAIN records /\ records[id].state = "pending"
      /\ n = Len(built.rows) /\ n \in Nat
      /\ DOMAIN records' = DOMAIN records \cup new
      /\ new \cap DOMAIN records = {}
      /\ records'[id] = CompletedRecord(records[id], "published", block)
      /\ \A i \in DOMAIN records \ {id} : records'[i] = records[i]
      /\ \A k \in 1 .. n : first + k - 1 \in new /\ records'[first + k - 1] = ChildRecord(id, built, k)
      /\ \A i \in new : \E k \in 1 .. n : i = first + k - 1
  BY DEF Publication
<1>2. TreeGrows
  BY PublicationGrows
<1>3. first \in 1 .. MaxId /\ MaxId \in Nat /\ id \in Nat /\ id < first
  BY <1>1, MaxIdAssumption DEF Inv, TypeOK
<1>4. built.rows \in Seq(Nat) /\ DOMAIN built.rows = 1 .. n /\ built.first_child_id \in 0 .. MaxId
  BY <1>1, LenProperties DEF Block
<1>5. /\ records'[id].state = "published" /\ records'[id].block = block
      /\ block.types = built.types /\ block.rows = built.rows
      /\ built.rows # <<>> => block.first_child_id = first
  BY <1>1 DEF CompletedRecord, NumberedBlock
<1>6. block # NULL
  <2>1. block \in [types : Seq(Kinds), rows : Seq(Nat), first_child_id : 0 .. MaxId]
    BY <1>3, <1>4 DEF Block, NumberedBlock
  <2> QED BY <2>1, NULLAssumption
<1>7. \A k \in 1 .. n : /\ records'[first + k - 1].parent_id = id
                        /\ records'[first + k - 1].parent_entry_index = built.rows[k]
                        /\ records'[first + k - 1].state = "pending"
                        /\ records'[first + k - 1].block = NULL
  <2>1. ASSUME NEW k \in 1 .. n
        PROVE  LET c == ChildRecord(id, built, k)
               IN /\ c.parent_id = id /\ c.parent_entry_index = built.rows[k]
                  /\ c.state = "pending" /\ c.block = NULL
    BY DEF ChildRecord, NewRecord
  <2> HIDE DEF new, block
  <2> QED BY <1>1, <2>1
<1> HIDE DEF block
<1>8. BlockFits(id)'
  <2> SUFFICES ASSUME NEW k \in DOMAIN records'[id].block.rows
               PROVE  LET child == records'[id].block.first_child_id + k - 1
                      IN /\ child \in DOMAIN records'
                         /\ records'[child].parent_id = id
                         /\ records'[child].parent_entry_index = records'[id].block.rows[k]
    BY <1>5, <1>6 DEF BlockFits
  <2>1. k \in 1 .. n
    BY <1>4, <1>5
  <2>2. built.rows # <<>>
    BY <1>1, <2>1, EmptySeq
  <2>3. records'[id].block.first_child_id + k - 1 = first + k - 1
    BY <1>5, <2>2
  <2>4. first + k - 1 \in DOMAIN records'
    BY <1>1, <2>1
  <2> QED BY <1>5, <1>7, <2>1, <2>3, <2>4
<1>9. ASSUME NEW i \in new PROVE BlockFits(i)' /\ ParentFits(i)'
  <2>1. PICK k \in 1 .. n : i = first + k - 1
    BY <1>1
  <2>2. /\ records'[i].parent_id = id /\ records'[i].parent_entry_index = built.rows[k]
        /\ records'[i].state = "pending" /\ records'[i].block = NULL
    BY <1>7, <2>1
  <2>3. BlockFits(i)'
    BY <2>2 DEF BlockFits
  <2>4. id \in DOMAIN records' /\ id < i
    BY <1>1, <1>3, <2>1
  <2>5. HasName(block, built.rows[k])
    BY <1>4, <1>5 DEF ValidBlock, HasName
  <2>6. ParentFits(i)'
    BY <1>5, <1>6, <2>2, <2>4, <2>5 DEF ParentFits, NameKnown
  <2> QED BY <2>3, <2>6
<1>10. ASSUME NEW i \in DOMAIN records, i # id PROVE BlockFits(i)'
  BY <1>1, <1>2, <1>10, BlockFitsStays DEF TreeInv
<1>11. ASSUME NEW i \in DOMAIN records \ {ROOT_DIRECTORY_ID} PROVE ParentFits(i)'
  BY <1>2, ParentFitsStays DEF TreeInv
<1> HIDE DEF new
<1> QED BY <1>1, <1>8, <1>9, <1>10, <1>11 DEF TreeInv

\* A failed directory has neither block nor children.
LEMMA FailureTree ==
    ASSUME Inv, TreeInv, NEW id, Failure(id)
    PROVE  TreeInv'
<1>1. /\ id \in DOMAIN records /\ DOMAIN records' = DOMAIN records
      /\ records'[id] = CompletedRecord(records[id], "failed", NULL)
      /\ \A i \in DOMAIN records \ {id} : records'[i] = records[i]
  BY DEF Failure
<1>2. TreeGrows
  BY FailureGrows
<1>3. records'[id].state = "failed" /\ records'[id].block = NULL
  BY <1>1 DEF CompletedRecord
<1>4. BlockFits(id)'
  BY <1>3 DEF BlockFits
<1>5. ASSUME NEW i \in DOMAIN records, i # id PROVE BlockFits(i)'
  BY <1>1, <1>2, <1>5, BlockFitsStays DEF TreeInv
<1>6. ASSUME NEW i \in DOMAIN records \ {ROOT_DIRECTORY_ID} PROVE ParentFits(i)'
  BY <1>2, ParentFitsStays DEF TreeInv
<1> QED BY <1>1, <1>4, <1>5, <1>6 DEF TreeInv
-----------------------------------------------------------------------------
\* As many segments as a number of records needs hold that number.
LEMMA SegmentsHold ==
    ASSUME NEW count \in Nat
    PROVE  SegmentsFor(count) \in Nat /\ count <= SegmentsFor(count) * SegmentSize
<1> DEFINE s == SegmentSize
           a == count + s - 1
           q == a \div s
<1>1. s \in Nat /\ s > 0 /\ a \in Nat
  BY SegmentSizeAssumption
<1> HIDE DEF s
<1>2. q \in Nat /\ a % s \in 0 .. s - 1 /\ a = s * q + (a % s)
  BY <1>1
<1> HIDE DEF q
<1>3. s * q \in Int /\ s * q = q * s
  BY <1>1, <1>2
<1>4. count + s - 1 <= q * s + (s - 1)
  BY <1>1, <1>2, <1>3
<1>5. count <= q * s
  BY <1>1, <1>3, <1>4
<1> QED BY <1>2, <1>5 DEF SegmentsFor, s, q, a

\* Capacity once granted is there.
LEMMA CapacityHolds ==
    ASSUME Inv, WritesStayAllocated, NEW required \in Nat, NEW ok \in BOOLEAN
    PROVE  /\ EnsureDirectoryCapacity(required, ok) =>
                /\ segment_count' \in Nat /\ segment_count' >= segment_count
                /\ directory_count <= segment_count' * SegmentSize
                /\ ok => required <= segment_count' * SegmentSize
           /\ EnsureCompletionCapacity(ok) =>
                /\ completion_capacity' \in Nat /\ completion_count <= completion_capacity'
                /\ ok => completion_count + 1 <= completion_capacity'
<1>1. /\ SegmentSize \in Nat /\ SegmentSize > 0 /\ JournalChunk \in Nat /\ JournalChunk > 0
      /\ segment_count \in Nat /\ completion_capacity \in Nat /\ completion_count \in Nat
      /\ directory_count \in Nat
      /\ directory_count <= segment_count * SegmentSize /\ completion_count <= completion_capacity
  BY SegmentSizeAssumption, JournalChunkAssumption, LenProperties
     DEF Inv, TypeOK, WritesStayAllocated, completion_count
<1>2. \A m, n \in Nat : m <= n => m * SegmentSize <= n * SegmentSize
  BY <1>1
<1>3. \A n \in Nat : n >= segment_count => directory_count <= n * SegmentSize
  BY <1>1, <1>2
<1>4. SegmentsFor(required) \in Nat /\ required <= SegmentsFor(required) * SegmentSize
  BY SegmentsHold
<1>5. SegmentsFor(required) <= segment_count => required <= segment_count * SegmentSize
  BY <1>1, <1>2, <1>4
<1>6. ASSUME EnsureDirectoryCapacity(required, ok)
      PROVE  /\ segment_count' \in Nat /\ segment_count' >= segment_count
             /\ directory_count <= segment_count' * SegmentSize
             /\ ok => required <= segment_count' * SegmentSize
  <2>1. segment_count' \in Nat /\ segment_count' >= segment_count
    BY <1>1, <1>4, <1>6 DEF EnsureDirectoryCapacity
  <2>2. directory_count <= segment_count' * SegmentSize
    BY <1>3, <2>1
  <2>3. ASSUME ok PROVE required <= segment_count' * SegmentSize
    <3>1. \/ segment_count' = SegmentsFor(required)
          \/ segment_count' = segment_count /\ SegmentsFor(required) <= segment_count
      BY <1>1, <1>4, <1>6, <2>3 DEF EnsureDirectoryCapacity
    <3> QED BY <1>4, <1>5, <3>1
  <2> QED BY <2>1, <2>2, <2>3
<1>7. ASSUME EnsureCompletionCapacity(ok)
      PROVE  /\ completion_capacity' \in Nat /\ completion_count <= completion_capacity'
             /\ ok => completion_count + 1 <= completion_capacity'
  BY <1>1, <1>7 DEF EnsureCompletionCapacity
<1> QED BY <1>6, <1>7

\* Nothing is written before there is room for it.
LEMMA AllocatedKept ==
    ASSUME Inv, Inv', WritesStayAllocated, [Next]_vars
    PROVE  WritesStayAllocated'
<1>1. directory_count' <= MaxId
  BY DEF Inv, TypeOK
<1>3. ASSUME NEW t \in Threads, PublishBlock(t) PROVE WritesStayAllocated'
  <2>1. Publication(call[t].id, call[t].held, Len(call[t].held.rows))
    BY <1>3, WhatPublishDoes
  <2>2. directory_count + Len(call[t].held.rows) \in Nat
    BY SMTT(30), ZenonT(30), <2>1 DEF Publication, Inv, TypeOK
  <2>3. EnsureDirectoryCapacity(directory_count + Len(call[t].held.rows), TRUE) /\ EnsureCompletionCapacity(TRUE)
    BY <1>3 DEF PublishBlock
  <2>4. /\ directory_count + Len(call[t].held.rows) <= segment_count' * SegmentSize
        /\ completion_count + 1 <= completion_capacity'
    BY <2>2, <2>3, CapacityHolds
  <2>5. directory_count' = directory_count + Len(call[t].held.rows) /\ completion_count' = completion_count + 1
    <3>1. call[t].id \in Ids /\ completion_journal \in Seq(Ids)
      BY DEF Inv, TypeOK, Call
    <3> QED BY <1>3, <3>1, AppendProperties DEF PublishBlock, JournalWith, completion_count
  <2> QED BY <1>1, <2>4, <2>5 DEF WritesStayAllocated
<1>4. ASSUME NEW t \in Threads, NEW id \in Ids, Fail(t, id) PROVE WritesStayAllocated'
  <2>1. completion_journal \in Seq(Ids)
    BY DEF Inv, TypeOK
  <2>2. /\ completion_count' = completion_count + 1
        /\ UNCHANGED <<directory_count, segment_count>> /\ EnsureCompletionCapacity(TRUE)
    BY <1>4, <2>1, AppendProperties DEF Fail, JournalWith, completion_count
  <2>3. completion_count + 1 <= completion_capacity'
    BY <2>2, CapacityHolds
  <2> QED BY <1>1, <2>2, <2>3 DEF WritesStayAllocated
<1>5. ASSUME NEW t \in Threads, PublishOutOfMemory(t) PROVE WritesStayAllocated'
  <2> DEFINE required == directory_count + Len(call[t].held.rows)
  <2>1. required \in Nat
    <3>1. call[t].held \in Block
      BY <1>5 DEF PublishOutOfMemory, Inv, TypeOK, CallsInv, Call
    <3> QED BY SMTT(30), ZenonT(30), <3>1, LenProperties DEF Block, Inv, TypeOK
  <2>2. /\ UNCHANGED <<directory_count, completion_journal>>
        /\ \/ EnsureDirectoryCapacity(required, FALSE) /\ UNCHANGED completion_capacity
           \/ EnsureDirectoryCapacity(required, TRUE) /\ EnsureCompletionCapacity(FALSE)
    BY <1>5 DEF PublishOutOfMemory
  <2>3. completion_count' = completion_count
    BY <2>2 DEF completion_count
  <2> HIDE DEF required
  <2>4. directory_count <= segment_count' * SegmentSize
    BY <2>1, <2>2, CapacityHolds
  <2>5. completion_count <= completion_capacity'
    BY <2>1, <2>2, CapacityHolds DEF WritesStayAllocated
  <2> QED BY <1>1, <2>2, <2>3, <2>4, <2>5 DEF WritesStayAllocated
<1>6. ASSUME UNCHANGED table PROVE WritesStayAllocated'
  BY <1>6 DEF table, WritesStayAllocated, completion_count
<1>7. ASSUME NEW t \in Threads, ThreadStep(t), ~ PublishBlock(t), ~ PublishOutOfMemory(t),
             \A id \in Ids : ~ Fail(t, id)
      PROVE  UNCHANGED table
  BY <1>7 DEF ThreadStep, OpenPath, FetchSnapshot, BuildBlock, ReadDirectory, StartWalk, RefuseWalk,
     OpenComponent, WalkDone, PublishRefused, FetchReturn
<1>8. ASSUME NEW r \in Readers, ReaderStep(r) PROVE UNCHANGED table
  BY <1>8 DEF ReaderStep, CountCompleted, CopyCompleted, Rewind
<1>9. CASE CloseTraversal
  BY <1>6, <1>9 DEF CloseTraversal
<1>10. CASE UNCHANGED vars
  BY <1>6, <1>10 DEF vars
<1> QED BY <1>3, <1>4, <1>5, <1>6, <1>7, <1>8, <1>9, <1>10 DEF Next
-----------------------------------------------------------------------------
\* The directories in one state, and those with a block.
With(state) == {id \in DOMAIN records : records[id].state = state}
Filled == {id \in DOMAIN records : records[id].block # NULL}

\* The counters that publish and fail keep, without the one that stats subtracts.
CountsInv ==
    /\ published_count = Cardinality(With("published"))
    /\ failed_count = Cardinality(With("failed"))
    /\ entry_count = SumFunctionOnSet(RowCounts, Filled)

\* There are as many records as ids handed out.
LEMMA RecordsAreFinite ==
    ASSUME Inv, NEW T, T \subseteq DOMAIN records
    PROVE  /\ IsFiniteSet(T) /\ Cardinality(T) \in Nat
           /\ IsFiniteSet(DOMAIN records) /\ Cardinality(DOMAIN records) = directory_count
<1>1. /\ DOMAIN records = 0 .. directory_count - 1
      /\ directory_count \in Nat /\ directory_count >= 1 /\ directory_count - 1 \in Int
  BY MaxIdAssumption DEF Inv, TypeOK
<1>2. /\ IsFiniteSet(DOMAIN records)
      /\ Cardinality(DOMAIN records) = IF 0 > directory_count - 1 THEN 0 ELSE (directory_count - 1) - 0 + 1
  BY <1>1, FS_Interval
<1>3. Cardinality(DOMAIN records) = directory_count
  BY <1>1, <1>2
<1>4. IsFiniteSet(T)
  BY <1>2, FS_Subset
<1> QED BY <1>2, <1>3, <1>4, FS_CardinalityType

\* What is neither published nor failed is pending.
LEMMA CountsAgree ==
    ASSUME Inv, CountsInv
    PROVE  StatsAgree
<1> DEFINE P == With("published")
           F == With("failed")
           W == With("pending")
<1>1. /\ IsFiniteSet(P) /\ IsFiniteSet(F) /\ IsFiniteSet(W)
      /\ Cardinality(P) \in Nat /\ Cardinality(F) \in Nat /\ Cardinality(W) \in Nat
      /\ Cardinality(DOMAIN records) = directory_count
  BY RecordsAreFinite DEF With
<1>2. P \cup F \cup W = DOMAIN records /\ P \cap F = {} /\ (P \cup F) \cap W = {}
  BY DEF Inv, TypeOK, Record, States, With
<1> HIDE DEF P, F, W
<1>3. IsFiniteSet(P \cup F) /\ Cardinality(P \cup F) = Cardinality(P) + Cardinality(F)
  <2>1. Cardinality(P \cap F) = 0
    BY <1>2, FS_EmptySet
  <2>2. /\ IsFiniteSet(P \cup F)
        /\ Cardinality(P \cup F) = Cardinality(P) + Cardinality(F) - Cardinality(P \cap F)
    BY <1>1, FS_Union
  <2> QED BY <1>1, <2>1, <2>2
<1>4. Cardinality(DOMAIN records) = Cardinality(P) + Cardinality(F) + Cardinality(W)
  <2>1. Cardinality((P \cup F) \cap W) = 0
    BY <1>2, FS_EmptySet
  <2>2. Cardinality((P \cup F) \cup W) = Cardinality(P \cup F) + Cardinality(W) - 0
    BY <1>1, <1>3, <2>1, FS_Union
  <2> QED BY <1>1, <1>2, <1>3, <2>2
<1>5. pending_count = Cardinality(W)
  BY <1>1, <1>4 DEF CountsInv, pending_count, P, F
<1>6. DOMAIN RowCounts = Filled
  BY DEF RowCounts, Filled
<1> QED BY <1>5, <1>6 DEF CountsInv, StatsAgree, With, W

\* A step moves at most one directory out of the pending ones.
LEMMA OneMore ==
    ASSUME Inv, NEW id \in DOMAIN records, records[id].state = "pending",
           DOMAIN records \subseteq DOMAIN records',
           \A i \in DOMAIN records \ {id} : records'[i] = records[i],
           \A i \in DOMAIN records' \ DOMAIN records : records'[i].state = "pending",
           NEW state \in {"published", "failed"}
    PROVE  Cardinality(With(state)') = IF records'[id].state = state
                                         THEN Cardinality(With(state)) + 1
                                         ELSE Cardinality(With(state))
<1>1. IsFiniteSet(With(state)) /\ id \notin With(state)
  BY RecordsAreFinite DEF With
<1>2. CASE records'[id].state = state
  <2>1. With(state)' = With(state) \cup {id}
    BY <1>2 DEF With
  <2> QED BY SMTT(10), ZenonT(60), <1>1, <1>2, <2>1, FS_AddElement
<1>3. CASE records'[id].state # state
  <2>1. With(state)' = With(state)
    BY <1>3 DEF With
  <2> QED BY <1>3, <2>1
<1> QED BY <1>2, <1>3

\* The rows of a block can be summed.
LEMMA RowCountsAre ==
    ASSUME Inv
    PROVE  /\ IsFiniteSet(Filled)
           /\ \A i \in Filled : RowCounts[i] = Len(records[i].block.types) /\ RowCounts[i] \in Nat
<1>1. IsFiniteSet(Filled)
  BY RecordsAreFinite DEF Filled
<1>2. ASSUME NEW i \in Filled PROVE RowCounts[i] = Len(records[i].block.types) /\ RowCounts[i] \in Nat
  <2>1. records[i].block \in Block
    BY BlockOfRecord DEF Filled
  <2>2. Len(records[i].block.types) \in Nat
    BY <2>1, LenProperties DEF Block
  <2>3. RowCounts[i] = Len(records[i].block.types)
    BY DEF RowCounts, Filled
  <2> QED BY <2>2, <2>3
<1> QED BY <1>1, <1>2

\* The rows of a newly published block are added once.
LEMMA CountsKept ==
    ASSUME Inv, Inv', TreeInv, TreeInv', CountsInv, [Next]_vars
    PROVE  CountsInv'
<1>1. ASSUME NEW t \in Threads, PublishBlock(t) PROVE CountsInv'
  <2> DEFINE id == call[t].id
             built == call[t].held
             n == Len(built.rows)
             block == NumberedBlock(built, directory_count)
             new == directory_count .. directory_count + n - 1
  <2>1. Publication(id, built, n)
    BY <1>1, WhatPublishDoes
  <2>2. /\ published_count' = published_count + 1 /\ failed_count' = failed_count
        /\ entry_count' = entry_count + Len(built.types)
    BY <1>1 DEF PublishBlock
  <2> HIDE DEF id, built, n
  <2>3. /\ id \in DOMAIN records /\ records[id].state = "pending"
        /\ DOMAIN records' = DOMAIN records \cup new
        /\ \A i \in DOMAIN records \ {id} : records'[i] = records[i]
        /\ records'[id] = CompletedRecord(records[id], "published", block)
    BY <2>1 DEF Publication
  <2>4. \A i \in new : records'[i].state = "pending"
    <3>1. \A i \in new : \E k \in 1 .. n : records'[i] = ChildRecord(id, built, k)
      BY <2>1 DEF Publication
    <3>2. \A k : ChildRecord(id, built, k).state = "pending"
      BY DEF ChildRecord, NewRecord
    <3> QED BY <3>1, <3>2
  <2>5. records'[id].state = "published" /\ records'[id].block = block /\ block.types = built.types
    BY <2>3 DEF CompletedRecord, NumberedBlock
  <2> HIDE DEF new, block
  <2>6. /\ Cardinality(With("published")') = Cardinality(With("published")) + 1
        /\ Cardinality(With("failed")') = Cardinality(With("failed"))
    BY <2>3, <2>4, <2>5, OneMore
  <2>7. \A i \in DOMAIN records' : records'[i].block # NULL <=> records'[i].state = "published"
    BY DEF TreeInv, BlockFits
  <2>8. \A i \in DOMAIN records : records[i].block # NULL <=> records[i].state = "published"
    BY DEF TreeInv, BlockFits
  <2>9. Filled' = Filled \cup {id} /\ id \notin Filled
    BY <2>3, <2>4, <2>5, <2>7, <2>8 DEF Filled
  <2>10. RowCounts'[id] = Len(built.types) /\ \A i \in Filled : RowCounts'[i] = RowCounts[i]
    <3>1. \A i \in Filled' : RowCounts'[i] = Len(records'[i].block.types)
      BY DEF RowCounts, Filled
    <3>2. \A i \in Filled : RowCounts[i] = Len(records[i].block.types) /\ i # id /\ i \in DOMAIN records
      BY <2>9, RowCountsAre DEF Filled
    <3> QED BY <2>3, <2>5, <2>9, <3>1, <3>2
  <2>11. IsFiniteSet(Filled) /\ \A i \in Filled : RowCounts[i] \in Nat
    BY RowCountsAre
  <2>12. Len(built.types) \in Nat
    <3>1. built \in Block
      BY <1>1 DEF PublishBlock, Inv, TypeOK, CallsInv, Call, built
    <3> QED BY <3>1, LenProperties DEF Block
  <2> DEFINE f == RowCounts
             h == RowCounts'
             S == Filled
  <2>13. /\ IsFiniteSet(S) /\ \A i \in S : f[i] \in Nat /\ h[i] = f[i]
         /\ id \notin S /\ \A i \in S \cup {id} : h[i] \in Nat
    BY <2>9, <2>10, <2>11, <2>12
  <2>14. h[id] = Len(built.types)
    BY <2>10
  <2>15. entry_count' = SumFunctionOnSet(f, S) + Len(built.types)
    BY <2>2 DEF CountsInv
  <2>16. (Filled)' = S \cup {id}
    BY <2>9
  <2> HIDE DEF f, h, S
  <2>17. SumFunctionOnSet(h, S) = SumFunctionOnSet(f, S)
    BY <2>13, SumSame
  <2>18. SumFunctionOnSet(h, S \cup {id}) = h[id] + SumFunctionOnSet(h, S)
    BY <2>13, SumAdds
  <2>19. SumFunctionOnSet(f, S) \in Nat
    BY <2>13, SumStep
  <2>20. entry_count' = SumFunctionOnSet(h, S \cup {id})
    BY <2>12, <2>14, <2>15, <2>17, <2>18, <2>19
  <2>21. entry_count' = SumFunctionOnSet(RowCounts', Filled')
    BY <2>16, <2>20 DEF h
  <2> QED BY <2>2, <2>6, <2>21 DEF CountsInv
<1>2. ASSUME NEW t \in Threads, NEW id \in Ids, Fail(t, id) PROVE CountsInv'
  <2>1. id \in DOMAIN records /\ records[id].state = "pending"
    BY <1>2 DEF Fail, Completable, IsDirectory, Inv, TypeOK, Ids
  <2>2. /\ records' = [records EXCEPT ![id] = CompletedRecord(records[id], "failed", NULL)]
        /\ failed_count' = failed_count + 1 /\ UNCHANGED <<published_count, entry_count>>
    BY <1>2 DEF Fail
  <2>3. /\ DOMAIN records' = DOMAIN records
        /\ \A i \in DOMAIN records \ {id} : records'[i] = records[i]
        /\ records'[id].state = "failed" /\ records'[id].block = NULL
    BY <2>1, <2>2 DEF CompletedRecord
  <2>4. /\ Cardinality(With("published")') = Cardinality(With("published"))
        /\ Cardinality(With("failed")') = Cardinality(With("failed")) + 1
    BY <2>1, <2>3, OneMore
  <2>5. records[id].block = NULL
    BY <2>1 DEF TreeInv, BlockFits
  <2>6. Filled' = Filled /\ \A i \in Filled : records'[i] = records[i]
    BY <2>1, <2>3, <2>5 DEF Filled
  <2>7. RowCounts' = RowCounts
    BY <2>6 DEF RowCounts, Filled
  <2> QED BY <2>2, <2>4, <2>6, <2>7 DEF CountsInv
<1>3. CASE Quiet
  BY <1>3 DEF Quiet, CountsInv, With, Filled, RowCounts
<1> QED BY <1>1, <1>2, <1>3, StepKinds
-----------------------------------------------------------------------------
\* The chain of a directory stays: parents never change.
LEMMA ChainStays ==
    ASSUME TreeGrows, NEW chain, NEW id, IsChain(chain, id)
    PROVE  IsChain(chain, id)'
BY DEF TreeGrows, IsChain

\* Where a walk down a chain is: the components left are the front of the chain,
\* and the descriptor is the one before them.
OnTheWay(c, chain) ==
    LET left == Len(c.components)
    IN /\ IsChain(chain, c.id) /\ left <= Len(chain)
       /\ \A k \in 1 .. left : c.components[k] = chain[k]
       /\ c.at = IF left = Len(chain) THEN ROOT_DIRECTORY_ID ELSE chain[left + 1]

\* What a call in progress has found is still there.
CallFits(c) ==
    /\ c.stage = "built" => ValidBlock(c.held)
    /\ c.stage = "walking" => \E chain \in Seq(Ids) : OnTheWay(c, chain)
    /\ c.stage = "opened" => c.at = c.id
    /\ c.stage = "fetching" /\ c.held # NULL =>
         c.id \in DOMAIN records /\ records[c.id].block = c.held

Holders == {t \in Threads : call[t].stage \in Holding}

CallsFit ==
    /\ \A t \in Threads : CallFits(call[t])
    /\ IsFiniteSet(Holders)
    /\ DescriptorsOwned

\* What a call has found without the lock outlives the steps of others.
LEMMA CallFitsStays ==
    ASSUME TreeGrows, NEW c \in Call, CallFits(c)
    PROVE  CallFits(c)'
<1>1. ASSUME NEW chain \in Seq(Ids), OnTheWay(c, chain) PROVE OnTheWay(c, chain)'
  <2>1. IsChain(chain, c.id)'
    BY <1>1, ChainStays DEF OnTheWay
  <2> QED BY <1>1, <2>1 DEF OnTheWay
<1>2. c.stage = "walking" => \E chain \in Seq(Ids) : OnTheWay(c, chain)'
  BY <1>1 DEF CallFits
<1>3. c.stage = "fetching" /\ c.held # NULL =>
         c.id \in DOMAIN records' /\ records'[c.id].block = c.held
  BY DEF CallFits, TreeGrows
<1> QED BY <1>2, <1>3 DEF CallFits

\* A thread that changes its call takes or gives up at most its own descriptor.
Owns(c) == IF c.stage \in Holding THEN 1 ELSE 0

\* The descriptors of the calls are counted one call at a time.
LEMMA HoldersChange ==
    ASSUME Inv, IsFiniteSet(Holders), NEW t \in Threads, NEW c, call' = [call EXCEPT ![t] = c]
    PROVE  /\ IsFiniteSet(Holders') /\ Cardinality(Holders) \in Nat
           /\ Cardinality(Holders') = Cardinality(Holders) + Owns(c) - Owns(call[t])
<1>1. /\ call \in [Threads -> Call] /\ call'[t] = c
      /\ \A u \in Threads \ {t} : call'[u] = call[u]
  BY DEF Inv, TypeOK
<1>2. Holders' = IF c.stage \in Holding THEN Holders \cup {t} ELSE Holders \ {t}
  BY <1>1 DEF Holders
<1>3. t \in Holders <=> call[t].stage \in Holding
  BY DEF Holders
<1>4. Cardinality(Holders) \in Nat
  BY FS_CardinalityType
<1>5. CASE c.stage \in Holding
  <2>1. IsFiniteSet(Holders \cup {t})
        /\ Cardinality(Holders \cup {t}) = IF t \in Holders THEN Cardinality(Holders) ELSE Cardinality(Holders) + 1
    BY FS_AddElement
  <2> QED BY <1>2, <1>3, <1>4, <1>5, <2>1 DEF Owns
<1>6. CASE c.stage \notin Holding
  <2>1. IsFiniteSet(Holders \ {t})
        /\ Cardinality(Holders \ {t}) = IF t \in Holders THEN Cardinality(Holders) - 1 ELSE Cardinality(Holders)
    BY FS_RemoveElement
  <2> QED BY <1>2, <1>3, <1>4, <1>6, <2>1 DEF Owns
<1> QED BY <1>5, <1>6

\* What a thread's step does to the calls and to the descriptors.
CallStep(t, c) ==
    /\ call' = [call EXCEPT ![t] = c] /\ c \in Call /\ CallFits(c)'
    /\ descriptors' = descriptors + Owns(c) - Owns(call[t])
    /\ root_open' = root_open

\* A step of one thread leaves the calls of the others as they were.
LEMMA CallsAfterStep ==
    ASSUME Inv, CallsFit, TreeGrows, NEW t \in Threads, NEW c, CallStep(t, c)
    PROVE  CallsFit'
<1>1. /\ call \in [Threads -> Call] /\ call'[t] = c
      /\ \A u \in Threads \ {t} : call'[u] = call[u]
      /\ DOMAIN call' = Threads
  BY DEF Inv, TypeOK, CallStep
<1>2. ASSUME NEW u \in Threads PROVE CallFits(call[u])'
  <2>1. CASE u = t
    BY <1>1, <2>1 DEF CallStep
  <2>2. CASE u # t
    <3>1. PICK d \in Call : d = call[u]
      BY <1>1
    <3>2. CallFits(d)
      BY <3>1 DEF CallsFit
    <3>3. CallFits(d)'
      BY <3>2, CallFitsStays
    <3>4. call'[u] = d
      BY <1>1, <2>2, <3>1
    <3> QED BY <3>3, <3>4
  <2> QED BY <2>1, <2>2
<1>3. /\ IsFiniteSet(Holders') /\ Cardinality(Holders) \in Nat
      /\ Cardinality(Holders') = Cardinality(Holders) + Owns(c) - Owns(call[t])
  BY HoldersChange DEF CallsFit, CallStep
<1>4. descriptors = (IF root_open THEN 1 ELSE 0) + Cardinality(Holders)
  BY DEF CallsFit, DescriptorsOwned, Holders
<1>5. Owns(c) \in Int /\ Owns(call[t]) \in Int
  BY DEF Owns
<1>6. descriptors' = (IF root_open' THEN 1 ELSE 0) + Cardinality(Holders')
  BY <1>3, <1>4, <1>5 DEF CallStep
<1>7. DescriptorsOwned'
  BY <1>6 DEF DescriptorsOwned, Holders
<1> QED BY <1>2, <1>3, <1>7 DEF CallsFit

\* No step takes back a block or moves a directory.
LEMMA TreeGrowsAlways ==
    ASSUME Inv, TreeInv, [Next]_vars
    PROVE  TreeGrows
<1>1. ASSUME NEW t \in Threads, PublishBlock(t) PROVE TreeGrows
  BY <1>1, WhatPublishDoes, PublicationGrows
<1>2. ASSUME NEW t \in Threads, NEW id \in Ids, Fail(t, id) PROVE TreeGrows
  <2>1. Failure(id)
    BY <1>2 DEF Fail, Failure, Completable, IsDirectory, Inv, TypeOK, Ids
  <2> QED BY <2>1, FailureGrows
<1>3. CASE Quiet
  BY <1>3 DEF Quiet, TreeGrows
<1> QED BY <1>1, <1>2, <1>3, StepKinds

\* The tree stays in agreement, since a block is valid before it is published.
LEMMA TreeKept ==
    ASSUME Inv, TreeInv, CallsFit, [Next]_vars
    PROVE  TreeInv'
<1>1. ASSUME NEW t \in Threads, PublishBlock(t) PROVE TreeInv'
  <2>1. call[t].held \in Block /\ ValidBlock(call[t].held)
    BY <1>1 DEF PublishBlock, Inv, TypeOK, CallsInv, Call, CallsFit, CallFits
  <2> QED BY <1>1, <2>1, WhatPublishDoes, PublicationTree
<1>2. ASSUME NEW t \in Threads, NEW id \in Ids, Fail(t, id) PROVE TreeInv'
  <2>1. Failure(id)
    BY <1>2 DEF Fail, Failure, Completable, IsDirectory, Inv, TypeOK, Ids
  <2> QED BY <2>1, FailureTree
<1>3. CASE Quiet
  BY <1>3 DEF Quiet, TreeInv, BlockFits, ParentFits, NameKnown
<1> QED BY <1>1, <1>2, <1>3, StepKinds
-----------------------------------------------------------------------------
\* Calls in stages without a promise.
LEMMA PlainCalls ==
    ASSUME Inv
    PROVE  /\ Idle \in Call /\ Idle.stage = "idle" /\ Owns(Idle) = 0 /\ CallFits(Idle)'
           /\ \A id \in Ids : LET c == Doing("fallback", id, NO_DIRECTORY_ID, NULL)
                              IN c \in Call /\ Owns(c) = 0 /\ CallFits(c)'
           /\ \A id \in Ids : LET c == Doing("opened", id, id, NULL)
                              IN c \in Call /\ Owns(c) = 1 /\ CallFits(c)'
<1>1. MaxId \in Nat \ {0} /\ 0 \in Ids /\ Ids \subseteq 0 .. MaxId /\ MaxId \in 0 .. MaxId
  BY MaxIdAssumption DEF Ids
<1>2. <<>> \in Seq(Ids)
  BY EmptySeq
<1>3. Idle \in Call /\ Idle.stage = "idle"
  BY <1>1, <1>2 DEF Idle, Doing, ROOT_DIRECTORY_ID, NO_DIRECTORY_ID, Call
<1>4. ASSUME NEW id \in Ids
      PROVE  LET c == Doing("fallback", id, NO_DIRECTORY_ID, NULL)
             IN c \in Call /\ c.stage = "fallback"
  BY <1>1, <1>2 DEF Doing, NO_DIRECTORY_ID, Call
<1>5. ASSUME NEW id \in Ids
      PROVE  LET c == Doing("opened", id, id, NULL)
             IN c \in Call /\ c.stage = "opened" /\ c.at = c.id
  BY <1>1, <1>2 DEF Doing, Call
<1>6. \A c : c.stage \in {"idle", "fallback"} => Owns(c) = 0 /\ CallFits(c)'
  BY DEF Owns, Holding, CallFits
<1>7. \A c : c.stage = "opened" /\ c.at = c.id => Owns(c) = 1 /\ CallFits(c)'
  BY DEF Owns, Holding, CallFits
<1> QED BY <1>3, <1>4, <1>5, <1>6, <1>7

\* A call that ends gives up its descriptor.
LEMMA FinishSteps ==
    ASSUME Inv, NEW t \in Threads, Finish(t), root_open' = root_open,
           descriptors' = descriptors - Owns(call[t])
    PROVE  CallStep(t, Idle)
<1>1. Owns(call[t]) \in Int /\ descriptors \in Int
  BY DEF Owns, Inv, TypeOK
<1> QED BY <1>1, PlainCalls DEF CallStep, Finish

\* Each openat leads one component down the chain, or gives its descriptor back.
LEMMA WalkSteps ==
    ASSUME Inv, TreeInv, CallsFit, TreeGrows, NEW t \in Threads, OpenComponent(t)
    PROVE  \E c : CallStep(t, c)
<1> DEFINE b == call[t]
           n == Len(b.components)
           next == b.components[n]
           rest == SubSeq(b.components, 1, n - 1)
           at == IF records[next].parent_id = b.at THEN next ELSE NO_DIRECTORY_ID
           c == Walking(b.id, rest, at)
<1>1. /\ b \in Call /\ b.stage = "walking" /\ b.components # <<>> /\ b.components \in Seq(Ids)
      /\ UNCHANGED <<table, root_open, reading>> /\ descriptors \in Int
  BY DEF OpenComponent, Inv, TypeOK, Call
<1>2. n \in Nat /\ n # 0 /\ DOMAIN b.components = 1 .. n
  BY <1>1, EmptySeq, LenProperties
<1>3. PICK chain \in Seq(Ids) : OnTheWay(b, chain)
  BY <1>1 DEF CallsFit, CallFits
<1>4. n \in 1 .. n /\ n \in 1 .. Len(chain) /\ DOMAIN chain = 1 .. Len(chain) /\ Len(chain) \in Nat
      /\ n <= Len(chain)
  BY <1>2, <1>3, LenProperties DEF OnTheWay
<1>5. next = chain[n] /\ next \in Ids /\ next \in DOMAIN records
  BY <1>1, <1>3, <1>4, ElementOfSeq DEF OnTheWay, IsChain
<1>6. records[next].parent_id = b.at
  BY SMTT(10), ZenonT(60), <1>3, <1>4, <1>5 DEF OnTheWay, IsChain
<1>7. at = next
  BY <1>6
<1>8. /\ rest \in Seq(Ids) /\ Len(rest) = n - 1
      /\ \A k \in 1 .. n - 1 : rest[k] = b.components[k]
  <2>1. 1 \in 1 .. n + 1 /\ n - 1 \in 1 - 1 .. n
    BY SMTT(30), ZenonT(30), <1>2
  <2> QED BY <1>1, <1>2, <2>1, SubSeqProperties
<1>9. c \in Call /\ c.stage = "walking" /\ c.id = b.id /\ c.components = rest /\ c.at = next
  <2>1. next \in 0 .. MaxId /\ b.id \in Ids
    BY SMTT(30), ZenonT(30), <1>1, <1>5, MaxIdAssumption DEF Ids, Call
  <2> HIDE DEF b, rest, at, next, n
  <2> QED BY <1>7, <1>8, <2>1 DEF Walking, Call
<1> HIDE DEF c, b, rest, at, next, n
\* The call as it is after the step does not change with it.
<1> PICK e \in Call : e = c
  BY <1>9
<1>10. OnTheWay(e, chain)'
  <2>1. IsChain(chain, e.id)'
    <3>1. IsChain(chain, e.id)
      BY <1>3, <1>9 DEF OnTheWay
    <3> QED BY <3>1, ChainStays
  <2>2. Len(e.components) = n - 1 /\ n - 1 <= Len(chain) /\ n - 1 # Len(chain) /\ (n - 1) + 1 = n
    BY <1>2, <1>4, <1>8, <1>9
  <2>3. \A k \in 1 .. n - 1 : e.components[k] = chain[k]
    <3>1. \A k \in 1 .. n - 1 : k \in 1 .. n
      BY <1>2
    <3> QED BY <1>3, <1>8, <1>9, <3>1 DEF OnTheWay, n
  <2>4. PICK m \in Nat : m = n - 1
    BY <1>2
  <2>5. /\ Len(e.components) = m /\ m <= Len(chain) /\ m # Len(chain)
        /\ e.at = chain[m + 1] /\ \A k \in 1 .. m : e.components[k] = chain[k]
    BY <1>5, <1>9, <2>2, <2>3, <2>4
  <2> QED BY <2>1, <2>5 DEF OnTheWay
<1>11. CallFits(e)'
  BY <1>9, <1>10 DEF CallFits
<1>12. Owns(e) = 1 /\ Owns(b) = 1
  BY <1>1, <1>9 DEF Owns, Holding
<1>13. CASE call' = [call EXCEPT ![t] = c] /\ UNCHANGED descriptors
  <2>1. descriptors' = descriptors + Owns(e) - Owns(call[t])
    BY <1>1, <1>12, <1>13 DEF b
  <2> QED BY <1>1, <1>9, <1>11, <1>13, <2>1 DEF CallStep
<1>14. CASE AbandonWalk(t)
  BY <1>1, <1>12, <1>14, FinishSteps DEF AbandonWalk, b
<1>15. \/ call' = [call EXCEPT ![t] = c] /\ UNCHANGED descriptors
       \/ AbandonWalk(t)
  BY DEF OpenComponent, c, b, rest, at, next, n
<1> QED BY <1>13, <1>14, <1>15

\* Every step of a thread keeps what its call has found.
LEMMA ThreadSteps ==
    ASSUME Inv, TreeInv, CallsFit, TreeGrows, NEW t \in Threads, ThreadStep(t)
    PROVE  \/ \E c : CallStep(t, c)
           \/ UNCHANGED <<call, descriptors, root_open>>
<1>0. /\ call[t] \in Call /\ call \in [Threads -> Call] /\ descriptors \in Int
      /\ \A c : c.stage \notin Holding => Owns(c) = 0
      /\ \A c : c.stage \in Holding => Owns(c) = 1
  BY DEF Inv, TypeOK, Owns
<1>1. ASSUME NEW id \in Ids, OpenPath(t, id) PROVE \E c : CallStep(t, c)
  <2> DEFINE c == Doing("opened", id, id, NULL)
             d == Doing("fallback", id, NO_DIRECTORY_ID, NULL)
  <2>1. c \in Call /\ Owns(c) = 1 /\ CallFits(c)' /\ d \in Call /\ Owns(d) = 0 /\ CallFits(d)'
    BY PlainCalls
  <2>2. Owns(call[t]) = 0 /\ root_open' = root_open
    BY <1>0, <1>1 DEF OpenPath, Holding
  <2>3. \/ call' = [call EXCEPT ![t] = c] /\ descriptors' = descriptors + 1
        \/ call' = [call EXCEPT ![t] = d] /\ UNCHANGED descriptors
    BY <1>1 DEF OpenPath
  <2> HIDE DEF c, d
  <2>4. CallStep(t, c) \/ CallStep(t, d)
    BY <1>0, <2>1, <2>2, <2>3 DEF CallStep
  <2> QED BY <2>4
<1>2. ASSUME StartWalk(t) PROVE \E c : CallStep(t, c)
  <2> DEFINE id == call[t].id
             chain == Components(id)
             c == Walking(id, chain, ROOT_DIRECTORY_ID)
  <2>1. /\ call[t].stage = "fallback" /\ HasChain(id) /\ id \in Ids
        /\ call' = [call EXCEPT ![t] = c] /\ descriptors' = descriptors + 1
        /\ UNCHANGED root_open
    BY <1>0, <1>2 DEF StartWalk, Call
  <2>2. chain \in Seq(Ids)
    BY <2>1, ComponentsType
  <2>3. IsChain(chain, id)
    BY <2>1 DEF HasChain, Components
  <2> HIDE DEF chain, id
  <2>4. ROOT_DIRECTORY_ID \in 0 .. MaxId
    BY MaxIdAssumption DEF ROOT_DIRECTORY_ID
  <2>5. c \in Call /\ c.stage = "walking" /\ c.id = id /\ c.components = chain /\ c.at = ROOT_DIRECTORY_ID
    BY <2>1, <2>2, <2>4 DEF Walking, Call
  <2> HIDE DEF c
  <2>6. Len(chain) \in Nat
    BY <2>2, LenProperties
  <2>7. PICK e \in Call, s \in Seq(Ids) : e = c /\ s = chain
    BY <2>2, <2>5
  <2>8. OnTheWay(e, s)'
    <3>1. IsChain(s, e.id)
      BY <2>3, <2>5, <2>7
    <3>2. IsChain(s, e.id)'
      BY <3>1, ChainStays
    <3>3. e.components = s /\ e.at = ROOT_DIRECTORY_ID /\ Len(s) \in Nat
      BY <2>5, <2>6, <2>7
    <3> QED BY <3>2, <3>3 DEF OnTheWay
  <2>9. CallFits(e)' /\ Owns(e) = 1 /\ Owns(call[t]) = 0
    BY <1>0, <2>1, <2>5, <2>7, <2>8 DEF CallFits, Holding
  <2>10. CallStep(t, e)
    BY <1>0, <2>1, <2>7, <2>9 DEF CallStep
  <2> QED BY <2>10
<1>3. ASSUME RefuseWalk(t) PROVE CallStep(t, Idle)
  <2>1. Owns(call[t]) = 0
    BY <1>0, <1>3 DEF RefuseWalk, Holding
  <2> QED BY <1>0, <1>3, <2>1, FinishSteps DEF RefuseWalk
<1>4. ASSUME WalkDone(t) PROVE \E c : CallStep(t, c)
  <2>1. /\ call[t].stage = "walking" /\ call[t].components = <<>> /\ UNCHANGED <<descriptors, root_open>>
        /\ call' = [call EXCEPT ![t] = Doing("opened", call[t].id, call[t].at, NULL)]
    BY <1>4 DEF WalkDone
  <2>2. PICK chain \in Seq(Ids) : OnTheWay(call[t], chain)
    BY <2>1 DEF CallsFit, CallFits
  <2>3. Len(call[t].components) = 0 /\ Len(chain) \in Nat
    BY <2>1, <2>2, EmptySeq, LenProperties
  <2>4. ASSUME chain = <<>> PROVE call[t].at = call[t].id
    <3>1. Len(chain) = 0 /\ call[t].id = ROOT_DIRECTORY_ID
      BY <2>2, <2>4, EmptySeq DEF OnTheWay, IsChain
    <3> QED BY <2>2, <2>3, <3>1 DEF OnTheWay
  <2>5. ASSUME chain # <<>> PROVE call[t].at = call[t].id
    <3>1. Len(chain) # 0 /\ chain[1] = call[t].id
      BY <2>2, <2>5, EmptySeq DEF OnTheWay, IsChain
    <3> QED BY <2>2, <2>3, <3>1 DEF OnTheWay
  <2>6. call[t].at = call[t].id
    BY <2>4, <2>5
  <2>7. PICK id \in Ids : id = call[t].id
    BY <1>0 DEF Call
  <2> DEFINE c == Doing("opened", id, id, NULL)
  <2>8. c \in Call /\ Owns(c) = 1 /\ CallFits(c)'
    BY PlainCalls
  <2>9. call' = [call EXCEPT ![t] = c] /\ Owns(call[t]) = 1
    BY <1>0, <2>1, <2>6, <2>7 DEF Holding
  <2>10. PICK e \in Call : e = c
    BY <2>8
  <2>11. CallFits(e)' /\ e.at = e.id /\ Owns(e) = 1
    BY <1>0, <2>8, <2>10 DEF CallFits, Doing
  <2> HIDE DEF c
  <2>12. descriptors' = descriptors + Owns(e) - Owns(call[t])
    BY <1>0, <2>1, <2>9, <2>11
  <2>13. CallStep(t, e)
    BY <2>1, <2>9, <2>10, <2>11, <2>12 DEF CallStep
  <2> QED BY <2>13
<1>5. ASSUME NEW batch \in Batches, ReadDirectory(t, batch) PROVE \E c : CallStep(t, c)
  <2> DEFINE c == Doing("built", call[t].id, NO_DIRECTORY_ID, BuiltBlock(batch))
  <2>1. /\ call[t].stage = "opened" /\ descriptors' = descriptors - 1 /\ root_open' = root_open
        /\ Owns(call[t]) = 1
    BY <1>0, <1>5 DEF ReadDirectory, Holding
  <2>2. CASE ValidBlock(batch) /\ call' = [call EXCEPT ![t] = c]
    <3>1. BuiltBlock(batch) \in Block /\ ValidBlock(BuiltBlock(batch))
      BY <2>2, BatchesAssumption, MaxIdAssumption DEF Batch, BuiltBlock, Block, ValidBlock, NO_DIRECTORY_ID
    <3>2. NO_DIRECTORY_ID \in 0 .. MaxId /\ call[t].id \in Ids /\ <<>> \in Seq(Ids)
      BY <1>0, MaxIdAssumption, EmptySeq DEF NO_DIRECTORY_ID, Call
    <3>3. c \in Call /\ c.stage = "built" /\ c.held = BuiltBlock(batch)
      BY <3>1, <3>2 DEF Doing, Call
    <3> HIDE DEF c
    <3>4. PICK e \in Call : e = c
      BY <3>3
    <3>5. CallFits(e)' /\ Owns(e) = 0
      <4>1. ValidBlock(e.held) /\ e.stage = "built"
        BY <3>1, <3>3, <3>4
      <4> QED BY <1>0, <4>1 DEF CallFits, Holding
    <3>6. CallStep(t, e)
      BY <1>0, <2>1, <2>2, <3>4, <3>5 DEF CallStep
    <3> QED BY <3>6
  <2>3. CASE Finish(t)
    BY <2>1, <2>3, FinishSteps
  <2> QED BY <1>5, <2>2, <2>3 DEF ReadDirectory
<1>6. ASSUME NEW id \in Ids, NEW batch \in Batches, BuildBlock(t, id, batch) PROVE \E c : CallStep(t, c)
  <2> DEFINE c == Doing("built", id, NO_DIRECTORY_ID, BuiltBlock(batch))
  <2>1. /\ call[t].stage = "idle" /\ descriptors' = descriptors /\ root_open' = root_open
        /\ ValidBlock(batch) /\ call' = [call EXCEPT ![t] = c] /\ Owns(call[t]) = 0
    BY <1>0, <1>6 DEF BuildBlock, Holding
  <2>2. BuiltBlock(batch) \in Block /\ ValidBlock(BuiltBlock(batch))
    BY <2>1, BatchesAssumption, MaxIdAssumption DEF Batch, BuiltBlock, Block, ValidBlock, NO_DIRECTORY_ID
  <2>3. NO_DIRECTORY_ID \in 0 .. MaxId /\ <<>> \in Seq(Ids)
    BY MaxIdAssumption, EmptySeq DEF NO_DIRECTORY_ID
  <2>4. c \in Call /\ c.stage = "built" /\ c.held = BuiltBlock(batch)
    BY <2>2, <2>3 DEF Doing, Call
  <2> HIDE DEF c
  <2>5. CallFits(c)' /\ Owns(c) = 0
    BY <1>0, <2>2, <2>4 DEF CallFits, Holding, ValidBlock
  <2>6. CallStep(t, c)
    BY <1>0, <2>1, <2>4, <2>5 DEF CallStep
  <2> QED BY <2>6
<1>7. ASSUME PublishRefused(t) \/ PublishOutOfMemory(t) \/ PublishBlock(t) PROVE CallStep(t, Idle)
  <2>1. Finish(t) /\ descriptors' = descriptors /\ root_open' = root_open /\ call[t].stage = "built"
    BY <1>7 DEF PublishRefused, PublishOutOfMemory, PublishBlock
  <2>2. Owns(call[t]) = 0
    BY <1>0, <2>1 DEF Holding
  <2> QED BY <1>0, <2>1, <2>2, FinishSteps
<1>8. ASSUME NEW id \in Ids, FetchSnapshot(t, id) PROVE \E c : CallStep(t, c)
  <2> DEFINE c == Doing("fetching", id, NO_DIRECTORY_ID, records[id].block)
  <2>1. /\ call[t].stage = "idle" /\ descriptors' = descriptors /\ root_open' = root_open
        /\ call' = [call EXCEPT ![t] = c] /\ Owns(call[t]) = 0 /\ id \in DOMAIN records
        /\ records' = records
    <3>1. id \in DOMAIN records
      BY <1>8 DEF FetchSnapshot, IsDirectory, Inv, TypeOK, Ids
    <3>2. call[t].stage = "idle" /\ descriptors' = descriptors /\ root_open' = root_open
          /\ call' = [call EXCEPT ![t] = c] /\ records' = records
      BY <1>8 DEF FetchSnapshot, table
    <3> HIDE DEF c
    <3> QED BY <1>0, <3>1, <3>2 DEF Holding
  <2>2. records[id].block \in Block \cup {NULL}
    BY <2>1, BlockOfRecord
  <2>3. NO_DIRECTORY_ID \in 0 .. MaxId /\ <<>> \in Seq(Ids)
    BY MaxIdAssumption, EmptySeq DEF NO_DIRECTORY_ID
  <2>4. c \in Call /\ c.stage = "fetching" /\ c.held = records[id].block /\ c.id = id
    BY <2>2, <2>3 DEF Doing, Call
  <2> HIDE DEF c
  <2>5. PICK e \in Call : e = c
    BY <2>4
  <2>6. e.stage = "fetching" /\ e.id \in DOMAIN records' /\ records'[e.id].block = e.held
    BY <2>1, <2>4, <2>5
  <2>7. CallFits(e)' /\ Owns(e) = 0
    BY <1>0, <2>6 DEF CallFits, Holding
  <2>8. CallStep(t, e)
    BY <1>0, <2>1, <2>5, <2>7 DEF CallStep
  <2> QED BY <2>8
<1>9. ASSUME FetchReturn(t) PROVE CallStep(t, Idle)
  <2>1. Owns(call[t]) = 0
    BY <1>0, <1>9 DEF FetchReturn, Holding
  <2> QED BY <1>0, <1>9, <2>1, FinishSteps DEF FetchReturn
<1>10. ASSUME NEW id \in Ids, Fail(t, id) PROVE UNCHANGED <<call, descriptors, root_open>>
  BY <1>10 DEF Fail
<1>11. ASSUME OpenComponent(t) PROVE \E c : CallStep(t, c)
  BY <1>11, WalkSteps
<1> QED BY <1>1, <1>2, <1>3, <1>4, <1>5, <1>6, <1>7, <1>8, <1>9, <1>10, <1>11 DEF ThreadStep

\* Steps that no call takes part in; closing the root gives up its descriptor.
LEMMA SameCalls ==
    ASSUME Inv, CallsFit, TreeGrows, call' = call,
           \/ UNCHANGED <<descriptors, root_open>>
           \/ root_open = TRUE /\ root_open' = FALSE /\ descriptors' = descriptors - 1
    PROVE  CallsFit'
<1>1. ASSUME NEW u \in Threads PROVE CallFits(call[u])'
  <2>1. PICK d \in Call : d = call[u]
    BY DEF Inv, TypeOK
  <2>2. CallFits(d)
    BY <2>1 DEF CallsFit
  <2>3. CallFits(d)'
    BY <2>2, CallFitsStays
  <2> QED BY <2>1, <2>3
<1>2. Holders' = Holders
  BY DEF Holders
<1>3. Cardinality(Holders) \in Nat /\ descriptors = (IF root_open THEN 1 ELSE 0) + Cardinality(Holders)
  BY FS_CardinalityType DEF CallsFit, DescriptorsOwned, Holders
<1>4. descriptors' = (IF root_open' THEN 1 ELSE 0) + Cardinality(Holders)
  BY <1>3
<1> QED BY <1>1, <1>2, <1>4 DEF CallsFit, DescriptorsOwned, Holders

\* What calls have found and hold stays so with every step.
LEMMA CallsKept ==
    ASSUME Inv, TreeInv, CallsFit, [Next]_vars
    PROVE  CallsFit'
<1>0. TreeGrows
  BY TreeGrowsAlways
<1>1. ASSUME NEW t \in Threads, ThreadStep(t) PROVE CallsFit'
  BY <1>0, <1>1, ThreadSteps, CallsAfterStep, SameCalls
<1>2. ASSUME NEW r \in Readers, ReaderStep(r) PROVE CallsFit'
  <2>1. UNCHANGED <<call, descriptors, root_open>>
    BY <1>2 DEF ReaderStep, CountCompleted, CopyCompleted, Rewind
  <2> QED BY <1>0, <2>1, SameCalls
<1>3. CASE CloseTraversal
  BY <1>0, <1>3, SameCalls DEF CloseTraversal, Inv, TypeOK
<1>4. CASE UNCHANGED vars
  BY <1>0, <1>4, SameCalls DEF vars
<1> QED BY <1>1, <1>2, <1>3, <1>4 DEF Next
-----------------------------------------------------------------------------
\* Everything that a state of the store keeps.
TablesInv == TreeInv /\ CallsFit /\ WritesStayAllocated /\ CountsInv

\* A new store has one pending directory and no counts.
LEMMA InitTables == Init => TablesInv
<1> SUFFICES ASSUME Init PROVE TablesInv
  OBVIOUS
<1>1. /\ DOMAIN records = {ROOT_DIRECTORY_ID} /\ Inv
      /\ records[ROOT_DIRECTORY_ID].state = "pending" /\ records[ROOT_DIRECTORY_ID].block = NULL
  BY InitInv DEF Init, NewRecord
<1>2. TreeInv
  BY <1>1 DEF TreeInv, BlockFits
<1>3. CallsFit
  <2>1. ASSUME NEW t \in Threads PROVE call[t].stage = "idle"
    BY DEF Init, Idle, Doing
  <2>2. Holders = {}
    BY <2>1 DEF Holders, Holding
  <2>3. IsFiniteSet(Holders) /\ Cardinality(Holders) = 0
    BY <2>2, FS_EmptySet
  <2>4. DescriptorsOwned
    <3>1. descriptors = (IF root_open THEN 1 ELSE 0) + Cardinality(Holders)
      BY <2>3 DEF Init
    <3> QED BY <3>1 DEF DescriptorsOwned, Holders
  <2>5. \A t \in Threads : CallFits(call[t])
    BY <2>1 DEF CallFits
  <2> QED BY <2>3, <2>4, <2>5 DEF CallsFit
<1>4. WritesStayAllocated
  <2>1. Len(<<>>) = 0
    BY EmptySeq
  <2> QED BY <2>1, MaxIdAssumption, SegmentSizeAssumption DEF Init, WritesStayAllocated, completion_count
<1>5. CountsInv
  <2>1. With("published") = {} /\ With("failed") = {} /\ Filled = {}
    BY <1>1 DEF With, Filled
  <2>2. SumFunctionOnSet(RowCounts, Filled) = 0
    BY <2>1, FS_EmptySet, SumStep
  <2>3. Cardinality(With("published")) = 0 /\ Cardinality(With("failed")) = 0
    BY <2>1, FS_EmptySet
  <2> QED BY <2>2, <2>3 DEF Init, CountsInv
<1> QED BY <1>2, <1>3, <1>4, <1>5 DEF TablesInv

\* Each part is kept by the steps, given the others.
LEMMA NextTables == Inv /\ TablesInv /\ [Next]_vars => TablesInv'
<1> SUFFICES ASSUME Inv, TablesInv, [Next]_vars PROVE TablesInv'
  OBVIOUS
<1>1. Inv'
  BY NextInv
<1>2. TreeInv'
  BY TreeKept DEF TablesInv
<1>3. CallsFit'
  BY CallsKept DEF TablesInv
<1>4. WritesStayAllocated'
  BY <1>1, AllocatedKept DEF TablesInv
<1>5. CountsInv'
  BY <1>1, <1>2, CountsKept DEF TablesInv
<1> QED BY <1>2, <1>3, <1>4, <1>5 DEF TablesInv

\* The tree read record by record, with a chain to the root for each.
LEMMA TreeAgrees ==
    ASSUME Inv, TreeInv
    PROVE  TreeIsConsistent
<1>1. \A id \in DOMAIN records : HasChain(id)
  BY ChainsExist DEF Inv
<1> QED BY <1>1 DEF TreeIsConsistent, TreeInv, BlockFits, ParentFits

\* Blocks and records tell one tree that every directory has a path in, no write
\* falls outside of an allocation, and stats never lies, for every race for a
\* completion and every allocation that fails.
THEOREM TablesStayInAgreement == Spec => []TablesAgree
<1>1. Inv /\ TablesInv => TablesAgree
  BY TreeAgrees, CountsAgree DEF TablesInv, TablesAgree
<1> QED
  BY <1>1, InitInv, NextInv, InitTables, NextTables, PTL DEF Spec

\* A walk opens the directory it was asked for, a fetch reads the block that
\* the directory still has, and each descriptor belongs to the open root or to
\* one call, although the calls have long dropped the lock.
THEOREM CallsKeepTheTree == Spec => []CallsSeeTheTree
<1>1. Inv /\ TablesInv => CallsSeeTheTree
  <2> SUFFICES ASSUME Inv, TablesInv PROVE CallsSeeTheTree
    OBVIOUS
  <2>1. WalkOpensRequestedDirectory /\ DescriptorsOwned
    BY DEF TablesInv, CallsFit, CallFits, WalkOpensRequestedDirectory
  <2>2. ASSUME NEW t \in Threads, call[t].stage = "fetching", call[t].held # NULL
        PROVE  /\ records[call[t].id].block = call[t].held
               /\ \A k \in DOMAIN call[t].held.rows :
                     call[t].held.first_child_id + k - 1 < directory_count
    <3>1. call[t].id \in DOMAIN records /\ records[call[t].id].block = call[t].held
      BY <2>2 DEF TablesInv, CallsFit, CallFits
    <3>2. BlockFits(call[t].id)
      BY <3>1 DEF TablesInv, TreeInv
    <3>3. \A k \in DOMAIN call[t].held.rows : call[t].held.first_child_id + k - 1 \in DOMAIN records
      BY <2>2, <3>1, <3>2 DEF BlockFits
    <3>4. \A i \in DOMAIN records : i < directory_count
      BY BlockOfRecord
    <3> QED BY <3>1, <3>3, <3>4
  <2> QED BY <2>1, <2>2 DEF CallsSeeTheTree, FetchedBlockIsLive
<1> QED
  BY <1>1, InitInv, NextInv, InitTables, NextTables, PTL DEF Spec
=============================================================================
