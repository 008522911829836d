---------------------------- MODULE DirectoryScan ----------------------------
(***************************************************************************)
(* findex_scan_directory_fd (findex/native/findex_directory.c): one thread *)
(* reads a directory to the end with getattrlistbulk, decodes each buffer  *)
(* of records into a packed batch, chains the batches, and counts entries, *)
(* errors and the children to traverse.  The buffer grows when a record    *)
(* does not fit; every allocation may fail, and the caller destroys what   *)
(* has been built, after a success as after a failure.                     *)
(***************************************************************************)
EXTENDS Integers, Sequences, FiniteSets, SequencesExt

CONSTANTS Directories,          \* contents: sequences of entries
          BufferSizes,          \* that the caller may ask for
          MAX_BUFFER_SIZE,
          FIRST_CHILDREN,       \* first capacity of child_entry_indices (64)
          FIRST_ERRORS,         \* first capacity of error_counts (8)
          MaxEntries            \* UINT32_MAX

\* An entry of a directory, as parse_packed_entry leaves it in the columns: an
\* entry with an error has no type; mount is what DIR_MNTSTATUS says of a
\* directory, or "unknown" when the status was not returned.
Entry == [kind : {"regular", "directory", "symlink", "other", "untyped"},
          error : Nat, mount : {"none", "mounted", "unknown"}, size : Nat \ {0}]

ASSUME DirectoriesAssumption == Directories \subseteq Seq(Entry)
ASSUME BufferAssumption ==
    MAX_BUFFER_SIZE \in Nat /\ BufferSizes \subseteq 1 .. MAX_BUFFER_SIZE
ASSUME CapacityAssumption == FIRST_CHILDREN \in Nat \ {0} /\ FIRST_ERRORS \in Nat \ {0}

VARIABLES
    directory, policy, fields,  \* what is read and how: the arguments
    buffer_size,                \* current_buffer_size
    taken,                   \* entries the kernel has returned
    stage,                      \* where the loop is
    count,                      \* entries of the batch in hand
    scan,                       \* findex_directory_scan_t
    result,                     \* findex_scan_status
    live                        \* blocks allocated and not freed

arguments == <<directory, policy, fields>>
scan_vars == <<arguments, buffer_size, taken, stage, count, scan, result, live>>

Smaller(m, n) == IF m < n THEN m ELSE n

\* The n-th batch is three allocations.
BatchBlocks(n) == {<<"batch", n>>, <<"columns", n>>, <<"storage", n>>}
Batches(s) == Len(s.batches)
InHand == Batches(scan) + 1

EmptyScan == [batches |-> <<>>, children |-> <<>>, child_capacity |-> 0,
              errors |-> <<>>, error_capacity |-> 0,
              entries |-> 0, directories |-> 0, regular_files |-> 0, symlinks |-> 0, other |-> 0,
              metadata_errors |-> 0, skipped_mounts |-> 0]

ScanInit ==
    /\ directory \in Directories
    /\ policy \in {"cross_mounts", "stay_on_filesystem"}
    /\ fields \in SUBSET {"type", "mount_status"}
    /\ buffer_size \in BufferSizes
    /\ taken = 0 /\ count = 0
    /\ stage = "called"
    /\ scan = EmptyScan
    /\ result = "ok"
    /\ live = {}

Return(status) ==
    /\ result' = status
    /\ stage' = "returned"

-----------------------------------------------------------------------------
(* analyze_native_batch *)

\* ensure_scan_child_capacity and ensure_scan_error_capacity, asked for one more.
Capacity(capacity, first, required) ==
    IF required <= capacity THEN capacity ELSE IF capacity = 0 THEN first ELSE 2 * capacity

\* record_scan_error: counts are kept in the order in which errors first came.
WithError(s, number) ==
    LET known == {k \in DOMAIN s.errors : s.errors[k].error_number = number}
        counts == [k \in DOMAIN s.errors |-> IF k \in known THEN [s.errors[k] EXCEPT !.count = @ + 1]
                                             ELSE s.errors[k]]
    IN IF known # {} THEN [s EXCEPT !.errors = counts]
         ELSE [s EXCEPT !.errors = Append(@, [error_number |-> number, count |-> 1]),
                        !.error_capacity = Capacity(@, FIRST_ERRORS, Len(s.errors) + 1)]

Traversed(e) ==
    policy = "cross_mounts" \/ ("mount_status" \in fields /\ e.mount = "none")

WithKind(s, kind) ==
    CASE kind = "regular" -> [s EXCEPT !.regular_files = @ + 1]
      [] kind = "directory" -> [s EXCEPT !.directories = @ + 1]
      [] kind = "symlink" -> [s EXCEPT !.symlinks = @ + 1]
      [] OTHER -> [s EXCEPT !.other = @ + 1]

\* One turn of the loop, over the entry with this index in the directory.
WithEntry(s, e, index) ==
    LET noted == IF e.error = 0 THEN s
                 ELSE [WithError(s, e.error) EXCEPT !.metadata_errors = @ + 1]
        counted == WithKind(noted, e.kind)
    IN IF e.kind # "directory" \/ e.error # 0 THEN counted
       ELSE IF Traversed(e)
         THEN [counted EXCEPT !.children = Append(@, index),
                              !.child_capacity = Capacity(@, FIRST_CHILDREN, Len(s.children) + 1)]
         ELSE [counted EXCEPT !.skipped_mounts = @ + 1]

\* The scan after each turn of the loop; the batch begins at this index.
Turns(s, batch, first) ==
    LET after[n \in 0 .. Len(batch)] ==
          IF n = 0 THEN s ELSE WithEntry(after[n - 1], batch[n], first + n - 1)
    IN after

\* A slip: children are numbered within their batch.
IndexInBatchBug(s, batch) ==
    [Turns(s, batch, 0)[Len(batch)] EXCEPT !.entries = @ + Len(batch)]

Analyzed(s, batch) ==
    [Turns(s, batch, s.entries)[Len(batch)] EXCEPT !.entries = @ + Len(batch)]

CapacityBlocks(s) ==
    (IF s.child_capacity > 0 THEN {<<"children", 0>>} ELSE {})
      \cup (IF s.error_capacity > 0 THEN {<<"errors", 0>>} ELSE {})

\* All that a scan refers to: what findex_directory_scan_destroy frees.
ScanBlocks(s) ==
    (UNION {BatchBlocks(n) : n \in DOMAIN s.batches}) \cup CapacityBlocks(s)

-----------------------------------------------------------------------------
(* The loop *)

\* Too small or too large a buffer and an unknown policy are refused by callers
\* before; a selection of fields that the analysis cannot do without, here.
RefuseArguments ==
    /\ stage = "called"
    /\ "type" \notin fields \/ (policy = "stay_on_filesystem" /\ "mount_status" \notin fields)
    /\ Return("invalid_argument")
    /\ UNCHANGED <<arguments, buffer_size, taken, count, scan, live>>

Begin ==
    /\ stage = "called"
    /\ "type" \in fields /\ (policy = "stay_on_filesystem" => "mount_status" \in fields)
    /\ \/ /\ live' = {<<"buffer", 0>>} /\ stage' = "reading"
          /\ UNCHANGED result
       \/ /\ Return("out_of_memory")
          /\ UNCHANGED live
    /\ UNCHANGED <<arguments, buffer_size, taken, count, scan>>

\* The end of the call: the buffer is freed on every way out of the loop.
Leave(status, freed) ==
    /\ Return(status)
    /\ live' = live \ (freed \cup {<<"buffer", 0>>})

\* getattrlistbulk: the entries from taken + 1 to taken + n fill at most
\* the buffer.  EINTR is tried again with nothing read.
Fits(n) ==
    /\ taken + n <= Len(directory)
    /\ FoldLeft(LAMBDA sum, e : sum + e.size, 0, SubSeq(directory, taken + 1, taken + n)) <= buffer_size

TooSmall == taken < Len(directory) /\ ~ Fits(1)

ReadBuffer ==
    /\ stage = "reading"
    /\ \E n \in 1 .. Len(directory) :
          /\ Fits(n)
          /\ count' = n /\ taken' = taken + n
    /\ stage' = "allocating"
    /\ UNCHANGED <<arguments, buffer_size, scan, result, live>>

\* ERANGE: not even one record fits.
GrowBuffer ==
    /\ stage = "reading" /\ TooSmall /\ buffer_size < MAX_BUFFER_SIZE
    /\ \/ /\ buffer_size' = Smaller(2 * buffer_size, MAX_BUFFER_SIZE)
          /\ UNCHANGED <<stage, result, live>>
       \/ /\ Leave("out_of_memory", {})
          /\ UNCHANGED buffer_size
    /\ UNCHANGED <<arguments, taken, count, scan>>

\* Any other error, or ERANGE with the largest buffer.
ReadFails ==
    /\ stage = "reading"
    /\ Leave("system_error", {})
    /\ UNCHANGED <<arguments, buffer_size, taken, count, scan>>

ReadEnds ==
    /\ stage = "reading" /\ taken = Len(directory)
    /\ Leave("ok", {})
    /\ UNCHANGED <<arguments, buffer_size, taken, count, scan>>

\* A count that the buffer cannot hold is refused; then come the batch and one
\* allocation for all its columns.
AllocateBatch ==
    /\ stage = "allocating"
    /\ \/ /\ live' = live \cup {<<"batch", InHand>>, <<"columns", InHand>>}
          /\ stage' = "parsing"
          /\ UNCHANGED result
       \/ Leave("invalid_record", {})
       \/ Leave("out_of_memory", {<<"batch", InHand>>})
    /\ UNCHANGED <<arguments, buffer_size, taken, count, scan>>

\* parse_packed_entry on each record, within the bounds of the buffer.
ParseRecords ==
    /\ stage = "parsing"
    /\ \/ /\ stage' = "storing"
          /\ UNCHANGED <<result, live>>
       \/ Leave("invalid_record", {<<"batch", InHand>>, <<"columns", InHand>>})
    /\ UNCHANGED <<arguments, buffer_size, taken, count, scan>>

\* The records are copied and the batch is chained, before it is analyzed.
StoreBatch ==
    /\ stage = "storing"
    /\ \/ /\ scan' = [scan EXCEPT !.batches = Append(@, SubSeq(directory, taken - count + 1, taken))]
          /\ live' = live \cup {<<"storage", InHand>>}
          /\ stage' = "analyzing"
          /\ UNCHANGED result
       \/ /\ Leave("out_of_memory", {<<"batch", InHand>>, <<"columns", InHand>>})
          /\ UNCHANGED scan
    /\ UNCHANGED <<arguments, buffer_size, taken, count>>

\* Indices must stay below UINT32_MAX, which is tested first.
AnalyzeBatch ==
    /\ stage = "analyzing"
    /\ LET analyzed == Analyzed(scan, Last(scan.batches))
       IN IF analyzed.entries <= MaxEntries
            THEN /\ scan' = analyzed
                 /\ live' = live \cup CapacityBlocks(analyzed)
                 /\ stage' = "reading"
                 /\ UNCHANGED result
            ELSE Leave("out_of_memory", {}) /\ UNCHANGED scan
    /\ UNCHANGED <<arguments, buffer_size, taken, count>>

\* A table cannot grow at some entry: what the entries before it have changed
\* stays, tables that did grow among it.
AnalysisFails ==
    /\ stage = "analyzing"
    /\ scan.entries + count <= MaxEntries
    /\ LET after == Turns(scan, Last(scan.batches), scan.entries)
       IN \E n \in 1 .. count :
             /\ \/ after[n].child_capacity # after[n - 1].child_capacity
                \/ after[n].error_capacity # after[n - 1].error_capacity
             /\ scan' = after[n - 1]
             /\ Return("out_of_memory")
             /\ live' = (live \ {<<"buffer", 0>>}) \cup CapacityBlocks(after[n - 1])
    /\ UNCHANGED <<arguments, buffer_size, taken, count>>

\* The caller builds its block from a good scan, or returns the error, and ends
\* with findex_directory_scan_destroy in both cases.
Destroy ==
    /\ stage = "returned"
    /\ live' = live \ ScanBlocks(scan)
    /\ scan' = EmptyScan
    /\ stage' = "destroyed"
    /\ UNCHANGED <<arguments, buffer_size, taken, count, result>>

ScanNext ==
    \/ RefuseArguments \/ Begin
    \/ ReadBuffer \/ GrowBuffer \/ ReadFails \/ ReadEnds
    \/ AllocateBatch \/ ParseRecords \/ StoreBatch \/ AnalyzeBatch \/ AnalysisFails
    \/ Destroy

ScanSpec == ScanInit /\ [][ScanNext]_scan_vars

-----------------------------------------------------------------------------
(* Properties *)

\* What one look at the first n entries gives: how many there are of each kind,
CountsAre(s, n) ==
    LET Of(kinds) == Cardinality({i \in 1 .. n : directory[i].kind \in kinds})
    IN /\ s.regular_files = Of({"regular"}) /\ s.directories = Of({"directory"})
       /\ s.symlinks = Of({"symlink"}) /\ s.other = Of({"other", "untyped"})

\* the indices, in order, of the directories to traverse, and the number of
\* those behind a mount,
ChildrenAre(s, n) ==
    LET sound == {i \in 1 .. n : directory[i].kind = "directory" /\ directory[i].error = 0}
    IN /\ \A k, m \in DOMAIN s.children : k < m => s.children[k] < s.children[m]
       /\ {s.children[k] : k \in DOMAIN s.children} = {i - 1 : i \in {j \in sound : Traversed(directory[j])}}
       /\ s.skipped_mounts = Cardinality({i \in sound : ~ Traversed(directory[i])})

\* and how often each error came, every error in one place.
ErrorsAre(s, n) ==
    LET with(number) == {i \in 1 .. n : directory[i].error = number}
    IN /\ s.metadata_errors = Cardinality((1 .. n) \ with(0))
       /\ \A i \in (1 .. n) \ with(0) :
             \E k \in DOMAIN s.errors : s.errors[k].error_number = directory[i].error
       /\ \A k \in DOMAIN s.errors :
             /\ s.errors[k].error_number # 0
             /\ s.errors[k].count = Cardinality(with(s.errors[k].error_number)) /\ s.errors[k].count # 0
             /\ \A m \in DOMAIN s.errors : s.errors[m].error_number = s.errors[k].error_number => m = k

\* What is noted has a place in the tables.
TablesHold(s) == Len(s.children) <= s.child_capacity /\ Len(s.errors) <= s.error_capacity

Describes(s, n) == CountsAre(s, n) /\ ChildrenAre(s, n) /\ ErrorsAre(s, n) /\ TablesHold(s)

\* What has been analyzed is a prefix of the directory, each entry once and in
\* order however the kernel cut it into buffers, and all that is kept about it
\* is what one look at this prefix would give: counts by kind, errors by
\* number, and the indices of the directories to traverse, over all batches.
\* A good scan has seen the whole directory.
ScanIsExact ==
    stage \in {"reading", "returned"} /\ (stage = "returned" => result = "ok") =>
      /\ FlattenSeq(scan.batches) = SubSeq(directory, 1, scan.entries)
      /\ stage = "returned" => scan.entries = Len(directory)
      /\ Describes(scan, scan.entries)

\* Whatever step fails, when the call returns only what the scan refers to is
\* allocated, and when the caller has destroyed the scan, nothing is.
HeapIsClean ==
    /\ stage = "returned" => live = ScanBlocks(scan)
    /\ stage = "destroyed" => live = {}

\* A scan leaves exactly what it read, and no memory behind.
ScansAreClean == ScanIsExact /\ HeapIsClean
=============================================================================
