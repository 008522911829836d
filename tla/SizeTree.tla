------------------------------ MODULE SizeTree ------------------------------
(***************************************************************************)
(* What the desktop application derives from the directories it is told of *)
(* (SizeTree and ScanModel in desktop/src/app.rs): recursive sizes, the    *)
(* children of each directory by size, the leaderboard of files and the    *)
(* list of failures.  Desktop shows that each directory is told once, and  *)
(* CompletionLog that no directory is told before its parent.              *)
(***************************************************************************)
EXTENDS Integers, Sequences, FiniteSets, SequencesExt, FiniteSetsExt

CONSTANTS Ids, NO_PARENT,
          TreeParent,      \* [Ids -> the parent in the file system, or NO_PARENT]
          Files,           \* [Ids -> sizes of its files, in reading order]
          FailedIds,       \* directories that cannot be read
          MAX_DEPTH, TOP_LIMIT, FAILURE_LIMIT, LARGEST_PER_DIRECTORY,
          MaxBytes,        \* u64::MAX
          MaxBatch         \* bound on the directories of one update

ASSUME ParentAssumption == TreeParent \in [Ids -> Ids \cup {NO_PARENT}] /\ NO_PARENT \notin Ids
\* The walks to the root stop after MAX_DEPTH directories, against a cycle; the
\* trees are less deep: each has a number above that of its parent.
ASSUME DepthAssumption ==
    \E depth \in [Ids -> 1 .. MAX_DEPTH] :
       \A d \in Ids : TreeParent[d] # NO_PARENT => depth[TreeParent[d]] < depth[d]
ASSUME LimitsAssumption == {MAX_DEPTH, TOP_LIMIT, FAILURE_LIMIT, LARGEST_PER_DIRECTORY, MaxBytes, MaxBatch}
                              \subseteq Nat
ASSUME FilesAssumption == /\ Files \in [Ids -> Seq(0 .. MaxBytes)]
                          /\ \A d \in FailedIds : Files[d] = <<>> /\ \A e \in Ids : TreeParent[e] # d

VARIABLES
    seen,       \* directories the model has been told of
    nodes,      \* the tree: [parent, subtree_bytes, children, dirty]
    top_files,  \* leaderboard: [dir, bytes]
    failures,   \* failed_directories
    finished

tree == <<seen, nodes, top_files, failures, finished>>

Sum(a, b) == IF a + b > MaxBytes THEN MaxBytes ELSE a + b     \* saturating_add
\* Bytes of the regular files; sizes that cannot be read count as 0.
OwnBytes(d) == FoldLeft(Sum, 0, Files[d])

\* summarize_batch of the bridge: the largest files of a directory, largest
\* first; empty files do not count.
NoteLargest(list, bytes) ==
    LET insert(l) == InsertAt(l, Cardinality({k \in DOMAIN l : l[k] <= bytes}) + 1, bytes)
    IN IF LARGEST_PER_DIRECTORY = 0 \/ bytes = 0 THEN list
       ELSE IF Len(list) < LARGEST_PER_DIRECTORY THEN insert(list)
       ELSE IF bytes > Head(list) THEN insert(Tail(list)) ELSE list

LargestFiles(d) == Reverse(FoldLeft(NoteLargest, <<>>, Files[d]))

\* ancestor_chain and the walk of add_bytes: the directory and its ancestors,
\* nearest first, at most MAX_DEPTH in all; the parents of a tree never repeat.
Chain(parent, d) ==
    FoldLeft(LAMBDA chain, step : IF parent[Last(chain)] = NO_PARENT THEN chain
                                  ELSE Append(chain, parent[Last(chain)]),
             <<d>>, [k \in 1 .. MAX_DEPTH - 1 |-> k])

\* A sequence by descending key; equal keys keep their order.
ByKey(s, key) ==
    LET before(i, j) == key[s[i]] > key[s[j]] \/ (key[s[i]] = key[s[j]] /\ i < j)
        place(j) == Cardinality({i \in DOMAIN s : before(i, j)}) + 1
    IN [k \in DOMAIN s |-> s[CHOOSE j \in DOMAIN s : place(j) = k]]
-----------------------------------------------------------------------------
\* link: the first parent stays.
Linked(t, d) ==
    LET p == TreeParent[d]
    IN IF p = NO_PARENT \/ t.parent[d] # NO_PARENT \/ p = d THEN t
       ELSE [t EXCEPT !.parent[d] = p, !.children[p] = Append(@, d), !.dirty = @ \cup {p}]

NearestDirtyBug(t, d) ==
    LET chain == Range(Chain(t.parent, d))
    IN [t EXCEPT !.subtree_bytes = [e \in Ids |-> IF e \in chain THEN Sum(@[e], OwnBytes(d)) ELSE @[e]],
                 !.dirty = @ \cup ({t.parent[d]} \ {NO_PARENT})]

\* add_bytes: to the directory and its ancestors; the parent of each of them
\* has its children to sort.
WithBytes(t, d) ==
    LET chain == Range(Chain(t.parent, d))
    IN [t EXCEPT !.subtree_bytes = [e \in Ids |-> IF e \in chain THEN Sum(@[e], OwnBytes(d)) ELSE @[e]],
                 !.dirty = @ \cup ({t.parent[e] : e \in chain} \ {NO_PARENT})]

TopCandidate(top, bytes) == Len(top) < TOP_LIMIT \/ (top # <<>> /\ bytes > Last(top).bytes)

\* merge_top: behind the entries that are not smaller.
Merged(top, entry) ==
    LET place == Cardinality({k \in DOMAIN top : top[k].bytes >= entry.bytes}) + 1
        longer == InsertAt(top, place, entry)
    IN IF TopCandidate(top, entry.bytes)
         THEN SubSeq(longer, 1, Min({TOP_LIMIT, Len(longer)})) ELSE top

\* The files of a directory are offered until one is no candidate.
WithFiles(top, d) ==
    FoldLeft(LAMBDA st, bytes :
               IF st.done \/ ~ TopCandidate(st.top, bytes) THEN [st EXCEPT !.done = TRUE]
               ELSE [st EXCEPT !.top = Merged(@, [dir |-> d, bytes |-> bytes])],
             [top |-> top, done |-> FALSE], LargestFiles(d)).top

\* finish_batch: the children of each parent that was touched are sorted again.
FinishBatch(t) ==
    [t EXCEPT !.children = [p \in Ids |-> IF p \in t.dirty
                                            THEN ByKey(@[p], t.subtree_bytes)
                                            ELSE @[p]],
              !.dirty = {}]

WithFailure(list, d) ==
    IF d \in FailedIds /\ Len(list) < FAILURE_LIMIT /\ d \notin Range(list) THEN Append(list, d)
    ELSE list

\* add_directory, as far as the tree goes: the link first, then the bytes.
WithDirectory(t, d) == WithBytes(Linked(t, d), d)

InitTree ==
    /\ seen = {} /\ finished = FALSE
    /\ nodes = [parent |-> [d \in Ids |-> NO_PARENT], subtree_bytes |-> [d \in Ids |-> 0],
                children |-> [d \in Ids |-> <<>>], dirty |-> {}]
    /\ top_files = <<>> /\ failures = <<>>

\* The directories an update may bring: new ones, no child before its parent.
Batches ==
    {b \in SeqOf(Ids \ seen, MaxBatch) :
       \A k \in DOMAIN b :
          /\ \A j \in 1 .. k - 1 : b[j] # b[k]
          /\ TreeParent[b[k]] \in seen \cup {NO_PARENT} \cup {b[j] : j \in 1 .. k - 1}}

\* apply_event of an update.
ApplyUpdate ==
    /\ ~ finished
    /\ \E batch \in Batches :
         /\ seen' = seen \cup Range(batch)
         /\ nodes' = FinishBatch(FoldLeft(WithDirectory, nodes, batch))
         /\ top_files' = FoldLeft(WithFiles, top_files, batch)
         /\ failures' = FoldLeft(WithFailure, failures, batch)
    /\ UNCHANGED finished

\* The samples of the final report replace or follow the failures that were
\* listed live.
WithSamples(samples) ==
    LET longer == failures \o SelectSeq(samples, LAMBDA d : d \notin Range(failures))
    IN SubSeq(longer, 1, Min({FAILURE_LIMIT, Len(longer)}))

\* apply_event of Finished, with samples of the failures.
ApplyFinished ==
    /\ ~ finished /\ finished' = TRUE
    /\ \E chosen \in SUBSET (FailedIds \cap seen) :
         failures' = WithSamples(SetToSeq(chosen))
    /\ UNCHANGED <<seen, nodes, top_files>>

NextTree == ApplyUpdate \/ ApplyFinished

TreeSpec == InitTree /\ [][NextTree]_tree
-----------------------------------------------------------------------------
\* The directories at or below one in the file system, however deep: those in
\* every set that has it and the children of its members.
Below ==
    [p \in Ids |->
       {d \in Ids : \A S \in SUBSET Ids :
          p \in S /\ (\A e \in Ids : TreeParent[e] \in S => e \in S) => d \in S}]

\* The size of a directory is that of all files that have been told of at or
\* below it, in whatever order completions and batches came: "Adds a directory's
\* immediate bytes to itself and every ancestor."
SizesAreRecursive ==
    \A p \in seen :
       nodes.subtree_bytes[p] =
         FoldSet(LAMBDA d, sum : Sum(sum, OwnBytes(d)), 0, Below[p] \cap seen)

\* Between updates each child is listed once, under its parent, and the lists
\* are sorted by the sizes of now, so that the directories with bytes are a
\* prefix, which is all that the views draw.
ChildrenAreSorted ==
    \A p \in Ids :
       LET list == nodes.children[p]
       IN /\ IsInjective(list)
          /\ Range(list) = {d \in seen : TreeParent[d] = p}
          /\ \A i, j \in DOMAIN list :
                i < j => nodes.subtree_bytes[list[i]] >= nodes.subtree_bytes[list[j]]

\* The leaderboard is what sorting every file, at most LARGEST_PER_DIRECTORY of
\* a directory, and cutting the result would give, whatever the order of the
\* directories and of the files in them: the insertions of the bridge and of
\* the view and giving up on a directory at its first miss lose nothing.
TopFilesAreLargest ==
    LET size == [bytes \in 0 .. MaxBytes |-> bytes]
        ofDirectory(d) == ByKey(SelectSeq(Files[d], LAMBDA bytes : bytes > 0), size)
        largest(d) == SubSeq(ofDirectory(d), 1, Min({LARGEST_PER_DIRECTORY, Len(ofDirectory(d))}))
        sizes == FoldSet(LAMBDA d, s : s \o largest(d), <<>>, seen)
        sorted == ByKey(sizes, size)
    IN [k \in DOMAIN top_files |-> top_files[k].bytes]
         = SubSeq(sorted, 1, Min({TOP_LIMIT, Len(sorted)}))

\* The failures listed live and those of the report merge without a duplicate,
\* and only directories that failed are among them; none is missing while there
\* is room.
FailuresAreListed ==
    /\ IsInjective(failures) /\ Range(failures) \subseteq FailedIds \cap seen
    /\ Len(failures) = Min({FAILURE_LIMIT, Cardinality(FailedIds \cap seen)})

\* The sizes of the directories and the order of their children are right
\* between any two updates.
TreeIsRight == SizesAreRecursive /\ ChildrenAreSorted

\* The leaderboard and the failures are the ones that looking at the whole scan
\* at once would give.
ListsAreRight == TopFilesAreLargest /\ FailuresAreListed
=============================================================================
