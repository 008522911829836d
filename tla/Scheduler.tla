------------------------------ MODULE Scheduler ------------------------------
(***************************************************************************)
(* The dependency-tracked priority queue of the coordinator                *)
(* (findex/lib/findex/scheduler.ex).  It is an immutable value: a call     *)
(* returns the next value, or an error and with it the old one, so every   *)
(* action is one call and a refused call is a stuttering step.  Three      *)
(* redundant structures are kept in step by hand: the tasks, the ordered   *)
(* queue of their ranks, and the index from a data key to the tasks that   *)
(* read it.                                                                *)
(***************************************************************************)
EXTENDS Integers, Sequences, FiniteSets

CONSTANTS Ids,            \* task ids
          Payloads,       \* what a task is ranked by
          Keys, Values,   \* ranking data
          ABSENT,         \* a key the data map lacks
          Ranker,         \* [payload -> [data -> what a ranking call yields]]
          TaskLists,      \* lists of [id, payload] pairs given to put_tasks
          MaxSequence,    \* bound on next_sequence
          MaxRevision     \* bound on revision

Data == [Keys -> Values \cup {ABSENT}]

\* A ranking call ends with a rank, or it raises; either way it has read some keys.
Ranking == [ok : BOOLEAN, rank : Int, reads : SUBSET Keys]

ASSUME ABSENTAssumption == ABSENT \notin Values
ASSUME TaskListsAssumption == TaskLists \subseteq Seq([id : Ids, payload : Payloads])
ASSUME BoundsAssumption == MaxSequence \in Nat /\ MaxRevision \in Nat
ASSUME RankerAssumption == Ranker \in [Payloads -> [Data -> Ranking]]

\* The moduledoc's contract for ranking functions: deterministic, and every
\* mutable input is obtained through read.  What it did not read cannot matter.
ASSUME TrackedAssumption ==
    \A p \in Payloads : \A d, e \in Data :
       (\A k \in Ranker[p][d].reads : d[k] = e[k]) => Ranker[p][e] = Ranker[p][d]

VARIABLES data,           \* the data map
          revision,       \* how often it has changed
          tasks,          \* [pending id -> Item]
          queue,          \* the ordered tree: a set of <<key, id>> entries
          dependents,     \* [key -> ids that read it]; {} stands for no entry
          next_sequence,
          popped,         \* what the last call returned (history)
          changed_at      \* [key -> revision of its last change] (history)

vars == <<data, revision, tasks, queue, dependents, next_sequence, popped, changed_at>>

Item == [payload : Payloads, rank : Int, dependencies : SUBSET Keys,
         sequence : Nat, evaluated_at : Nat]
-----------------------------------------------------------------------------
\* An operator whose name ends in Bug is a slip that could be made in the
\* operator below it; no specification uses it.

QueueKeyBug(item) == <<item.rank, item.sequence>>

\* queue_key: taking the largest key serves equal ranks first come first.
QueueKey(item) == <<item.rank, -item.sequence>>

\* Erlang's order of tuples.
Above(k, l) == k[1] > l[1] \/ (k[1] = l[1] /\ k[2] > l[2])

\* evaluate: the ranking function over some data, as the item to store.
EvaluatedItem(payload, inputs, sequence, now) ==
    [payload |-> payload, rank |-> Ranker[payload][inputs].rank,
     dependencies |-> Ranker[payload][inputs].reads,
     sequence |-> sequence, evaluated_at |-> now]

\* remove_task for each id, on the queue: found by the key of the stored item.
Dequeued(ids) ==
    {entry \in queue : \A id \in ids \cap DOMAIN tasks : entry[1] # QueueKey(tasks[id])}

UnindexedBug(ids) == dependents

\* remove_task for each id, on the index: remove_dependencies visits only the
\* keys of the stored item.
Unindexed(ids) ==
    [k \in Keys |-> dependents[k] \ {id \in ids \cap DOMAIN tasks : k \in tasks[id].dependencies}]

\* remove_task, then add_task, of each of the items: put_evaluated_task and
\* replace_evaluation end with this.
Place(items) ==
    /\ tasks' = [id \in DOMAIN tasks \cup DOMAIN items |->
                   IF id \in DOMAIN items THEN items[id] ELSE tasks[id]]
    /\ queue' = Dequeued(DOMAIN items) \cup {<<QueueKey(items[id]), id>> : id \in DOMAIN items}
    /\ dependents' = [k \in Keys |-> Unindexed(DOMAIN items)[k]
                        \cup {id \in DOMAIN items : k \in items[id].dependencies}]

\* remove_task of each id, for good.
Remove(ids) ==
    /\ tasks' = [id \in DOMAIN tasks \ ids |-> tasks[id]]
    /\ queue' = Dequeued(ids)
    /\ dependents' = Unindexed(ids)

AffectedBug(changed) == {id \in Ids : \A k \in changed : id \in dependents[k]}

\* affected_ids: asked of the index, not of the tasks.
Affected(changed) == UNION {dependents[k] : k \in changed}

ListedIds(list) == {list[i].id : i \in DOMAIN list}

\* The first mention of a new id in the list is what numbers it.
FirstMention(list, id) ==
    CHOOSE i \in DOMAIN list : list[i].id = id /\ \A j \in 1 .. i - 1 : list[j].id # id

\* The last mention of an id in the list is what stays.
LastMention(list, id) ==
    CHOOSE i \in DOMAIN list : list[i].id = id /\ \A j \in i + 1 .. Len(list) : list[j].id # id

\* sequence_for: a pending task keeps its number, a new one gets the next.
SequenceFor(list, id) ==
    IF id \in DOMAIN tasks THEN tasks[id].sequence
    ELSE next_sequence + Cardinality({other \in ListedIds(list) \ DOMAIN tasks :
                                        FirstMention(list, other) < FirstMention(list, id)})
-----------------------------------------------------------------------------
Init ==
    /\ data \in Data
    /\ revision = 0
    /\ tasks = <<>>
    /\ queue = {}
    /\ dependents = [k \in Keys |-> {}]
    /\ next_sequence = 0
    /\ popped = <<>>
    /\ changed_at = [k \in Keys |-> 0]

\* put_task (a list of one) and put_tasks: all are ranked before any is placed.
PutTasks(list) ==
    /\ \A i \in DOMAIN list : Ranker[list[i].payload][data].ok
    /\ Place([id \in ListedIds(list) |->
                EvaluatedItem(list[LastMention(list, id)].payload, data,
                              SequenceFor(list, id), revision)])
    /\ next_sequence' = next_sequence + Cardinality(ListedIds(list) \ DOMAIN tasks)
    /\ next_sequence' <= MaxSequence
    /\ popped' = <<>>
    /\ UNCHANGED <<data, revision, changed_at>>

DeleteTask(id) ==
    /\ Remove({id})
    /\ popped' = <<>>
    /\ UNCHANGED <<data, revision, next_sequence, changed_at>>

\* apply_data_change: every affected task is ranked over the new data, each one
\* once, before anything changes; they keep their sequence numbers.
ApplyDataChange(inputs, changed) ==
    /\ \A id \in Affected(changed) : Ranker[tasks[id].payload][inputs].ok
    /\ Place([id \in Affected(changed) |->
                EvaluatedItem(tasks[id].payload, inputs, tasks[id].sequence, revision + 1)])
    /\ data' = inputs
    /\ revision' = revision + 1

ChangeData(inputs) ==
    LET changed == {k \in Keys : inputs[k] # data[k]}
    IN /\ changed # {}        \* nothing changed: the same scheduler is returned
       /\ revision < MaxRevision
       /\ ApplyDataChange(inputs, changed)
       /\ changed_at' = [k \in Keys |-> IF k \in changed THEN revision' ELSE changed_at[k]]
       /\ popped' = <<>>
       /\ UNCHANGED next_sequence

\* put_data: one or several keys at once; values that do not differ are dropped.
PutData(values) ==
    ChangeData([k \in Keys |-> IF k \in DOMAIN values THEN values[k] ELSE data[k]])

\* delete_data: refused while a pending task cannot be ranked without the key.
DeleteData(key) ==
    ChangeData([data EXCEPT ![key] = ABSENT])

\* pop and pop_many(count): the largest keys of the tree, one after the other,
\* until there are count of them or the tree is empty.
PopMany(count) ==
    \E n \in 0 .. count : \E taken \in [1 .. n -> queue] :
      LET top == {taken[i] : i \in 1 .. n}
          ids == {e[2] : e \in top}
      IN /\ \A i, j \in 1 .. n : i < j => Above(taken[i][1], taken[j][1])
         /\ \A e \in top, f \in queue \ top : Above(e[1], f[1])
         /\ n < count => top = queue
         /\ popped' = [i \in 1 .. n |-> taken[i][2]]
         /\ tasks' = [id \in DOMAIN tasks \ ids |-> tasks[id]]
         /\ queue' = queue \ top
         /\ dependents' = Unindexed(ids)
         /\ UNCHANGED <<data, revision, next_sequence, changed_at>>

Next ==
    \/ \E list \in TaskLists : PutTasks(list)
    \/ \E id \in Ids : DeleteTask(id)
    \/ \E keys \in SUBSET Keys : \E values \in [keys -> Values] : PutData(values)
    \/ \E key \in Keys : DeleteData(key)
    \/ \E count \in 1 .. Cardinality(Ids) : PopMany(count)

Spec == Init /\ [][Next]_vars
-----------------------------------------------------------------------------
\* Every variable has its type; sequence numbers are below the next one.
TypeOK ==
    /\ data \in Data
    /\ revision \in Nat
    /\ DOMAIN tasks \subseteq Ids
    /\ tasks \in [DOMAIN tasks -> Item]
    /\ \A id \in DOMAIN tasks : tasks[id].sequence < next_sequence
    /\ queue \subseteq (Int \X Int) \X Ids
    /\ dependents \in [Keys -> SUBSET Ids]
    /\ next_sequence \in Nat
    /\ popped \in Seq(Ids)
    /\ changed_at \in [Keys -> 0 .. revision]

\* The tree holds one entry per pending task, under a key no other task has:
\* gb_trees.insert would raise on a duplicate key, pop on an entry without task.
QueueAgrees ==
    /\ queue = {<<QueueKey(tasks[id]), id>> : id \in DOMAIN tasks}
    /\ \A a, b \in DOMAIN tasks : tasks[a].sequence = tasks[b].sequence => a = b

\* The index is the inverse of the stored dependencies: a change reranks every
\* pending task that read the key, and looks up no task that has left.
IndexAgrees ==
    \A k \in Keys : dependents[k] = {id \in DOMAIN tasks : k \in tasks[id].dependencies}

\* Tree, index and tasks describe the same queue.
StructuresAgree == QueueAgrees /\ IndexAgrees

\* No stored rank is ever stale: each is what the ranking function would say
\* now, although a change reranks only the tasks the index names, and the keys
\* a task reads themselves depend on the data.
RanksAreFresh ==
    \A id \in DOMAIN tasks :
      LET now == Ranker[tasks[id].payload][data]
      IN now.ok /\ now.rank = tasks[id].rank /\ now.reads = tasks[id].dependencies

\* What task_info reports as evaluated_at is honest: no key the task depends on
\* has changed after that revision.
EvaluationsAreCurrent ==
    \A id \in DOMAIN tasks :
      /\ tasks[id].evaluated_at <= revision
      /\ \A k \in tasks[id].dependencies : changed_at[k] <= tasks[id].evaluated_at

\* Nothing that is stored about a task is older than the data it was made from.
NothingIsStale == RanksAreFresh /\ EvaluationsAreCurrent

\* The scheduler implements the queue that ranks everything on demand.
RankedOnDemand == INSTANCE RankQueue WITH
    waiting <- [id \in DOMAIN tasks |->
                  [payload |-> tasks[id].payload, arrived |-> tasks[id].sequence]],
    arrivals <- next_sequence,
    served <- popped
RankQueueSpec == RankedOnDemand!Spec
=============================================================================
