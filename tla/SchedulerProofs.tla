--------------------------- MODULE SchedulerProofs ---------------------------
(***************************************************************************)
(* Proofs about Scheduler, for every set of ids and keys and for every     *)
(* ranking function that keeps the contract of the moduledoc.              *)
(***************************************************************************)
EXTENDS Scheduler, FiniteSetTheorems, WellFoundedInduction, TLAPS

Listed == [id : Ids, payload : Payloads]

Inv == TypeOK /\ QueueAgrees /\ IndexAgrees /\ RanksAreFresh /\ EvaluationsAreCurrent
-----------------------------------------------------------------------------
\* A nonempty set of natural numbers has a least element.
LEMMA LeastNatural ==
    ASSUME NEW S \in SUBSET Nat, S # {}
    PROVE  \E m \in S : \A n \in S : m <= n
<1>1. PICK m \in S : \A n \in S : <<n, m>> \notin OpToRel(<, Nat)
  BY WFMin, NatLessThanWellFounded, Zenon
<1>2. \A n \in S : n \in Nat /\ m \in Nat /\ ~ (n < m)
  BY <1>1, Zenon DEF OpToRel
<1>3. \A n \in S : m <= n
  BY <1>2
<1> QED
  BY <1>3

\* Every listed id has a first and a last mention.
LEMMA MentionsExist ==
    ASSUME NEW list \in Seq(Listed), NEW id \in ListedIds(list)
    PROVE  /\ FirstMention(list, id) \in DOMAIN list /\ list[FirstMention(list, id)].id = id
           /\ LastMention(list, id) \in DOMAIN list /\ list[LastMention(list, id)].id = id
<1> DEFINE at == {i \in DOMAIN list : list[i].id = id}
           back == {Len(list) - i : i \in at}
<1>1. at # {} /\ at \in SUBSET Nat /\ DOMAIN list = 1 .. Len(list) /\ Len(list) \in Nat
  BY DEF ListedIds
<1>2. \E i \in DOMAIN list : list[i].id = id /\ \A j \in 1 .. i - 1 : list[j].id # id
  <2>1. PICK m \in at : \A n \in at : m <= n
    BY <1>1, LeastNatural
  <2>2. \A j \in 1 .. m - 1 : j \in DOMAIN list /\ ~(m <= j)
    BY <1>1, <2>1
  <2> QED
    BY <2>1, <2>2
<1>3. \E i \in DOMAIN list : list[i].id = id /\ \A j \in i + 1 .. Len(list) : list[j].id # id
  <2>1. back # {} /\ back \in SUBSET Nat
    BY <1>1
  <2>2. PICK m \in back : \A n \in back : m <= n
    BY <2>1, LeastNatural
  <2>3. PICK i \in at : m = Len(list) - i
    BY <2>2
  <2>4. \A j \in i + 1 .. Len(list) : j \in DOMAIN list /\ ~(m <= Len(list) - j)
    BY <1>1, <2>3
  <2>5. \A j \in i + 1 .. Len(list) : j \notin at
    BY <2>2, <2>4
  <2> QED
    BY <2>3, <2>4, <2>5
<1>4. /\ FirstMention(list, id) \in DOMAIN list /\ list[FirstMention(list, id)].id = id
  BY <1>2 DEF FirstMention
<1> QED
  BY <1>3, <1>4 DEF LastMention

\* A list mentions finitely many ids.
LEMMA ListedFinite ==
    ASSUME NEW list \in Seq(Listed)
    PROVE  ListedIds(list) \subseteq Ids /\ IsFiniteSet(ListedIds(list))
<1> DEFINE f == [i \in DOMAIN list |-> list[i].id]
<1>1. f \in Surjection(DOMAIN list, ListedIds(list))
  BY DEF Surjection, ListedIds
<1>2. IsFiniteSet(DOMAIN list)
  BY FS_Interval
<1>3. ListedIds(list) \subseteq Ids
  <2>1. \A i \in DOMAIN list : list[i] \in Listed
    OBVIOUS
  <2> QED
    BY <2>1 DEF ListedIds, Listed
<1> HIDE DEF f
<1>4. IsFiniteSet(ListedIds(list))
  BY <1>1, <1>2, FS_Surjection, Zenon
<1> QED
  BY <1>3, <1>4
-----------------------------------------------------------------------------
\* sequence_for gives the tasks of a list numbers of their own: a pending task
\* its old one, the new ones consecutive numbers from next_sequence on.
LEMMA SequencesAreFresh ==
    ASSUME Inv, NEW list \in Seq(Listed), NEW x \in ListedIds(list)
    PROVE  LET next == next_sequence + Cardinality(ListedIds(list) \ DOMAIN tasks)
           IN /\ next \in Nat /\ next >= next_sequence
              /\ SequenceFor(list, x) \in Nat /\ SequenceFor(list, x) < next
              /\ x \in DOMAIN tasks => SequenceFor(list, x) = tasks[x].sequence
              /\ x \notin DOMAIN tasks => SequenceFor(list, x) >= next_sequence
<1> DEFINE news == ListedIds(list) \ DOMAIN tasks
           earlier == {other \in news : FirstMention(list, other) < FirstMention(list, x)}
<1>1. IsFiniteSet(news) /\ Cardinality(news) \in Nat
  BY ListedFinite, FS_Subset, FS_CardinalityType
<1>2. next_sequence \in Nat
  BY DEF Inv, TypeOK
<1>3. CASE x \in DOMAIN tasks
  <2>1. tasks[x].sequence \in Nat /\ tasks[x].sequence < next_sequence
    BY <1>3 DEF Inv, TypeOK, Item
  <2>2. SequenceFor(list, x) = tasks[x].sequence
    BY <1>3 DEF SequenceFor
  <2> QED
    BY <1>1, <1>2, <1>3, <2>1, <2>2
<1>4. CASE x \notin DOMAIN tasks
  <2>1. FirstMention(list, x) \in Nat
    BY MentionsExist
  <2>2. earlier \subseteq news /\ x \in news /\ x \notin earlier
    BY <1>4, <2>1
  <2>3. /\ Cardinality(earlier) \in Nat /\ Cardinality(earlier) <= Cardinality(news)
        /\ Cardinality(news) # Cardinality(earlier)
    BY <1>1, <2>2, FS_Subset, FS_CardinalityType
  <2>4. SequenceFor(list, x) = next_sequence + Cardinality(earlier)
    BY <1>4 DEF SequenceFor
  <2> HIDE DEF earlier, news
  <2>5. /\ next_sequence + Cardinality(earlier) \in Nat
        /\ next_sequence + Cardinality(earlier) < next_sequence + Cardinality(news)
        /\ next_sequence + Cardinality(earlier) >= next_sequence
        /\ next_sequence + Cardinality(news) \in Nat
        /\ next_sequence + Cardinality(news) >= next_sequence
    BY <1>1, <1>2, <2>3
  <2> QED
    BY <1>4, <2>4, <2>5 DEF news
<1> QED
  BY <1>3, <1>4

\* Two tasks of a list never get the same number.
LEMMA SequencesDiffer ==
    ASSUME Inv, NEW list \in Seq(Listed),
           NEW x \in ListedIds(list), NEW y \in ListedIds(list), x # y
    PROVE  SequenceFor(list, x) # SequenceFor(list, y)
<1> DEFINE news == ListedIds(list) \ DOMAIN tasks
           earlier(z) == {other \in news : FirstMention(list, other) < FirstMention(list, z)}
<1>1. IsFiniteSet(news)
  BY ListedFinite, FS_Subset
<1>2. next_sequence \in Nat
  BY DEF Inv, TypeOK
<1>3. ASSUME NEW u \in news, NEW v \in news, FirstMention(list, u) < FirstMention(list, v)
      PROVE  SequenceFor(list, u) # SequenceFor(list, v)
  <2>1. FirstMention(list, u) \in Nat /\ FirstMention(list, v) \in Nat
    BY MentionsExist
  <2>2. \A w \in news : FirstMention(list, w) \in Nat
    BY MentionsExist
  <2>3. earlier(u) \subseteq earlier(v) /\ u \in earlier(v) /\ u \notin earlier(u)
    BY <1>3, <2>1, <2>2
  <2>4. IsFiniteSet(earlier(v)) /\ IsFiniteSet(earlier(u))
    BY <1>1, FS_Subset
  <2>5. /\ Cardinality(earlier(u)) # Cardinality(earlier(v))
        /\ Cardinality(earlier(u)) \in Nat /\ Cardinality(earlier(v)) \in Nat
    BY <2>3, <2>4, FS_Subset, FS_CardinalityType
  <2>6. /\ SequenceFor(list, u) = next_sequence + Cardinality(earlier(u))
        /\ SequenceFor(list, v) = next_sequence + Cardinality(earlier(v))
    BY <1>3 DEF SequenceFor
  <2> HIDE DEF earlier
  <2> QED
    BY <1>2, <2>5, <2>6
<1>4. CASE x \in news /\ y \in news
  <2>1. /\ FirstMention(list, x) \in Nat /\ FirstMention(list, y) \in Nat
        /\ FirstMention(list, x) # FirstMention(list, y)
    BY MentionsExist
  <2>2. FirstMention(list, x) < FirstMention(list, y) \/ FirstMention(list, y) < FirstMention(list, x)
    BY <2>1
  <2> QED
    BY <1>3, <1>4, <2>2
<1>5. CASE x \in DOMAIN tasks /\ y \in DOMAIN tasks
  BY <1>5 DEF SequenceFor, Inv, QueueAgrees
<1>6. ASSUME NEW u \in ListedIds(list), NEW v \in ListedIds(list),
             u \in DOMAIN tasks, v \notin DOMAIN tasks
      PROVE  SequenceFor(list, u) < SequenceFor(list, v)
  <2>1. tasks[u].sequence < next_sequence /\ tasks[u].sequence \in Nat
    BY <1>6 DEF Inv, TypeOK, Item
  <2>2. SequenceFor(list, v) >= next_sequence /\ SequenceFor(list, v) \in Nat
    BY <1>6, SequencesAreFresh
  <2>3. SequenceFor(list, u) = tasks[u].sequence
    BY <1>6 DEF SequenceFor
  <2> QED
    BY <1>2, <2>1, <2>2, <2>3
<1>7. SequenceFor(list, x) \in Nat /\ SequenceFor(list, y) \in Nat
  BY SequencesAreFresh
<1> QED
  BY <1>4, <1>5, <1>6, <1>7
-----------------------------------------------------------------------------
\* Ranking a task over some data yields an item.
LEMMA EvaluatedItemType ==
    ASSUME NEW p \in Payloads, NEW d \in Data, NEW n \in Nat, NEW now \in Nat
    PROVE  /\ Ranker[p][d] \in Ranking
           /\ EvaluatedItem(p, d, n, now) \in Item
<1>1. Ranker[p][d] \in Ranking
  BY RankerAssumption
<1>2. Ranker[p][d].rank \in Int /\ Ranker[p][d].reads \in SUBSET Keys
  BY <1>1 DEF Ranking
<1> QED
  BY <1>1, <1>2 DEF EvaluatedItem, Item

\* Tasks that are placed replace the ones of the same id everywhere: the queue
\* and the index agree with the tasks again.
LEMMA PlaceAgrees ==
    ASSUME Inv, NEW items, DOMAIN items \subseteq Ids, items \in [DOMAIN items -> Item],
           Place(items),
           \A x, y \in DOMAIN items : items[x].sequence = items[y].sequence => x = y,
           \A x \in DOMAIN items, y \in DOMAIN tasks \ DOMAIN items :
              items[x].sequence # tasks[y].sequence
    PROVE  /\ DOMAIN tasks' \subseteq Ids /\ tasks' \in [DOMAIN tasks' -> Item]
           /\ queue' \subseteq (Int \X Int) \X Ids
           /\ dependents' \in [Keys -> SUBSET Ids]
           /\ QueueAgrees' /\ IndexAgrees'
<1>1. /\ DOMAIN tasks' = DOMAIN tasks \cup DOMAIN items
      /\ \A id \in DOMAIN items : tasks'[id] = items[id]
      /\ \A id \in DOMAIN tasks \ DOMAIN items : tasks'[id] = tasks[id]
  BY DEF Place
<1>2. /\ DOMAIN tasks \subseteq Ids /\ tasks \in [DOMAIN tasks -> Item]
      /\ queue \subseteq (Int \X Int) \X Ids
      /\ dependents \in [Keys -> SUBSET Ids]
  BY DEF Inv, TypeOK
<1>3. DOMAIN tasks' \subseteq Ids /\ tasks' \in [DOMAIN tasks' -> Item]
  BY <1>1, <1>2 DEF Place
<1>4. \A id \in DOMAIN tasks' : /\ tasks'[id].rank \in Int /\ tasks'[id].sequence \in Nat
                               /\ tasks'[id].dependencies \in SUBSET Keys
  BY <1>3 DEF Item
<1>5. queue = {<<QueueKey(tasks[id]), id>> : id \in DOMAIN tasks}
  BY DEF Inv, QueueAgrees
<1>6. \A x, y \in DOMAIN tasks : QueueKey(tasks[x]) = QueueKey(tasks[y]) => x = y
  <2> SUFFICES ASSUME NEW x \in DOMAIN tasks, NEW y \in DOMAIN tasks,
                      QueueKey(tasks[x]) = QueueKey(tasks[y])
               PROVE  x = y
    OBVIOUS
  <2>1. /\ QueueKey(tasks[x])[2] = -tasks[x].sequence
        /\ QueueKey(tasks[y])[2] = -tasks[y].sequence
    BY DEF QueueKey
  <2>3. tasks[x].sequence \in Nat /\ tasks[y].sequence \in Nat
    BY <1>2 DEF Item
  <2>2. tasks[x].sequence = tasks[y].sequence
    BY <2>1, <2>3
  <2> QED BY <2>2 DEF Inv, QueueAgrees
<1>7. Dequeued(DOMAIN items) = {<<QueueKey(tasks[id]), id>> : id \in DOMAIN tasks \ DOMAIN items}
  BY <1>5, <1>6 DEF Dequeued
<1>8. queue' = {<<QueueKey(tasks'[id]), id>> : id \in DOMAIN tasks'}
  <2>1. queue' = Dequeued(DOMAIN items) \cup {<<QueueKey(items[id]), id>> : id \in DOMAIN items}
    BY DEF Place
  <2>2. \A id \in DOMAIN items : QueueKey(tasks'[id]) = QueueKey(items[id])
    BY <1>1
  <2>3. \A id \in DOMAIN tasks \ DOMAIN items : QueueKey(tasks'[id]) = QueueKey(tasks[id])
    BY <1>1
  <2> QED
    BY <1>1, <1>7, <2>1, <2>2, <2>3
<1>9. \A x, y \in DOMAIN tasks' : tasks'[x].sequence = tasks'[y].sequence => x = y
  <2>1. \A x, y \in DOMAIN tasks : tasks[x].sequence = tasks[y].sequence => x = y
    BY DEF Inv, QueueAgrees
  <2> QED
    BY <1>1, <2>1
<1>10. queue' \subseteq (Int \X Int) \X Ids
  BY <1>3, <1>4, <1>8 DEF QueueKey
<1>11. \A k \in Keys : dependents'[k] = {id \in DOMAIN tasks' : k \in tasks'[id].dependencies}
  <2>1. \A k \in Keys : dependents[k] = {id \in DOMAIN tasks : k \in tasks[id].dependencies}
    BY DEF Inv, IndexAgrees
  <2>2. \A k \in Keys : dependents'[k] =
          (dependents[k] \ {id \in DOMAIN items \cap DOMAIN tasks : k \in tasks[id].dependencies})
            \cup {id \in DOMAIN items : k \in items[id].dependencies}
    BY DEF Place, Unindexed
  <2>3. ASSUME NEW k \in Keys
        PROVE  dependents'[k] = {id \in DOMAIN tasks' : k \in tasks'[id].dependencies}
    BY <1>1, <2>1, <2>2
  <2> QED
    BY <2>3
<1>12. dependents' \in [Keys -> SUBSET Ids]
  <2>1. DOMAIN dependents' = Keys /\ dependents' = [k \in Keys |-> dependents'[k]]
    BY DEF Place
  <2> QED
    BY <1>3, <1>11, <2>1
<1> QED
  BY <1>3, <1>8, <1>9, <1>10, <1>11, <1>12 DEF QueueAgrees, IndexAgrees

\* The same for tasks that leave.
LEMMA LeaveAgrees ==
    ASSUME Inv, NEW ids,
           tasks' = [id \in DOMAIN tasks \ ids |-> tasks[id]],
           queue' = {<<QueueKey(tasks[id]), id>> : id \in DOMAIN tasks \ ids},
           dependents' = Unindexed(ids)
    PROVE  /\ DOMAIN tasks' \subseteq Ids /\ tasks' \in [DOMAIN tasks' -> Item]
           /\ queue' \subseteq (Int \X Int) \X Ids
           /\ dependents' \in [Keys -> SUBSET Ids]
           /\ QueueAgrees' /\ IndexAgrees'
<1>1. /\ DOMAIN tasks' = DOMAIN tasks \ ids
      /\ \A id \in DOMAIN tasks' : tasks'[id] = tasks[id]
  OBVIOUS
<1>2. /\ DOMAIN tasks \subseteq Ids /\ tasks \in [DOMAIN tasks -> Item]
      /\ queue \subseteq (Int \X Int) \X Ids
      /\ dependents \in [Keys -> SUBSET Ids]
  BY DEF Inv, TypeOK
<1>3. DOMAIN tasks' \subseteq Ids /\ tasks' \in [DOMAIN tasks' -> Item]
  BY <1>1, <1>2
<1>4. \A id \in DOMAIN tasks' : QueueKey(tasks'[id]) = QueueKey(tasks[id])
  BY <1>1
<1>5. queue' = {<<QueueKey(tasks'[id]), id>> : id \in DOMAIN tasks'}
  BY <1>1, <1>4
<1>6. queue' \subseteq queue
  BY <1>1 DEF Inv, QueueAgrees
<1>7. \A x, y \in DOMAIN tasks' : tasks'[x].sequence = tasks'[y].sequence => x = y
  BY <1>1 DEF Inv, QueueAgrees
<1>8. \A k \in Keys : dependents'[k] = {id \in DOMAIN tasks' : k \in tasks'[id].dependencies}
  <2>1. ASSUME NEW k \in Keys
        PROVE  dependents'[k] = {id \in DOMAIN tasks' : k \in tasks'[id].dependencies}
    <3>1. dependents[k] = {id \in DOMAIN tasks : k \in tasks[id].dependencies}
      BY DEF Inv, IndexAgrees
    <3>2. dependents'[k] = dependents[k] \ {id \in ids \cap DOMAIN tasks : k \in tasks[id].dependencies}
      BY DEF Unindexed
    <3> QED
      BY <1>1, <3>1, <3>2
  <2> QED
    BY <2>1
<1>9. dependents' \in [Keys -> SUBSET Ids]
  <2>1. dependents' = [k \in Keys |-> dependents'[k]]
    BY DEF Unindexed
  <2> QED
    BY <1>3, <1>8, <2>1
<1> QED
  BY <1>2, <1>3, <1>5, <1>6, <1>7, <1>8, <1>9 DEF QueueAgrees, IndexAgrees
-----------------------------------------------------------------------------
LEMMA InitInv == Init => Inv
<1> SUFFICES ASSUME Init PROVE Inv
  OBVIOUS
<1>1. /\ tasks = <<>> /\ DOMAIN tasks = {} /\ queue = {} /\ popped = <<>>
      /\ dependents = [k \in Keys |-> {}] /\ changed_at = [k \in Keys |-> 0]
  BY DEF Init
<1>2. TypeOK
  BY <1>1 DEF Init, TypeOK
<1> QED
  BY <1>1, <1>2 DEF Inv, QueueAgrees, IndexAgrees, RanksAreFresh, EvaluationsAreCurrent

LEMMA PutTasksInv ==
    ASSUME Inv, NEW list \in TaskLists, PutTasks(list)
    PROVE  Inv'
<1> DEFINE ids == ListedIds(list)
           Payload(id) == list[LastMention(list, id)].payload
           items == [id \in ids |->
                       EvaluatedItem(Payload(id), data, SequenceFor(list, id), revision)]
<1>1. list \in Seq(Listed)
  BY TaskListsAssumption DEF Listed
<1>2. ids \subseteq Ids /\ DOMAIN items = ids
  BY <1>1, ListedFinite
<1>3. \A id \in ids : LastMention(list, id) \in DOMAIN list
  BY <1>1, MentionsExist
<1>4. \A id \in ids : /\ Payload(id) \in Payloads
                      /\ Ranker[Payload(id)][data].ok
                      /\ SequenceFor(list, id) \in Nat
  <2>1. \A i \in DOMAIN list : list[i] \in Listed
    BY <1>1
  <2>2. \A i \in DOMAIN list : list[i].payload \in Payloads
    BY <2>1 DEF Listed
  <2>3. \A i \in DOMAIN list : Ranker[list[i].payload][data].ok
    BY DEF PutTasks
  <2>4. \A id \in ids : SequenceFor(list, id) \in Nat
    BY <1>1, SequencesAreFresh
  <2> QED
    BY <1>3, <2>2, <2>3, <2>4
<1>5. data \in Data /\ revision \in Nat /\ next_sequence \in Nat
  BY DEF Inv, TypeOK
<1>6. \A id \in ids : /\ items[id] \in Item
                      /\ items[id].payload = Payload(id)
                      /\ items[id].rank = Ranker[Payload(id)][data].rank
                      /\ items[id].dependencies = Ranker[Payload(id)][data].reads
                      /\ items[id].sequence = SequenceFor(list, id)
                      /\ items[id].evaluated_at = revision
  BY <1>4, <1>5, EvaluatedItemType DEF EvaluatedItem
<1>7. \A x, y \in ids : items[x].sequence = items[y].sequence => x = y
  BY <1>1, <1>6, SequencesDiffer
<1>8. /\ Place(items) /\ next_sequence' = next_sequence + Cardinality(ids \ DOMAIN tasks)
      /\ UNCHANGED <<data, revision, changed_at>> /\ popped' = <<>>
  BY DEF PutTasks
<1>9. \A x \in ids : /\ SequenceFor(list, x) < next_sequence'
                     /\ x \in DOMAIN tasks => SequenceFor(list, x) = tasks[x].sequence
                     /\ x \notin DOMAIN tasks => SequenceFor(list, x) >= next_sequence
  BY <1>1, <1>8, SequencesAreFresh
<1>10. next_sequence' \in Nat /\ next_sequence' >= next_sequence
  <2>1. Cardinality(ids \ DOMAIN tasks) \in Nat
    BY <1>1, ListedFinite, FS_Subset, FS_CardinalityType
  <2> QED
    BY <1>5, <1>8, <2>1
<1>11. \A y \in DOMAIN tasks : tasks[y].sequence < next_sequence /\ tasks[y].sequence \in Nat
  BY DEF Inv, TypeOK, Item
<1>12. \A x \in ids, y \in DOMAIN tasks \ ids : items[x].sequence # tasks[y].sequence
  <2> TAKE x \in ids, y \in DOMAIN tasks \ ids
  <2>1. x \in DOMAIN tasks => tasks[x].sequence # tasks[y].sequence
    BY DEF Inv, QueueAgrees
  <2> QED
    BY <1>4, <1>5, <1>6, <1>9, <1>11, <2>1
<1>13. items \in [DOMAIN items -> Item]
  BY <1>2, <1>6
<1>14. /\ DOMAIN tasks' = DOMAIN tasks \cup ids
       /\ \A id \in ids : tasks'[id] = items[id]
       /\ \A id \in DOMAIN tasks \ ids : tasks'[id] = tasks[id]
  BY <1>2, <1>8 DEF Place
<1> HIDE DEF ids, items, Payload
<1>15. /\ DOMAIN tasks' \subseteq Ids /\ tasks' \in [DOMAIN tasks' -> Item]
       /\ queue' \subseteq (Int \X Int) \X Ids
       /\ dependents' \in [Keys -> SUBSET Ids]
       /\ QueueAgrees' /\ IndexAgrees'
  BY <1>2, <1>7, <1>8, <1>12, <1>13, PlaceAgrees
<1>16. \A id \in DOMAIN tasks' : tasks'[id].sequence < next_sequence'
  <2>1. \A id \in ids : tasks'[id].sequence < next_sequence'
    BY <1>6, <1>9, <1>14
  <2>2. \A id \in DOMAIN tasks \ ids : tasks'[id].sequence < next_sequence'
    BY <1>5, <1>10, <1>11, <1>14
  <2> QED
    BY <1>14, <2>1, <2>2
<1>17. TypeOK'
  <2>1. popped' \in Seq(Ids)
    BY <1>8
  <2> QED
    BY <1>8, <1>10, <1>15, <1>16, <2>1 DEF Inv, TypeOK
<1>18. RanksAreFresh'
  BY <1>4, <1>6, <1>8, <1>14 DEF Inv, RanksAreFresh
<1>19. EvaluationsAreCurrent'
  <2>1. \A k \in Keys : changed_at[k] \in Nat /\ changed_at[k] <= revision
    BY <1>5 DEF Inv, TypeOK
  <2>2. \A id \in ids : /\ tasks'[id].evaluated_at <= revision
                        /\ \A k \in Keys : changed_at[k] <= tasks'[id].evaluated_at
    BY <1>5, <1>6, <1>14, <2>1
  <2>3. \A id \in ids : tasks'[id].dependencies \subseteq Keys
    BY <1>6, <1>14 DEF Item
  <2> QED
    BY <1>8, <1>14, <2>2, <2>3 DEF Inv, EvaluationsAreCurrent
<1> QED
  BY <1>15, <1>17, <1>18, <1>19 DEF Inv

\* What leaving tasks leave behind.
LEMMA LeaveInv ==
    ASSUME Inv, NEW ids,
           tasks' = [id \in DOMAIN tasks \ ids |-> tasks[id]],
           queue' = {<<QueueKey(tasks[id]), id>> : id \in DOMAIN tasks \ ids},
           dependents' = Unindexed(ids),
           popped' \in Seq(Ids), UNCHANGED <<data, revision, next_sequence, changed_at>>
    PROVE  Inv'
<1>1. /\ DOMAIN tasks' \subseteq Ids /\ tasks' \in [DOMAIN tasks' -> Item]
      /\ queue' \subseteq (Int \X Int) \X Ids
      /\ dependents' \in [Keys -> SUBSET Ids]
      /\ QueueAgrees' /\ IndexAgrees'
  BY LeaveAgrees
<1>2. \A id \in DOMAIN tasks' : id \in DOMAIN tasks /\ tasks'[id] = tasks[id]
  OBVIOUS
<1>3. TypeOK'
  BY <1>1, <1>2 DEF Inv, TypeOK
<1>4. RanksAreFresh' /\ EvaluationsAreCurrent'
  BY <1>2 DEF Inv, RanksAreFresh, EvaluationsAreCurrent
<1> QED
  BY <1>1, <1>3, <1>4 DEF Inv

LEMMA DeleteTaskInv ==
    ASSUME Inv, NEW id \in Ids, DeleteTask(id)
    PROVE  Inv'
<1>1. /\ tasks' = [i \in DOMAIN tasks \ {id} |-> tasks[i]]
      /\ queue' = Dequeued({id}) /\ dependents' = Unindexed({id})
      /\ popped' = <<>> /\ UNCHANGED <<data, revision, next_sequence, changed_at>>
  BY DEF DeleteTask, Remove
<1>2. \A x, y \in DOMAIN tasks : QueueKey(tasks[x]) = QueueKey(tasks[y]) => x = y
  BY DEF Inv, TypeOK, QueueAgrees, QueueKey, Item
<1>3. queue' = {<<QueueKey(tasks[i]), i>> : i \in DOMAIN tasks \ {id}}
  BY <1>1, <1>2 DEF Inv, QueueAgrees, Dequeued
<1>4. popped' \in Seq(Ids)
  BY <1>1
<1> QED
  BY <1>1, <1>3, <1>4, LeaveInv

LEMMA PopManyInv ==
    ASSUME Inv, NEW count \in Nat, PopMany(count)
    PROVE  Inv'
<1>1. PICK n \in 0 .. count : \E taken \in [1 .. n -> queue] :
        LET top == {taken[i] : i \in 1 .. n}
            ids == {e[2] : e \in top}
        IN /\ popped' = [i \in 1 .. n |-> taken[i][2]]
           /\ tasks' = [id \in DOMAIN tasks \ ids |-> tasks[id]]
           /\ queue' = queue \ top
           /\ dependents' = Unindexed(ids)
           /\ UNCHANGED <<data, revision, next_sequence, changed_at>>
  BY DEF PopMany
<1>2. PICK taken \in [1 .. n -> queue] :
        LET top == {taken[i] : i \in 1 .. n}
            ids == {e[2] : e \in top}
        IN /\ popped' = [i \in 1 .. n |-> taken[i][2]]
           /\ tasks' = [id \in DOMAIN tasks \ ids |-> tasks[id]]
           /\ queue' = queue \ top
           /\ dependents' = Unindexed(ids)
           /\ UNCHANGED <<data, revision, next_sequence, changed_at>>
  BY <1>1
<1> DEFINE top == {taken[i] : i \in 1 .. n}
           ids == {e[2] : e \in top}
<1>3. /\ popped' = [i \in 1 .. n |-> taken[i][2]]
      /\ tasks' = [id \in DOMAIN tasks \ ids |-> tasks[id]]
      /\ queue' = queue \ top
      /\ dependents' = Unindexed(ids)
      /\ UNCHANGED <<data, revision, next_sequence, changed_at>>
  BY <1>2
<1>4. \A i \in 1 .. n : taken[i] \in queue
  OBVIOUS
<1>5. queue \subseteq (Int \X Int) \X Ids
  BY DEF Inv, TypeOK
<1>6. popped' \in Seq(Ids)
  <2>1. ASSUME NEW i \in 1 .. n
        PROVE  taken[i][2] \in Ids
    BY <1>4, <1>5
  <2>2. [i \in 1 .. n |-> taken[i][2]] \in [1 .. n -> Ids]
    BY <2>1
  <2>3. n \in Nat
    BY DEF PopMany
  <2>4. popped' \in [1 .. n -> Ids]
    BY <1>3, <2>2
  <2> QED
    BY <2>3, <2>4
<1>7. top \subseteq queue
  BY <1>4
<1> HIDE DEF top
<1>8. queue \ top = {<<QueueKey(tasks[id]), id>> : id \in DOMAIN tasks \ ids}
  <2>1. queue = {<<QueueKey(tasks[id]), id>> : id \in DOMAIN tasks}
    BY DEF Inv, QueueAgrees
  <2>2. ASSUME NEW id \in DOMAIN tasks
        PROVE  <<QueueKey(tasks[id]), id>> \in top <=> id \in ids
    <3>1. ASSUME NEW e \in top, e[2] = id
          PROVE  e = <<QueueKey(tasks[id]), id>>
      <4>1. e \in queue
        BY <1>7
      <4>2. PICK x \in DOMAIN tasks : e = <<QueueKey(tasks[x]), x>>
        BY <2>1, <4>1
      <4> QED
        BY <3>1, <4>2
    <3> QED
      BY <3>1
  <2> HIDE DEF ids
  <2> QED
    BY <2>1, <2>2
<1> HIDE DEF ids
<1> QED
  BY <1>3, <1>6, <1>8, LeaveInv

LEMMA ChangeDataInv ==
    ASSUME Inv, NEW inputs \in Data, ChangeData(inputs)
    PROVE  Inv'
<1> DEFINE changed == {k \in Keys : inputs[k] # data[k]}
           hit == Affected(changed)
           items == [id \in hit |->
              EvaluatedItem(tasks[id].payload, inputs, tasks[id].sequence, revision + 1)]
<1>1. /\ Place(items) /\ data' = inputs /\ revision' = revision + 1
      /\ \A id \in hit : Ranker[tasks[id].payload][inputs].ok
      /\ changed_at' = [k \in Keys |-> IF k \in changed THEN revision' ELSE changed_at[k]]
      /\ popped' = <<>> /\ UNCHANGED next_sequence
  BY DEF ChangeData, ApplyDataChange
<1>2. /\ data \in Data /\ revision \in Nat /\ next_sequence \in Nat
      /\ DOMAIN tasks \subseteq Ids /\ tasks \in [DOMAIN tasks -> Item]
      /\ changed_at \in [Keys -> 0 .. revision]
  BY DEF Inv, TypeOK
<1>3. hit = {id \in DOMAIN tasks : \E k \in changed : k \in tasks[id].dependencies}
  <2>1. \A k \in changed : dependents[k] = {id \in DOMAIN tasks : k \in tasks[id].dependencies}
    BY DEF Inv, IndexAgrees
  <2> QED
    BY <2>1 DEF Affected
<1>4. \A id \in DOMAIN tasks : /\ tasks[id].payload \in Payloads /\ tasks[id].sequence \in Nat
                               /\ tasks[id].dependencies \subseteq Keys
                               /\ tasks[id].evaluated_at \in Nat
  BY <1>2 DEF Item
<1>5. \A id \in hit : /\ items[id] \in Item
                      /\ items[id].payload = tasks[id].payload
                      /\ items[id].rank = Ranker[tasks[id].payload][inputs].rank
                      /\ items[id].dependencies = Ranker[tasks[id].payload][inputs].reads
                      /\ items[id].sequence = tasks[id].sequence
                      /\ items[id].evaluated_at = revision + 1
  BY <1>2, <1>3, <1>4, EvaluatedItemType DEF EvaluatedItem
<1>6. DOMAIN items = hit /\ hit \subseteq DOMAIN tasks
  BY <1>3
<1>7. /\ DOMAIN tasks' = DOMAIN tasks
      /\ \A id \in hit : tasks'[id] = items[id]
      /\ \A id \in DOMAIN tasks \ hit : tasks'[id] = tasks[id]
  BY <1>1, <1>6 DEF Place
\* A task the index does not name read no changed key: its ranking is the same.
<1>8. ASSUME NEW id \in DOMAIN tasks \ hit
      PROVE  Ranker[tasks[id].payload][inputs] = Ranker[tasks[id].payload][data]
  <2>1. tasks[id].dependencies = Ranker[tasks[id].payload][data].reads
    BY DEF Inv, RanksAreFresh
  <2>2. \A k \in tasks[id].dependencies : data[k] = inputs[k]
    BY <1>3, <1>4
  <2> QED
    BY <1>2, <1>4, <2>1, <2>2, TrackedAssumption
<1> HIDE DEF items, hit
<1>9. /\ DOMAIN tasks' \subseteq Ids /\ tasks' \in [DOMAIN tasks' -> Item]
      /\ queue' \subseteq (Int \X Int) \X Ids
      /\ dependents' \in [Keys -> SUBSET Ids]
      /\ QueueAgrees' /\ IndexAgrees'
  <2>1. items \in [DOMAIN items -> Item] /\ DOMAIN items \subseteq Ids
    BY <1>2, <1>5, <1>6 DEF items
  <2>2. \A x, y \in DOMAIN tasks : tasks[x].sequence = tasks[y].sequence => x = y
    BY DEF Inv, QueueAgrees
  <2> QED
    BY <1>1, <1>5, <1>6, <2>1, <2>2, PlaceAgrees
<1>10. \A id \in DOMAIN tasks' : /\ tasks'[id].sequence = tasks[id].sequence
                                 /\ tasks'[id].payload = tasks[id].payload
  BY <1>5, <1>7
<1>11. changed_at' \in [Keys -> 0 .. revision']
  BY <1>1, <1>2
<1>12. TypeOK'
  <2>1. \A id \in DOMAIN tasks' : tasks'[id].sequence < next_sequence'
    BY <1>1, <1>7, <1>10 DEF Inv, TypeOK
  <2>2. popped' \in Seq(Ids) /\ revision' \in Nat
    BY <1>1, <1>2
  <2> QED
    BY <1>1, <1>2, <1>9, <1>11, <2>1, <2>2 DEF TypeOK
<1>13. RanksAreFresh'
  <2>1. \A id \in hit : LET now == Ranker[tasks'[id].payload][data']
                        IN now.ok /\ now.rank = tasks'[id].rank /\ now.reads = tasks'[id].dependencies
    BY <1>1, <1>5, <1>7
  <2>2. \A id \in DOMAIN tasks \ hit :
           LET now == Ranker[tasks'[id].payload][data']
           IN now.ok /\ now.rank = tasks'[id].rank /\ now.reads = tasks'[id].dependencies
    BY <1>1, <1>7, <1>8 DEF Inv, RanksAreFresh
  <2> QED
    BY <1>7, <2>1, <2>2 DEF RanksAreFresh
<1>14. EvaluationsAreCurrent'
  <2>1. \A id \in hit : /\ tasks'[id].evaluated_at = revision'
                        /\ tasks'[id].dependencies \subseteq Keys
    BY <1>1, <1>5, <1>7 DEF Item
  <2>2. \A k \in Keys : changed_at'[k] <= revision'
    BY <1>2, <1>11
  <2>3. \A id \in DOMAIN tasks \ hit :
          /\ tasks[id].evaluated_at <= revision
          /\ \A k \in tasks[id].dependencies : changed_at'[k] <= tasks[id].evaluated_at
    BY <1>1, <1>3, <1>4 DEF Inv, EvaluationsAreCurrent
  <2>4. \A id \in DOMAIN tasks \ hit : tasks[id].evaluated_at <= revision'
    BY <1>1, <1>2, <1>4, <2>3
  <2>5. revision' <= revision'
    BY <1>1, <1>2
  <2> QED
    BY <1>7, <2>1, <2>2, <2>3, <2>4, <2>5 DEF EvaluationsAreCurrent
<1> QED
  BY <1>9, <1>12, <1>13, <1>14 DEF Inv
-----------------------------------------------------------------------------
\* The inputs put_data and delete_data arrive at are data again.
LEMMA InputsAreData ==
    ASSUME Inv
    PROVE  /\ \A keys \in SUBSET Keys : \A values \in [keys -> Values] :
                 [k \in Keys |-> IF k \in DOMAIN values THEN values[k] ELSE data[k]] \in Data
           /\ \A key \in Keys : [data EXCEPT ![key] = ABSENT] \in Data
<1>1. data \in [Keys -> Values \cup {ABSENT}]
  BY DEF Inv, TypeOK, Data
<1> QED
  BY <1>1 DEF Data

\* A step is one of four things.
LEMMA StepKinds ==
    ASSUME Inv, [Next]_vars
    PROVE  \/ \E list \in TaskLists : PutTasks(list)
           \/ \E id \in Ids : DeleteTask(id)
           \/ \E inputs \in Data : ChangeData(inputs)
           \/ \E count \in Nat : PopMany(count)
           \/ UNCHANGED vars
<1>1. ASSUME NEW keys \in SUBSET Keys, NEW values \in [keys -> Values], PutData(values)
      PROVE  \E inputs \in Data : ChangeData(inputs)
  BY <1>1, InputsAreData DEF PutData
<1>2. ASSUME NEW key \in Keys, DeleteData(key)
      PROVE  \E inputs \in Data : ChangeData(inputs)
  BY <1>2, InputsAreData DEF DeleteData
<1>3. \A count \in 1 .. Cardinality(Ids) : count \in Nat
  OBVIOUS
<1> QED
  BY <1>1, <1>2, <1>3 DEF Next

LEMMA NextInv == Inv /\ [Next]_vars => Inv'
<1> SUFFICES ASSUME Inv, [Next]_vars PROVE Inv'
  OBVIOUS
<1>1. CASE UNCHANGED vars
  <2>1. UNCHANGED <<data, revision, tasks, queue, dependents, next_sequence, popped, changed_at>>
    BY <1>1 DEF vars
  <2> QED
    BY <2>1 DEF Inv, TypeOK, QueueAgrees, IndexAgrees, RanksAreFresh, EvaluationsAreCurrent
<1> QED
  BY <1>1, StepKinds, PutTasksInv, DeleteTaskInv, ChangeDataInv, PopManyInv

LEMMA Invariance == Spec => []Inv
<1> QED
  BY InitInv, NextInv, PTL DEF Spec

\* Every variable keeps its type, and every sequence number is below the next
\* one, whatever calls are made.
THEOREM SchedulerTypes == Spec => []TypeOK
<1>1. Inv => TypeOK
  BY DEF Inv
<1> QED
  BY <1>1, Invariance, PTL

\* The ordered tree always holds exactly the pending tasks, each under a key of
\* its own, so that insert never meets a duplicate and pop never misses a task;
\* and the dependents index is always the inverse of the stored dependencies.
THEOREM StructuresStayExact == Spec => []StructuresAgree
<1>1. Inv => StructuresAgree
  BY DEF Inv, StructuresAgree
<1> QED
  BY <1>1, Invariance, PTL

\* No rank is ever stale, for every ranking function that obtains its mutable
\* inputs through read: reranking only what the index names is enough.  Nor does
\* evaluated_at precede a change of a key the task depends on.
THEOREM RanksStayFresh == Spec => []NothingIsStale
<1>1. Inv => NothingIsStale
  BY DEF Inv, NothingIsStale
<1> QED
  BY <1>1, Invariance, PTL
-----------------------------------------------------------------------------
LEMMA InitRefines == Init => RankedOnDemand!Init
<1> SUFFICES ASSUME Init PROVE RankedOnDemand!Init
  OBVIOUS
<1>1. tasks = <<>> /\ DOMAIN tasks = {} /\ data \in Data /\ next_sequence = 0 /\ popped = <<>>
  BY DEF Init
<1>2. [id \in DOMAIN tasks |-> [payload |-> tasks[id].payload, arrived |-> tasks[id].sequence]] = <<>>
  BY <1>1
<1> QED
  BY <1>1, <1>2 DEF RankedOnDemand!Init

\* Stored ranks order two tasks as the ranking function does at this moment.
LEMMA StoredOrderIsTrueOrder ==
    ASSUME Inv, NEW x \in DOMAIN tasks, NEW y \in DOMAIN tasks,
           Above(QueueKey(tasks[x]), QueueKey(tasks[y]))
    PROVE  RankedOnDemand!Before(
             [payload |-> tasks[x].payload, arrived |-> tasks[x].sequence],
             [payload |-> tasks[y].payload, arrived |-> tasks[y].sequence])
<1>1. /\ tasks[x].rank = Ranker[tasks[x].payload][data].rank
      /\ tasks[y].rank = Ranker[tasks[y].payload][data].rank
  BY DEF Inv, RanksAreFresh
<1>2. /\ tasks[x].rank \in Int /\ tasks[y].rank \in Int
      /\ tasks[x].sequence \in Nat /\ tasks[y].sequence \in Nat
  BY SMTT(30), ZenonT(30) DEF Inv, TypeOK, Item
<1>3. \/ tasks[x].rank > tasks[y].rank
      \/ tasks[x].rank = tasks[y].rank /\ -tasks[x].sequence > -tasks[y].sequence
  BY DEF Above, QueueKey
<1>4. \/ tasks[x].rank > tasks[y].rank
      \/ tasks[x].rank = tasks[y].rank /\ tasks[x].sequence < tasks[y].sequence
  BY <1>2, <1>3
<1> QED
  BY <1>1, <1>4 DEF RankedOnDemand!Before, RankedOnDemand!RankNow

Waiting == [id \in DOMAIN tasks |->
              [payload |-> tasks[id].payload, arrived |-> tasks[id].sequence]]

LEMMA PutTasksRefines ==
    ASSUME Inv, Inv', NEW list \in TaskLists, PutTasks(list)
    PROVE  RankedOnDemand!Next
<1> DEFINE ids == ListedIds(list)
<1>1. list \in Seq(Listed)
  BY TaskListsAssumption DEF Listed
<1>2. /\ DOMAIN tasks' = DOMAIN tasks \cup ids
      /\ \A id \in ids : tasks'[id].sequence = SequenceFor(list, id)
      /\ \A id \in DOMAIN tasks \ ids : tasks'[id] = tasks[id]
      /\ next_sequence' = next_sequence + Cardinality(ids \ DOMAIN tasks)
      /\ data' = data /\ popped' = <<>>
  BY SMTT(30), ZenonT(30) DEF PutTasks, Place, EvaluatedItem
<1>3. next_sequence \in Nat /\ next_sequence' \in Nat
  BY DEF Inv, TypeOK
<1>4. ids \in SUBSET Ids
  BY <1>1, ListedFinite
<1>5. \A id \in ids : Ranker[tasks'[id].payload][data].ok
  BY <1>2 DEF Inv, RanksAreFresh
<1>6. \A id \in ids : IF id \in DOMAIN tasks
                        THEN SequenceFor(list, id) = tasks[id].sequence
                        ELSE SequenceFor(list, id) \in next_sequence .. next_sequence' - 1
  <2> TAKE id \in ids
  <2>1. /\ SequenceFor(list, id) \in Nat /\ SequenceFor(list, id) < next_sequence'
        /\ id \in DOMAIN tasks => SequenceFor(list, id) = tasks[id].sequence
        /\ id \notin DOMAIN tasks => SequenceFor(list, id) >= next_sequence
    BY <1>1, <1>2, SequencesAreFresh
  <2> QED
    BY <1>3, <2>1
<1>7. \A x, y \in ids : x # y => tasks'[x].sequence # tasks'[y].sequence
  BY <1>1, <1>2, SequencesDiffer
<1>8. next_sequence' >= next_sequence
  BY <1>1, <1>2, SequencesAreFresh, <1>3, ListedFinite, FS_Subset, FS_CardinalityType
<1> HIDE DEF ids
<1>9. /\ DOMAIN Waiting = DOMAIN tasks /\ DOMAIN Waiting' = DOMAIN tasks'
      /\ \A id \in DOMAIN tasks : /\ Waiting[id].payload = tasks[id].payload
                                  /\ Waiting[id].arrived = tasks[id].sequence
      /\ \A id \in DOMAIN tasks' : /\ Waiting'[id].payload = tasks'[id].payload
                                   /\ Waiting'[id].arrived = tasks'[id].sequence
      /\ \A id \in DOMAIN tasks \ ids : Waiting'[id] = Waiting[id]
  BY <1>2 DEF Waiting
<1>10. \A id \in ids : /\ RankedOnDemand!Rankable(Waiting'[id], data)
                      /\ IF id \in DOMAIN Waiting
                           THEN Waiting'[id].arrived = Waiting[id].arrived
                           ELSE Waiting'[id].arrived \in next_sequence .. next_sequence' - 1
  <2> TAKE id \in ids
  <2>1. id \in DOMAIN tasks'
    BY <1>2
  <2>2. RankedOnDemand!Rankable(Waiting'[id], data)
    BY <1>5, <1>9, <2>1 DEF RankedOnDemand!Rankable
  <2>3. Waiting'[id].arrived = SequenceFor(list, id)
    BY <1>2, <1>9, <2>1
  <2>4. CASE id \in DOMAIN tasks
    BY <1>6, <1>9, <2>2, <2>3, <2>4
  <2>5. CASE id \notin DOMAIN tasks
    BY <1>6, <1>9, <2>2, <2>3, <2>5
  <2> QED
    BY <2>4, <2>5
<1>11. \A a, b \in ids : a # b => Waiting'[a].arrived # Waiting'[b].arrived
  <2> TAKE a, b \in ids
  <2>1. a \in DOMAIN tasks' /\ b \in DOMAIN tasks'
    BY <1>2
  <2>2. Waiting'[a].arrived = tasks'[a].sequence /\ Waiting'[b].arrived = tasks'[b].sequence
    BY <1>9, <2>1
  <2> QED
    BY <1>7, <2>2
<1>12. /\ DOMAIN Waiting' = DOMAIN Waiting \cup ids
       /\ \A id \in DOMAIN Waiting \ ids : Waiting'[id] = Waiting[id]
  BY <1>2, <1>9
<1>13. popped' = <<>> /\ UNCHANGED data
  BY <1>2
<1>14. RankedOnDemand!Arrive(ids)
  BY <1>8, <1>10, <1>11, <1>12, <1>13 DEF RankedOnDemand!Arrive, Waiting
<1> QED
  BY <1>4, <1>14 DEF RankedOnDemand!Next

LEMMA DeleteTaskRefines ==
    ASSUME NEW id \in Ids, DeleteTask(id)
    PROVE  RankedOnDemand!Next
<1>1. /\ tasks' = [i \in DOMAIN tasks \ {id} |-> tasks[i]] /\ popped' = <<>>
      /\ UNCHANGED <<data, next_sequence>>
  BY DEF DeleteTask, Remove
<1>2. RankedOnDemand!Withdraw(id)
  BY <1>1 DEF RankedOnDemand!Withdraw, RankedOnDemand!Without
<1> QED
  BY <1>2 DEF RankedOnDemand!Next

LEMMA ChangeDataRefines ==
    ASSUME Inv, Inv', NEW inputs \in Data, ChangeData(inputs)
    PROVE  RankedOnDemand!Next
<1> DEFINE hit == Affected({k \in Keys : inputs[k] # data[k]})
<1>1. /\ data' = inputs /\ popped' = <<>> /\ UNCHANGED next_sequence
      /\ Place([id \in hit |->
            EvaluatedItem(tasks[id].payload, inputs, tasks[id].sequence, revision + 1)])
  BY DEF ChangeData, ApplyDataChange
<1>2. hit \subseteq DOMAIN tasks
  BY SMTT(30), ZenonT(30) DEF Inv, IndexAgrees, Affected
<1>3. /\ DOMAIN tasks' = DOMAIN tasks
      /\ \A id \in DOMAIN tasks : /\ tasks'[id].payload = tasks[id].payload
                                  /\ tasks'[id].sequence = tasks[id].sequence
  BY <1>1, <1>2 DEF Place, EvaluatedItem
<1>4. \A id \in DOMAIN tasks : Ranker[tasks[id].payload][inputs].ok
  BY <1>1, <1>3 DEF Inv, RanksAreFresh
<1>5. Waiting' = Waiting
  BY <1>3 DEF Waiting
<1>6. RankedOnDemand!Change(inputs)
  BY <1>1, <1>4, <1>5 DEF RankedOnDemand!Change, RankedOnDemand!Rankable, Waiting
<1> QED
  BY <1>6 DEF RankedOnDemand!Next

\* What pop_many takes from the tree is what ranking everything afresh would
\* serve first, in that order.
LEMMA PopManyRefines ==
    ASSUME Inv, NEW count \in Nat, PopMany(count)
    PROVE  RankedOnDemand!Next
<1>1. PICK n \in 0 .. count : \E taken \in [1 .. n -> queue] :
        LET top == {taken[i] : i \in 1 .. n}
            ids == {e[2] : e \in top}
        IN /\ \A i, j \in 1 .. n : i < j => Above(taken[i][1], taken[j][1])
           /\ \A e \in top, f \in queue \ top : Above(e[1], f[1])
           /\ popped' = [i \in 1 .. n |-> taken[i][2]]
           /\ tasks' = [id \in DOMAIN tasks \ ids |-> tasks[id]]
           /\ UNCHANGED <<data, next_sequence>>
  BY DEF PopMany
<1>2. PICK taken \in [1 .. n -> queue] :
        LET top == {taken[i] : i \in 1 .. n}
            ids == {e[2] : e \in top}
        IN /\ \A i, j \in 1 .. n : i < j => Above(taken[i][1], taken[j][1])
           /\ \A e \in top, f \in queue \ top : Above(e[1], f[1])
           /\ popped' = [i \in 1 .. n |-> taken[i][2]]
           /\ tasks' = [id \in DOMAIN tasks \ ids |-> tasks[id]]
           /\ UNCHANGED <<data, next_sequence>>
  BY <1>1
<1> DEFINE leaving == {popped'[i] : i \in DOMAIN popped'}
<1>3. DOMAIN popped' = 1 .. n /\ \A i \in 1 .. n : popped'[i] = taken[i][2]
  BY <1>2
<1>4. queue = {<<QueueKey(tasks[id]), id>> : id \in DOMAIN tasks}
  BY DEF Inv, QueueAgrees
<1>5. \A i \in 1 .. n : /\ popped'[i] \in DOMAIN tasks
                        /\ taken[i] = <<QueueKey(tasks[popped'[i]]), popped'[i]>>
  BY <1>3, <1>4
<1>6. leaving = {e[2] : e \in {taken[i] : i \in 1 .. n}}
  BY <1>3
<1>7. leaving \subseteq DOMAIN tasks /\ tasks' = [id \in DOMAIN tasks \ leaving |-> tasks[id]]
  BY <1>2, <1>3, <1>5, <1>6
<1>8. \A i, j \in 1 .. n : i < j =>
        Above(QueueKey(tasks[popped'[i]]), QueueKey(tasks[popped'[j]]))
  BY <1>2, <1>5
<1>9. \A x \in leaving, y \in DOMAIN tasks \ leaving :
        Above(QueueKey(tasks[x]), QueueKey(tasks[y]))
  <2> TAKE x \in leaving, y \in DOMAIN tasks \ leaving
  <2>1. PICK i \in 1 .. n : popped'[i] = x
    BY <1>3
  <2>2. taken[i] = <<QueueKey(tasks[x]), x>>
    BY <1>5, <2>1
  <2>3. <<QueueKey(tasks[y]), y>> \in queue \ {taken[k] : k \in 1 .. n}
    BY <1>4, <1>3
  <2>4. Above(taken[i][1], <<QueueKey(tasks[y]), y>>[1])
    BY <1>2, <2>3
  <2> QED
    BY <2>2, <2>4
<1> HIDE DEF leaving
<1>10. \A x, y \in DOMAIN tasks : Above(QueueKey(tasks[x]), QueueKey(tasks[y])) =>
         RankedOnDemand!Before(Waiting[x], Waiting[y])
  BY StoredOrderIsTrueOrder DEF Waiting
<1>11. Waiting' = [id \in DOMAIN Waiting \ leaving |-> Waiting[id]]
  BY <1>7 DEF Waiting
<1>12. /\ \A i, j \in DOMAIN popped' :
             i < j => RankedOnDemand!Before(Waiting[popped'[i]], Waiting[popped'[j]])
       /\ \A x \in leaving, y \in DOMAIN Waiting \ leaving :
             RankedOnDemand!Before(Waiting[x], Waiting[y])
       /\ leaving \subseteq DOMAIN Waiting
       /\ UNCHANGED <<data, next_sequence>>
  BY <1>2, <1>3, <1>5, <1>7, <1>8, <1>9, <1>10 DEF Waiting
<1>13. RankedOnDemand!Serve
  BY <1>11, <1>12 DEF RankedOnDemand!Serve, RankedOnDemand!Without, Waiting, leaving
<1> QED
  BY <1>13 DEF RankedOnDemand!Next

\* The scheduler, with its stored ranks and its index of dependents, implements
\* the queue that asks the ranking function about every task at every call.
THEOREM SchedulerImplementsRankQueue == Spec => RankQueueSpec
<1>1. ASSUME Inv, Inv', [Next]_vars
      PROVE  [RankedOnDemand!Next]_(RankedOnDemand!vars)
  <2>1. CASE UNCHANGED vars
    BY <2>1 DEF vars, RankedOnDemand!vars
  <2> QED
    BY <1>1, <2>1, StepKinds, PutTasksRefines, DeleteTaskRefines, ChangeDataRefines, PopManyRefines
<1> QED
  BY <1>1, InitRefines, Invariance, PTL DEF Spec, RankQueueSpec, RankedOnDemand!Spec
=============================================================================
