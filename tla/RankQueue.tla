------------------------------ MODULE RankQueue ------------------------------
(***************************************************************************)
(* What Findex.Scheduler promises: a bag of tasks ordered by what the      *)
(* ranking function says of them at this moment.  Nothing is cached and    *)
(* nothing can be stale here.  Scheduler implements it with stored ranks,  *)
(* tracked reads and an index of dependents.                               *)
(***************************************************************************)
EXTENDS Integers

CONSTANTS Ids, Data,
          Ranker     \* [payload -> [data -> [ok, rank, reads]]]

VARIABLES data,      \* the ranking inputs
          waiting,   \* [pending id -> its payload and its arrival number]
          arrivals,  \* arrival numbers handed out
          served     \* what the last call handed out, in order

vars == <<data, waiting, arrivals, served>>

Rankable(task, inputs) == Ranker[task.payload][inputs].ok
RankNow(task) == Ranker[task.payload][data].rank

\* The order of service: the greater rank, and among equals the earlier arrival.
Before(a, b) ==
    \/ RankNow(a) > RankNow(b)
    \/ RankNow(a) = RankNow(b) /\ a.arrived < b.arrived

Init ==
    /\ data \in Data
    /\ waiting = <<>>
    /\ arrivals = 0
    /\ served = <<>>

\* Tasks that can be ranked now arrive, each with a number of its own; one that
\* was waiting already is replaced and keeps its place among equals.
Arrive(ids) ==
    /\ DOMAIN waiting' = DOMAIN waiting \cup ids
    /\ \A id \in DOMAIN waiting \ ids : waiting'[id] = waiting[id]
    /\ \A id \in ids :
          /\ Rankable(waiting'[id], data)
          /\ IF id \in DOMAIN waiting
               THEN waiting'[id].arrived = waiting[id].arrived
               ELSE waiting'[id].arrived \in arrivals .. arrivals' - 1
    /\ \A a, b \in ids : a # b => waiting'[a].arrived # waiting'[b].arrived
    /\ arrivals' >= arrivals
    /\ served' = <<>>
    /\ UNCHANGED data

Without(ids) == [id \in DOMAIN waiting \ ids |-> waiting[id]]

Withdraw(id) ==
    /\ waiting' = Without({id})
    /\ served' = <<>>
    /\ UNCHANGED <<data, arrivals>>

\* The inputs change, to values with which every waiting task can be ranked.
Change(inputs) ==
    /\ \A id \in DOMAIN waiting : Rankable(waiting[id], inputs)
    /\ data' = inputs
    /\ served' = <<>>
    /\ UNCHANGED <<waiting, arrivals>>

\* Tasks leave in the order of service: each comes before those that leave
\* after it and before all that stay.
Serve ==
    LET leaving == {served'[i] : i \in DOMAIN served'}
    IN /\ leaving \subseteq DOMAIN waiting
       /\ \A i, j \in DOMAIN served' :
             i < j => Before(waiting[served'[i]], waiting[served'[j]])
       /\ \A a \in leaving, b \in DOMAIN waiting \ leaving : Before(waiting[a], waiting[b])
       /\ waiting' = Without(leaving)
       /\ UNCHANGED <<data, arrivals>>

Next ==
    \/ \E ids \in SUBSET Ids : Arrive(ids)
    \/ \E id \in Ids : Withdraw(id)
    \/ \E inputs \in Data : Change(inputs)
    \/ Serve

Spec == Init /\ [][Next]_vars
=============================================================================
