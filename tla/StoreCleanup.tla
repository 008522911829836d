---------------------------- MODULE StoreCleanup ----------------------------
(***************************************************************************)
(* The end of a native store (findex/native/findex_store.c).  The runtime  *)
(* calls the destructor of a store on whatever thread drops the last       *)
(* reference; the destructor hands the tables and blocks of the store, in  *)
(* a job that was allocated together with the store, to one cleanup        *)
(* thread, over a linked list with a lock and a condition variable.  The   *)
(* unloading of the library stops that thread and joins it.                *)
(***************************************************************************)
EXTENDS Naturals, FiniteSets

CONSTANTS Stores, NO_STORE

ASSUME NoStoreAssumption == NO_STORE \notin Stores
ASSUME StoresAssumption == IsFiniteSet(Stores)

VARIABLES
    store,      \* [Stores -> stage of the resource]
    job,        \* stores whose cleanup_job was allocated and not given away
    next,       \* [Stores -> next job in the list] of jobs given away
    head, tail, \* of the context
    stopping,   \* of the context
    thread,     \* [at, job]: where the cleanup thread is, and the job it holds
    context,    \* "loaded", "stopping" (in unload, before the join) or "freed"
    frees       \* [Stores -> times its memory has been given back] (history)

list == <<next, head, tail>>
cleanup_vars == <<store, job, list, stopping, thread, context, frees>>

At(place) == [at |-> place, job |-> NO_STORE]

CleanupInit ==
    /\ store = [s \in Stores |-> "unborn"]
    /\ job = {}
    /\ next = [s \in Stores |-> NO_STORE]
    /\ head = NO_STORE /\ tail = NO_STORE
    /\ stopping = FALSE
    /\ thread = At("checking")
    /\ context = "loaded"
    /\ frees = [s \in Stores |-> 0]

-----------------------------------------------------------------------------
(* Life of a resource *)

\* index_store_new: the job is allocated first; without it, or when anything
\* later fails, the half built store is released at once.
NewStore(s) ==
    /\ context = "loaded" /\ store[s] = "unborn"
    /\ \E allocated, complete \in BOOLEAN :
          /\ job' = IF allocated THEN job \cup {s} ELSE job
          /\ store' = [store EXCEPT ![s] = IF allocated /\ complete THEN "live" ELSE "released"]
    /\ UNCHANGED <<list, stopping, thread, context, frees>>

DropLastReference(s) ==
    /\ store[s] = "live"
    /\ store' = [store EXCEPT ![s] = "released"]
    /\ UNCHANGED <<job, list, stopping, thread, context, frees>>

\* index_store_destructor: everything moves into the job, which the store then
\* forgets; a store that never got a job is freed on the spot.
DestructStore(s) ==
    /\ store[s] = "released"
    /\ IF s \in job
         THEN /\ store' = [store EXCEPT ![s] = "enqueuing"]
              /\ UNCHANGED frees
         ELSE /\ store' = [store EXCEPT ![s] = "gone"]
              /\ frees' = [frees EXCEPT ![s] = @ + 1]
    /\ job' = job \ {s}
    /\ UNCHANGED <<list, stopping, thread, context>>

\* A slip: the flag or the list is changed without telling the thread.
NoSignalBug == UNCHANGED thread

\* enif_cond_signal: wakes the thread if it waits, and is lost if it does not.
Signal == thread' = IF thread.at = "waiting" THEN At("checking") ELSE thread

\* enqueue_store_cleanup, under the lock of the context.
Enqueue(s) ==
    /\ store[s] = "enqueuing"
    /\ store' = [store EXCEPT ![s] = "gone"]
    /\ IF tail = NO_STORE
         THEN head' = s /\ next' = [next EXCEPT ![s] = NO_STORE]
         ELSE UNCHANGED head /\ next' = [next EXCEPT ![s] = NO_STORE, ![tail] = s]
    /\ tail' = s
    /\ Signal
    /\ UNCHANGED <<job, stopping, context, frees>>

-----------------------------------------------------------------------------
(* The cleanup thread *)

\* A slip: the list runs empty and its tail still points at the last job.
StaleTailBug ==
    /\ thread.at = "checking" /\ head # NO_STORE
    /\ head' = next[head]
    /\ thread' = [at |-> "freeing", job |-> head]
    /\ UNCHANGED <<store, job, next, tail, stopping, context, frees>>

\* The locked section of store_cleanup_thread, when there is a job.
TakeJob ==
    /\ thread.at = "checking" /\ head # NO_STORE
    /\ head' = next[head]
    /\ tail' = IF next[head] = NO_STORE THEN NO_STORE ELSE tail
    /\ thread' = [at |-> "freeing", job |-> head]
    /\ UNCHANGED <<store, job, next, stopping, context, frees>>

\* No job and no stop: enif_cond_wait gives up the lock and sleeps.
Sleep ==
    /\ thread.at = "checking" /\ head = NO_STORE /\ ~ stopping
    /\ thread' = At("waiting")
    /\ UNCHANGED <<store, job, list, stopping, context, frees>>

\* A condition variable may wake its waiter without a signal.
WakeSpuriously ==
    /\ thread.at = "waiting"
    /\ thread' = At("checking")
    /\ UNCHANGED <<store, job, list, stopping, context, frees>>

\* The thread leaves only when there is nothing left to free.
LeaveThread ==
    /\ thread.at = "checking" /\ head = NO_STORE /\ stopping
    /\ thread' = At("exited")
    /\ UNCHANGED <<store, job, list, stopping, context, frees>>

\* destroy_store_cleanup_job, outside of the lock.
DestroyJob ==
    /\ thread.at = "freeing"
    /\ frees' = [frees EXCEPT ![thread.job] = @ + 1]
    /\ thread' = At("checking")
    /\ UNCHANGED <<store, job, list, stopping, context>>

-----------------------------------------------------------------------------
(* Unloading *)

\* The runtime unloads the library after the last destructor of it has run.
Unload ==
    /\ context = "loaded"
    /\ \A s \in Stores : store[s] \in {"unborn", "gone"}
    /\ context' = "stopping" /\ stopping' = TRUE
    /\ Signal
    /\ UNCHANGED <<store, job, list, frees>>

\* enif_thread_join, then the lock, the condition and the context are freed.
JoinThread ==
    /\ context = "stopping" /\ thread.at = "exited"
    /\ context' = "freed"
    /\ UNCHANGED <<store, job, list, stopping, thread, frees>>

Life(s) == NewStore(s) \/ DropLastReference(s) \/ DestructStore(s) \/ Enqueue(s)
Cleaning == TakeJob \/ Sleep \/ LeaveThread \/ DestroyJob

CleanupNext ==
    \/ \E s \in Stores : Life(s)
    \/ Cleaning \/ WakeSpuriously
    \/ Unload \/ JoinThread

\* Threads run: a destructor that has begun goes on, the cleanup thread takes
\* its steps, unload its join.  Nobody has to drop a store or unload the
\* library, and no condition variable has to wake without a signal.
CleanupFairness ==
    /\ \A s \in Stores : WF_cleanup_vars(DestructStore(s)) /\ WF_cleanup_vars(Enqueue(s))
    /\ WF_cleanup_vars(Cleaning) /\ WF_cleanup_vars(JoinThread)

CleanupSpec == CleanupInit /\ [][CleanupNext]_cleanup_vars /\ CleanupFairness

-----------------------------------------------------------------------------
(* Properties *)

\* Jobs that have been given away and not yet been taken.
Waiting == {s \in Stores : store[s] = "gone" /\ frees[s] = 0 /\ s # thread.job}

\* Where n steps along next lead from the head of the list.
Chain[n \in 0 .. Cardinality(Stores)] ==
    IF n = 0 THEN head
    ELSE IF Chain[n - 1] = NO_STORE THEN NO_STORE ELSE next[Chain[n - 1]]

\* The list holds each waiting job once: following next from head meets all of
\* them, ends at tail, and nothing else is linked.
ListHoldsTheWaiting ==
    LET linked == {Chain[n] : n \in 0 .. Cardinality(Stores)} \ {NO_STORE}
    IN /\ linked = Waiting
       /\ head = NO_STORE <=> tail = NO_STORE
       /\ tail # NO_STORE => tail \in linked /\ next[tail] = NO_STORE

\* The memory of a store is given back once, never while a reference is left,
\* and when the context of the cleanup thread is freed, nothing is left to free
\* and nobody is left to touch it.
StoresAreFreedOnce ==
    /\ ListHoldsTheWaiting
    /\ \A s \in Stores : frees[s] <= 1 /\ (frees[s] = 1 => store[s] = "gone")
    /\ context = "freed" =>
         thread.at = "exited" /\ \A s \in Stores : store[s] # "unborn" => frees[s] = 1

\* No job sleeps in the list: the memory of every released store is given back,
\* although the thread may be anywhere between its test and its wait, and an
\* unload that has begun ends.
CleanupFinishes ==
    /\ \A s \in Stores : store[s] = "released" ~> frees[s] = 1
    /\ context = "stopping" ~> context = "freed"
=============================================================================
