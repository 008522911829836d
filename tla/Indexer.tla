------------------------------- MODULE Indexer -------------------------------
(***************************************************************************)
(* The traversal coordinator (findex/lib/findex/indexer.ex), its pool of   *)
(* worker processes (indexer/worker.ex) and their callers.  Processes      *)
(* share the store and otherwise exchange messages: everything sent to the *)
(* coordinator goes through one mailbox, in the order it is sent.  One     *)
(* action is the handling of one message or one step of a worker.  The     *)
(* native store is the CompletionLog that FindexStore implements, and the  *)
(* scheduler is a set from which any task may come first.                  *)
(***************************************************************************)
EXTENDS Integers, Sequences, FiniteSets, Functions

CONSTANTS Dirs, Root,     \* the directories of the file system, and the scanned one
          Children,       \* [Dirs -> subdirectories]
          Rows,           \* [Dirs -> number of entries]
          Flawed,         \* directories with rows whose metadata cannot be read
          Workers, Callers,
          MaxKills,       \* bound on processes killed from outside
          NULL

\* How a traversal can end, and with what report.
Kinds == {"success", "ranking", "store", "directory", "mismatch", "worker"}
Outcomes == [kind : Kinds,
             report : [complete : BOOLEAN, entries : Nat, failures : Nat,
                       published : SUBSET Dirs, failed : SUBSET Dirs]]

ASSUME TreeAssumption ==
    /\ Root \in Dirs /\ Flawed \subseteq Dirs
    /\ Children \in [Dirs -> SUBSET (Dirs \ {Root})]
    /\ \A d, e \in Dirs : d # e => Children[d] \cap Children[e] = {}
ASSUME RowsAssumption == Rows \in [Dirs -> Nat]
ASSUME PoolAssumption == Workers # {} /\ IsFiniteSet(Workers)   \* concurrency is positive
ASSUME NULLAssumption == NULL \notin Dirs /\ NULL \notin Outcomes   \* nil is neither
ASSUME MaxKillsAssumption == MaxKills \in Nat

VARIABLES
    directories, journal,  \* the store: states of the known directories, completions
    root_open,             \* the traversal root is open
    queued,                \* tasks in the scheduler
    in_flight,             \* [busy worker -> its task]
    idle_workers,
    worker_references,     \* workers whose monitor is in the map
    counters,              \* what the results so far add up to
    waiters,               \* callers of await without an answer
    outcome,               \* NULL until the traversal has ended
    phase,                 \* of the coordinator: "starting", "receiving", "stopping", "gone"
    ending,                \* while stopping: what it stops for
    awaited,               \* while stopping: monitors await_worker_shutdown waits for
    mailbox,               \* of the coordinator
    worker,                \* [Workers -> the process]
    orphans,               \* directories whose scan goes on in the NIF of a dead process
    kills,
    caller                 \* [Callers -> what became of the call]

store == <<directories, journal>>
coordinator == <<queued, in_flight, idle_workers, worker_references, counters, waiters, outcome,
                 phase, ending, awaited, root_open>>
others == <<orphans, kills, caller>>
vars == <<store, coordinator, mailbox, worker, others>>

Store == INSTANCE CompletionLog WITH
    Ids <- Dirs, Readers <- {}, outcome <- directories, log <- journal, delivered <- <<>>

In(state) == {d \in DOMAIN directories : directories[d] = state}
RowsOf(dirs) == SumFunctionOnSet(Rows, dirs)

\* Results of scan_directory; "recoverable" and "fatal" are what
\* PosixError.classify says of an open or read error.
Results == {"ok", "recoverable", "fatal", "store_error"}
NoCounters == [entries |-> 0, metadata_errors |-> 0, failures |-> 0]

Result(w, d, result) == [type |-> "result", worker |-> w, task |-> d, result |-> result]
Down(w) == [type |-> "down", worker |-> w]

Process(stage, task, result, inbox) ==
    [stage |-> stage, task |-> task, result |-> result, inbox |-> inbox]
Waiting(inbox) == Process("receiving", NULL, "none", inbox)
Exited == Process("exited", NULL, "none", <<>>)
Alive(w) == worker[w].stage \notin {"unborn", "exited"}

\* What reaches a coordinator that is gone reaches nobody.
Deliver(messages) == mailbox' = IF phase = "gone" THEN mailbox ELSE mailbox \o messages

\* send to each worker that the function names; a dead process receives nothing.
Send(message) ==
    worker' = [w \in Workers |->
                 IF w \in DOMAIN message /\ Alive(w)
                   THEN [worker[w] EXCEPT !.inbox = Append(@, message[w])] ELSE worker[w]]
-----------------------------------------------------------------------------
\* An operator whose name ends in Bug is a slip that could be made in the
\* operator below it; no specification uses it.

\* merge_counters with the counters of a published directory.
Merged(c, d) ==
    [c EXCEPT !.entries = @ + Rows[d],
              !.metadata_errors = @ + (IF d \in Flawed THEN 1 ELSE 0)]

\* record_directory_failure, as far as the report counts it.
FailureRecorded(c) == [c EXCEPT !.failures = @ + 1]

\* build_report.
Report(success) ==
    [complete |-> /\ success
                  /\ In("pending") = {} /\ In("failed") = {}
                  /\ counters.metadata_errors = 0,
     entries |-> counters.entries, failures |-> counters.failures,
     published |-> In("published"), failed |-> In("failed")]

WaitForTheDeadBug(references, kind) ==
    /\ phase' = "stopping" /\ ending' = kind
    /\ awaited' = Workers
    /\ worker_references' = references
    /\ Send([w \in references |-> <<"stop">>])

\* stop_worker_pool: a stop message to each worker, then the coordinator waits
\* for their monitors, inside the handler that called it.
StopWorkerPool(references, kind) ==
    /\ phase' = "stopping" /\ ending' = kind
    /\ awaited' = references
    /\ worker_references' = references
    /\ Send([w \in references |-> <<"stop">>])

KeepQueuedBug(tasks, idle, busy) ==
    \E chosen \in SUBSET idle :
      \E task \in [chosen -> tasks] :
        /\ \A v, w \in chosen : task[v] = task[w] => v = w
        /\ chosen = idle \/ {task[w] : w \in chosen} = tasks
        /\ queued' = tasks
        /\ idle_workers' = idle \ chosen
        /\ in_flight' = [w \in chosen \cup DOMAIN busy |->
                           IF w \in chosen THEN task[w] ELSE busy[w]]
        /\ IF DOMAIN in_flight' = {} /\ queued' = {}
             THEN StopWorkerPool(worker_references, "success")
             ELSE /\ Send([w \in chosen |-> <<"scan", task[w]>>])
                  /\ UNCHANGED <<phase, ending, awaited, worker_references>>

\* dispatch_and_finish: as many tasks as there are idle workers are popped and
\* assigned; with nothing in flight and nothing queued the traversal is done.
DispatchAndFinish(tasks, idle, busy) ==
    \E chosen \in SUBSET idle :
      \E task \in [chosen -> tasks] :
        /\ \A v, w \in chosen : task[v] = task[w] => v = w
        /\ chosen = idle \/ {task[w] : w \in chosen} = tasks
        /\ queued' = tasks \ {task[w] : w \in chosen}
        /\ idle_workers' = idle \ chosen
        /\ in_flight' = [w \in chosen \cup DOMAIN busy |->
                           IF w \in chosen THEN task[w] ELSE busy[w]]
        /\ IF DOMAIN in_flight' = {} /\ queued' = {}
             THEN StopWorkerPool(worker_references, "success")
             ELSE /\ Send([w \in chosen |-> <<"scan", task[w]>>])
                  /\ UNCHANGED <<phase, ending, awaited, worker_references>>

\* finish_fatal up to the point where the pool has stopped.
FinishFatal(tasks, idle, busy, references, kind) ==
    /\ queued' = tasks /\ idle_workers' = idle /\ in_flight' = busy
    /\ StopWorkerPool(references, kind)

Without(f, w) == [v \in DOMAIN f \ {w} |-> f[v]]
-----------------------------------------------------------------------------
\* start_link and init: the store knows the root, the root task is queued.
Init ==
    /\ Store!Init
    /\ root_open = TRUE
    /\ queued = {Root} /\ in_flight = <<>> /\ idle_workers = {} /\ worker_references = {}
    /\ counters = NoCounters /\ waiters = {} /\ outcome = NULL
    /\ phase = "starting" /\ ending = "none" /\ awaited = {}
    /\ mailbox = <<>>
    /\ worker = [w \in Workers |-> Process("unborn", NULL, "none", <<>>)]
    /\ orphans = {} /\ kills = 0
    /\ caller = [c \in Callers |-> "idle"]

\* handle_continue(:start_workers): the pool is spawned and the root assigned.
StartWorkers ==
    /\ phase = "starting"
    /\ phase' = "receiving"
    /\ \E first \in Workers :
         /\ in_flight' = [w \in {first} |-> Root]
         /\ idle_workers' = Workers \ {first}
         /\ worker' = [w \in Workers |->
                         Waiting(IF w = first THEN <<<<"scan", Root>>>> ELSE <<>>)]
    /\ queued' = {} /\ worker_references' = Workers
    /\ UNCHANGED <<store, root_open, counters, waiters, outcome, ending, awaited, mailbox, others>>

\* The worker result clauses of handle_worker_result, for the task in flight.
HandleWorkerResult(d, result, idle, busy) ==
    \/ /\ result = "ok"
       /\ counters' = Merged(counters, d)
       /\ \/ DispatchAndFinish(queued \cup Children[d], idle, busy)
          \/ /\ Children[d] # {}               \* the ranker raised on a child
             /\ FinishFatal(queued, idle, busy, worker_references, "ranking")
       /\ UNCHANGED store
    \/ /\ result = "recoverable"
       /\ \/ /\ Store!Complete(d, {}, "failed")
             /\ counters' = FailureRecorded(counters)
             /\ DispatchAndFinish(queued, idle, busy)
          \/ /\ FinishFatal(queued, idle, busy, worker_references, "store")
             /\ UNCHANGED <<store, counters>>
    \/ /\ result \in {"fatal", "store_error"}
       /\ FinishFatal(queued, idle, busy, worker_references,
                      IF result = "fatal" THEN "directory" ELSE "store")
       /\ UNCHANGED <<store, counters>>

Receives(type) == phase = "receiving" /\ mailbox # <<>> /\ Head(mailbox).type = type

\* handle_info of a result: the worker is idle again, then the result counts.
HandleResult ==
    /\ Receives("result")
    /\ LET m == Head(mailbox)
           idle == idle_workers \cup {m.worker}
           busy == Without(in_flight, m.worker)
       IN /\ m.worker \in DOMAIN in_flight
          /\ IF in_flight[m.worker] = m.task
               THEN HandleWorkerResult(m.task, m.result, idle, busy)
               ELSE /\ FinishFatal(queued, idle, busy, worker_references, "mismatch")
                    /\ UNCHANGED <<store, counters>>
    /\ mailbox' = Tail(mailbox)
    /\ UNCHANGED <<waiters, outcome, root_open, others>>

\* handle_info of a monitor: a worker that dies ends the traversal.
HandleDown ==
    /\ Receives("down")
    /\ LET dead == Head(mailbox).worker
       IN /\ dead \in worker_references
          /\ FinishFatal(queued, idle_workers \ {dead}, Without(in_flight, dead),
                         worker_references \ {dead}, "worker")
    /\ mailbox' = Tail(mailbox)
    /\ UNCHANGED <<store, counters, waiters, outcome, root_open, others>>

Answer(cs, answer) == [c \in Callers |-> IF c \in cs THEN answer ELSE caller[c]]

HandleAwait ==
    /\ Receives("await")
    /\ LET from == Head(mailbox).caller
       IN IF outcome = NULL
            THEN waiters' = waiters \cup {from} /\ UNCHANGED caller
            ELSE caller' = Answer({from}, "answered") /\ UNCHANGED waiters
    /\ mailbox' = Tail(mailbox)
    /\ UNCHANGED <<store, queued, in_flight, idle_workers, worker_references, counters, outcome,
                   phase, ending, awaited, root_open, worker, orphans, kills>>

\* handle_call of put_rank_data: the order of the queue changes, then tasks are
\* dispatched; refused once the traversal has ended.
HandlePutRankData ==
    /\ Receives("put_rank_data")
    /\ IF outcome = NULL
         THEN DispatchAndFinish(queued, idle_workers, in_flight)
         ELSE UNCHANGED <<queued, in_flight, idle_workers, worker_references, phase, ending,
                          awaited, worker>>
    /\ caller' = Answer({Head(mailbox).caller}, "replied")
    /\ mailbox' = Tail(mailbox)
    /\ UNCHANGED <<store, counters, waiters, outcome, root_open, orphans, kills>>

\* GenServer.stop: terminate stops the pool too.
HandleTerminate ==
    /\ Receives("terminate")
    /\ StopWorkerPool(worker_references, "terminate")
    /\ mailbox' = Tail(mailbox)
    /\ UNCHANGED <<store, queued, in_flight, idle_workers, counters, waiters, outcome,
                   root_open, others>>

SettleBug(m) == UNCHANGED <<store, counters, in_flight>>

\* settle_stopping_result: a result that comes in during the shutdown still
\* counts if it answers the worker's task, but schedules nothing.
Settle(m) ==
    IF m.worker \in DOMAIN in_flight /\ in_flight[m.worker] = m.task
      THEN /\ in_flight' = Without(in_flight, m.worker)
           /\ \/ /\ m.result = "ok"
                 /\ counters' = Merged(counters, m.task)
                 /\ UNCHANGED store
              \/ /\ m.result = "recoverable"
                 /\ Store!Complete(m.task, {}, "failed")
                 /\ counters' = FailureRecorded(counters)
              \/ /\ m.result # "ok"      \* fatal, or fail_directory fails: dropped
                 /\ UNCHANGED <<store, counters>>
      ELSE UNCHANGED <<store, counters, in_flight>>

\* One turn of await_worker_shutdown: the first message in the mailbox that is a
\* result, or a monitor it waits for, is received; the others stay.
AwaitWorkerShutdown ==
    /\ phase = "stopping"
    /\ LET matches(i) == \/ mailbox[i].type = "result"
                         \/ mailbox[i].type = "down" /\ mailbox[i].worker \in awaited
       IN \E i \in DOMAIN mailbox :
            /\ matches(i) /\ \A j \in 1 .. i - 1 : ~ matches(j)
            /\ IF mailbox[i].type = "result"
                 THEN Settle(mailbox[i]) /\ UNCHANGED awaited
                 ELSE /\ awaited' = awaited \ {mailbox[i].worker}
                      /\ UNCHANGED <<store, counters, in_flight>>
            /\ mailbox' = SubSeq(mailbox, 1, i - 1) \o SubSeq(mailbox, i + 1, Len(mailbox))
    /\ UNCHANGED <<queued, idle_workers, worker_references, waiters, outcome, phase, ending,
                   root_open, worker, others>>

FinalizeBug ==
    /\ phase = "stopping" /\ awaited = {} /\ ending # "terminate"
    /\ outcome' = [kind |-> ending, report |-> Report(ending = "success")]
    /\ root_open' = FALSE
    /\ waiters' = {}
    /\ worker_references' = {} /\ idle_workers' = {} /\ in_flight' = <<>>
    /\ phase' = "receiving" /\ ending' = "none"
    /\ UNCHANGED <<store, queued, counters, awaited, mailbox, worker, others>>

\* All workers are down.  finish_success and finish_fatal build the report, then
\* finalize closes the traversal and answers everyone who waits.
Finalize ==
    /\ phase = "stopping" /\ awaited = {} /\ ending # "terminate"
    /\ outcome' = [kind |-> ending, report |-> Report(ending = "success")]
    /\ root_open' = FALSE
    /\ caller' = Answer(waiters, "answered")
    /\ waiters' = {}
    /\ worker_references' = {} /\ idle_workers' = {} /\ in_flight' = <<>>
    /\ phase' = "receiving" /\ ending' = "none"
    /\ UNCHANGED <<store, queued, counters, awaited, mailbox, worker, orphans, kills>>

\* The process is gone: whoever has called it and has no answer exits, workers
\* are told by their monitor.
Gone ==
    /\ phase' = "gone" /\ mailbox' = <<>> /\ waiters' = {}
    /\ caller' = Answer({c \in Callers : caller[c] = "calling"}, "exit")
    /\ Send([w \in Workers |-> <<"owner_down">>])

\* terminate returns.
Terminated ==
    /\ phase = "stopping" /\ awaited = {} /\ ending = "terminate"
    /\ Gone /\ root_open' = FALSE
    /\ UNCHANGED <<store, queued, in_flight, idle_workers, worker_references, counters, outcome,
                   ending, awaited, orphans, kills>>

\* The coordinator is killed, as by the exit of the process it is linked to:
\* terminate is not called.
KillCoordinator ==
    /\ phase # "gone" /\ kills < MaxKills
    /\ Gone /\ kills' = kills + 1
    /\ UNCHANGED <<store, queued, in_flight, idle_workers, worker_references, counters, outcome,
                   ending, awaited, root_open, orphans>>
-----------------------------------------------------------------------------
\* The loop of a worker takes one message.
WorkerReceives(w) ==
    /\ worker[w].stage = "receiving" /\ worker[w].inbox # <<>>
    /\ LET m == Head(worker[w].inbox)
           rest == Tail(worker[w].inbox)
       IN \/ /\ m[1] = "scan"
             /\ worker' = [worker EXCEPT ![w] = Process("scanning", m[2], "none", rest)]
             /\ UNCHANGED mailbox
          \/ /\ m[1] \in {"stop", "owner_down"}
             /\ worker' = [worker EXCEPT ![w] = Exited]
             /\ Deliver(<<Down(w)>>)
    /\ UNCHANGED <<store, coordinator, others>>

\* Store.scan_and_publish in a dirty NIF: it publishes, or leaves the store alone
\* and returns an error.
WorkerScans(w, result) ==
    /\ worker[w].stage = "scanning"
    /\ IF result = "ok" THEN Store!Complete(worker[w].task, Children[worker[w].task], "published")
                        ELSE UNCHANGED store
    /\ worker' = [worker EXCEPT ![w].stage = "scanned", ![w].result = result]
    /\ UNCHANGED <<coordinator, mailbox, others>>

\* The result is sent and the worker receives again.
WorkerSends(w) ==
    /\ worker[w].stage = "scanned"
    /\ Deliver(<<Result(w, worker[w].task, worker[w].result)>>)
    /\ worker' = [worker EXCEPT ![w] = Waiting(worker[w].inbox)]
    /\ UNCHANGED <<store, coordinator, others>>

\* A worker is killed, or raises.  Its monitor fires at once; a scan it was in
\* goes on in the NIF.
KillWorker(w) ==
    /\ Alive(w) /\ kills < MaxKills
    /\ worker' = [worker EXCEPT ![w] = Exited]
    /\ orphans' = IF worker[w].stage = "scanning" THEN orphans \cup {worker[w].task} ELSE orphans
    /\ Deliver(<<Down(w)>>)
    /\ kills' = kills + 1
    /\ UNCHANGED <<store, coordinator, caller>>

\* The NIF of a dead process publishes, or fails, and nobody hears of it.
OrphanScans(d) ==
    /\ d \in orphans
    /\ orphans' = orphans \ {d}
    /\ Store!Complete(d, Children[d], "published") \/ UNCHANGED store
    /\ UNCHANGED <<coordinator, mailbox, worker, kills, caller>>

\* GenServer.call of await or put_rank_data.
Call(c, request) ==
    /\ caller[c] = "idle" /\ phase # "gone"
    /\ caller' = [caller EXCEPT ![c] = "calling"]
    /\ mailbox' = Append(mailbox, [type |-> request, caller |-> c])
    /\ UNCHANGED <<store, coordinator, worker, orphans, kills>>

\* GenServer.stop by the owner; c is whoever asked.
Stop(c) ==
    /\ caller[c] = "idle" /\ phase # "gone"
    /\ caller' = [caller EXCEPT ![c] = "calling"]
    /\ mailbox' = Append(mailbox, [type |-> "terminate", caller |-> c])
    /\ UNCHANGED <<store, coordinator, worker, orphans, kills>>

Coordinate ==
    \/ StartWorkers \/ HandleResult \/ HandleDown \/ HandleAwait
    \/ HandlePutRankData \/ HandleTerminate
    \/ AwaitWorkerShutdown \/ Finalize \/ Terminated

Work(w) == WorkerReceives(w) \/ (\E result \in Results : WorkerScans(w, result)) \/ WorkerSends(w)

Next ==
    \/ Coordinate
    \/ KillCoordinator
    \/ \E w \in Workers : Work(w) \/ KillWorker(w)
    \/ \E d \in Dirs : OrphanScans(d)
    \/ \E c \in Callers : Call(c, "await") \/ Call(c, "put_rank_data") \/ Stop(c)

Spec == Init /\ [][Next]_vars

\* Runnable processes are scheduled, and system calls return.
FairSpec == Spec /\ WF_vars(Coordinate) /\ \A w \in Workers : WF_vars(Work(w))
-----------------------------------------------------------------------------
Ranging(f) == {f[x] : x \in DOMAIN f}
Ended == outcome # NULL

\* While the traversal runs no directory is forgotten or handed out twice: what
\* is pending in the store is queued, or with one worker, or a child in a
\* result that has not been handled yet.
TasksAreSomewhere ==
    phase \in {"starting", "receiving"} /\ ~Ended =>
      LET assigned == Ranging(in_flight)
          announced == UNION {Children[d] : d \in {e \in assigned : directories[e] = "published"}}
      IN /\ In("pending") = queued \cup announced \cup {d \in assigned : directories[d] = "pending"}
         /\ queued \cap assigned = {}
         /\ \A v, w \in DOMAIN in_flight : in_flight[v] = in_flight[w] => v = w

\* No worker idles while a task is queued, and a running traversal always has a
\* result to wait for: the coordinator never sleeps with work left.
WorkConserving ==
    phase = "receiving" /\ ~Ended =>
      /\ in_flight # <<>>
      /\ queued = {} \/ idle_workers = {}

\* No message of a worker ever misses its mark: a result is about the task in
\* flight, and a monitor is one the coordinator knows, also after kills and in
\* the middle of a shutdown.  The result_task_mismatch branch is dead code.
MessagesAreExpected ==
    /\ ending # "mismatch"
    /\ \A i \in DOMAIN mailbox :
          /\ mailbox[i].type = "result" =>
               /\ mailbox[i].worker \in DOMAIN in_flight
               /\ in_flight[mailbox[i].worker] = mailbox[i].task
          /\ mailbox[i].type = "down" => mailbox[i].worker \in worker_references

\* Each directory is scanned, by one worker at a time and with none idle: the
\* queue, the tasks in flight and the messages about them fit together.
NoTaskIsLost == TasksAreSomewhere /\ WorkConserving /\ MessagesAreExpected

\* A successful traversal has left no directory pending, and one reported as
\* complete has published every directory of the tree.
SuccessIsComplete ==
    Ended /\ outcome.kind = "success" =>
      /\ In("pending") = {}
      /\ outcome.report.complete =>
           In("published") = {Root} \cup UNION {Children[d] : d \in In("published")}
      /\ outcome.report.complete => In("published") \cap Flawed = {}

\* The counters of the report, summed from worker messages, say what the store
\* holds, because results that arrive during the shutdown are settled.  Only the
\* scan of a killed worker goes uncounted.
ReportCountsTheStore ==
    Ended =>
      /\ outcome.report.entries <= RowsOf(outcome.report.published)
      /\ outcome.report.failures = Cardinality(outcome.report.failed)
      /\ kills = 0 => outcome.report.entries = RowsOf(outcome.report.published)

\* After the outcome the store no longer changes, so the report stays true of
\* it; the only late writer is the NIF of a killed worker.
StoreStaysAsReported ==
    Ended =>
      /\ outcome.report.published \subseteq In("published")
      /\ outcome.report.failed = In("failed")
      /\ kills = 0 => outcome.report.published = In("published")

\* The whole pool is down before the outcome is announced, and the root stays
\* open as long as a live worker may walk down from it.
PoolStopsBeforeOutcome ==
    /\ Ended => \A w \in Workers : ~Alive(w)
    /\ (\E w \in Workers : worker[w].stage = "scanning") => root_open

\* The report is true of the store when it is made, by a coordinator without
\* workers, and stays so.
ReportStaysTrue == SuccessIsComplete /\ ReportCountsTheStore /\ StoreStaysAsReported /\ PoolStopsBeforeOutcome

\* Every call returns, at the latest when the coordinator goes.
EveryCallReturns ==
    \A c \in Callers : caller[c] = "calling" ~> caller[c] # "calling"

\* The traversal ends, whatever fails, and no worker outlives its coordinator
\* for ever, however that went.
TraversalEnds ==
    /\ <>(Ended \/ phase = "gone")
    /\ phase = "gone" ~> \A w \in Workers : ~Alive(w)
=============================================================================
