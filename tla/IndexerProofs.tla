---------------------------- MODULE IndexerProofs ----------------------------
(***************************************************************************)
(* Proofs about the traversal coordinator of Indexer and its workers: no   *)
(* task is lost or scanned twice, no message misses its mark, and the      *)
(* report is true of the store, for every tree, pool and kill.             *)
(***************************************************************************)
EXTENDS Indexer, FoldLemmas

Phases == {"starting", "receiving", "stopping", "gone"}
Stages == {"unborn", "receiving", "scanning", "scanned", "exited"}
Requests == {"await", "put_rank_data", "terminate"}
Replies == {"idle", "calling", "answered", "replied", "exit"}

Scans == {<<"scan", d>> : d \in Dirs}
Orders == Scans \cup {<<"stop">>, <<"owner_down">>}
Messages ==
    [type : {"result"}, worker : Workers, task : Dirs, result : Results]
      \cup [type : {"down"}, worker : Workers]
      \cup [type : Requests, caller : Callers]
Processes ==
    [stage : Stages, task : Dirs \cup {NULL}, result : Results \cup {"none"}, inbox : Seq(Orders)]
Counters == [entries : Nat, metadata_errors : Nat, failures : Nat]
States == {"pending", "published", "failed"}

TypeOK ==
    /\ directories \in [DOMAIN directories -> States] /\ DOMAIN directories \subseteq Dirs
    /\ root_open \in BOOLEAN
    /\ queued \subseteq Dirs
    /\ in_flight \in [DOMAIN in_flight -> Dirs] /\ DOMAIN in_flight \subseteq Workers
    /\ idle_workers \subseteq Workers /\ worker_references \subseteq Workers
    /\ awaited \subseteq Workers
    /\ counters \in Counters /\ waiters \subseteq Callers /\ caller \in [Callers -> Replies]
    /\ outcome \in Outcomes \cup {NULL}
    /\ phase \in Phases /\ ending \in Kinds \cup {"none", "terminate"}
    /\ mailbox \in Seq(Messages) /\ worker \in [Workers -> Processes]
    /\ orphans \subseteq Dirs /\ kills \in Nat

\* The coordinator runs the traversal, or it still has one to account for.
Running == phase \in {"starting", "receiving"} /\ ~ Ended
Counting == phase # "gone" /\ ~ Ended

\* The workers whose monitor has not fired yet, as far as the coordinator knows.
Expecting == IF phase = "stopping" THEN awaited ELSE worker_references

Assigned == Ranging(in_flight)

\* The children in the results of the tasks f that are about published directories.
Announced(dirs, f) == UNION {Children[d] : d \in {e \in Ranging(f) : dirs[e] = "published"}}

\* The pending directories are divided between the queue, the tasks f that
\* workers have, and the results of those that are published.
Divided(dirs, tasks, f) ==
    /\ {d \in DOMAIN dirs : dirs[d] = "pending"}
         = tasks \cup Announced(dirs, f) \cup {d \in Ranging(f) : dirs[d] = "pending"}
    /\ tasks \cap Ranging(f) = {}
    /\ Announced(dirs, f) \cap (tasks \cup Ranging(f)) = {}

\* A task is with one worker, and it is not about a failed directory.
Apart(dirs, f) ==
    /\ \A v, w \in DOMAIN f : f[v] = f[w] => v = w
    /\ \A w \in DOMAIN f : f[w] \in DOMAIN dirs /\ dirs[f[w]] # "failed"

\* What the coordinator knows about its workers.
PoolFits ==
    /\ phase = "starting" =>
         /\ ~ Ended /\ worker_references = {} /\ in_flight = <<>> /\ root_open
         /\ counters = NoCounters /\ orphans = {} /\ queued = {Root}
         /\ directories = [d \in {Root} |-> "pending"]
         /\ \A w \in Workers : worker[w].stage = "unborn"
    /\ phase = "receiving" /\ ~ Ended =>
         /\ worker_references = Workers /\ idle_workers = Workers \ DOMAIN in_flight
         /\ ending = "none"
    /\ phase = "stopping" => awaited \subseteq worker_references /\ ending # "none"
    /\ phase \in {"starting", "receiving"} => ending = "none"
    /\ ending # "mismatch"
    /\ phase = "stopping" /\ ending = "success" => in_flight = <<>> /\ queued = {}
    /\ ~ root_open => \A w \in Workers : ~ Alive(w)
    /\ kills = 0 => orphans = {}
    /\ phase = "gone" => mailbox = <<>>
    /\ \A w \in Workers : worker[w].stage = "scanning" => worker[w].task \in Dirs

\* A message about the worker that sent it.
Fits(m) ==
    /\ m.type = "down" => worker[m.worker].stage = "exited"
    /\ m.type = "result" =>
         /\ m.worker \in DOMAIN in_flight /\ in_flight[m.worker] = m.task
         /\ worker[m.worker].stage \in {"receiving", "exited"}
         /\ \A k \in 1 .. Len(worker[m.worker].inbox) : worker[m.worker].inbox[k][1] # "scan"
         /\ m.result = "ok" => directories[m.task] = "published"
         /\ kills = 0 /\ m.result # "ok" => directories[m.task] = "pending"

\* Two messages of one worker, the first before the second, unless they are one.
InOrder(m, n) ==
    /\ m.type \in {"result", "down"} /\ n.type \in {"result", "down"} /\ m.worker = n.worker =>
         m.type = "result" /\ n.type = "down"

FromWorker(m, w) == m.type \in {"result", "down"} /\ m.worker = w

\* At most one result and one monitor of each worker, in this order.
MailFits ==
    phase # "gone" =>
      /\ \A w \in Workers \ Expecting :
            ~ Alive(w) /\ \A i \in 1 .. Len(mailbox) : ~ FromWorker(mailbox[i], w)
      /\ \A i \in 1 .. Len(mailbox) : Fits(mailbox[i])
      /\ \A i, j \in 1 .. Len(mailbox) : i < j => InOrder(mailbox[i], mailbox[j])

\* What a worker is about is its task in flight.
WorkerFits(w) ==
    /\ worker[w].stage \in {"scanning", "scanned"} =>
         w \in DOMAIN in_flight /\ in_flight[w] = worker[w].task
    /\ worker[w].stage \in {"unborn", "exited"} => worker[w].inbox = <<>>
    /\ worker[w].stage = "unborn" => phase = "starting"
    /\ worker[w].stage = "scanned" => worker[w].result \in Results
    /\ worker[w].stage = "scanned" /\ worker[w].result = "ok" =>
         directories[worker[w].task] = "published"
    /\ worker[w].stage = "scanned" /\ worker[w].result # "ok" /\ kills = 0 =>
         directories[worker[w].task] = "pending"
    /\ worker[w].stage = "scanning" /\ kills = 0 => directories[worker[w].task] = "pending"
    /\ \A k \in 1 .. Len(worker[w].inbox) :
         /\ worker[w].inbox[k][1] = "scan" =>
              /\ k = 1 /\ worker[w].stage = "receiving"
              /\ w \in DOMAIN in_flight /\ worker[w].inbox[1] = <<"scan", in_flight[w]>>
              /\ kills = 0 => directories[in_flight[w]] = "pending"
         /\ worker[w].inbox[k][1] \in {"scan", "stop"}
         /\ worker[w].inbox[k][1] = "stop" => phase = "stopping"
    /\ kills = 0 /\ phase = "receiving" /\ ~ Ended => Alive(w)
WorkersFit == phase # "gone" => \A w \in Workers : WorkerFits(w)

\* Without a kill, every task in flight is on its way.
HeldFits ==
    kills = 0 /\ phase # "gone" =>
      \A w \in DOMAIN in_flight :
        \/ worker[w].stage \in {"scanning", "scanned"}
        \/ \E k \in 1 .. Len(worker[w].inbox) : worker[w].inbox[k][1] = "scan"
        \/ \E i \in 1 .. Len(mailbox) : mailbox[i].type = "result" /\ mailbox[i].worker = w

TasksFit ==
    /\ Counting => Apart(directories, in_flight)
    /\ Running => Divided(directories, queued, in_flight) /\ orphans \subseteq Assigned
    /\ phase = "stopping" /\ ending = "success" => orphans = {} /\ In("pending") = {}

\* A scan that goes on after its worker's death is one nobody hears of.
OrphansFit ==
    phase # "gone" =>
      \A w \in DOMAIN in_flight :
        in_flight[w] \in orphans =>
          /\ worker[w].stage = "exited"
          /\ \A i \in 1 .. Len(mailbox) : ~ (mailbox[i].type = "result" /\ mailbox[i].worker = w)

\* The store is the part of the tree that was published.
TreeFits ==
    /\ DOMAIN directories = {Root} \cup UNION {Children[d] : d \in In("published")}
    /\ IsFiniteSet(In("published")) /\ IsFiniteSet(In("failed"))
    /\ counters.failures = Cardinality(In("failed"))

\* Nothing that was published is out of sight: not in the scan of a dead worker.
Accountable == Running \/ ending = "success" \/ kills = 0

\* The published directories that the counters count.
Counts(C) ==
    /\ C \subseteq In("published") /\ counters.entries = RowsOf(C)
    /\ C \cap Assigned = {}
    /\ counters.metadata_errors = 0 => C \cap Flawed = {}
    /\ Accountable => In("published") \subseteq C \cup Assigned
CountersFit == Counting => \E C \in SUBSET Dirs : Counts(C)

\* Nothing is left to do when the traversal has ended.
EndFits ==
    Ended =>
      /\ phase \in {"receiving", "stopping", "gone"}
      /\ phase = "stopping" => ending = "terminate"
      /\ worker_references = {} /\ in_flight = <<>> /\ awaited = {}
      /\ \A w \in Workers : ~ Alive(w)

Inv ==
    /\ TypeOK /\ PoolFits /\ MailFits /\ WorkersFit /\ HeldFits /\ TasksFit
    /\ OrphansFit /\ TreeFits /\ CountersFit /\ EndFits /\ WorkConserving
    /\ SuccessIsComplete /\ ReportCountsTheStore /\ StoreStaysAsReported
-----------------------------------------------------------------------------
\* What messages there are and what they carry.
LEMMA MessageFields ==
    ASSUME NEW m \in Messages
    PROVE  /\ m.type \in {"result", "down"} \cup Requests
           /\ m.type = "result" => m.worker \in Workers /\ m.task \in Dirs /\ m.result \in Results
           /\ m.type = "down" => m.worker \in Workers
           /\ m.type \in Requests => m.caller \in Callers
BY DEF Messages, Requests

LEMMA MessageForms ==
    /\ \A w \in Workers : Down(w) \in Messages /\ Down(w).type = "down" /\ Down(w).worker = w
    /\ \A w \in Workers, d \in Dirs, r \in Results :
         /\ Result(w, d, r) \in Messages /\ Result(w, d, r).type = "result"
         /\ Result(w, d, r).worker = w /\ Result(w, d, r).task = d /\ Result(w, d, r).result = r
    /\ \A q \in Requests, c \in Callers : [type |-> q, caller |-> c] \in Messages
BY DEF Messages, Down, Result

LEMMA ProcessFields ==
    ASSUME NEW p \in Processes
    PROVE  /\ p.stage \in Stages /\ p.task \in Dirs \cup {NULL}
           /\ p.result \in Results \cup {"none"} /\ p.inbox \in Seq(Orders)
BY DEF Processes

LEMMA ProcessForms ==
    ASSUME NEW stage \in Stages, NEW task \in Dirs \cup {NULL},
           NEW result \in Results \cup {"none"}, NEW inbox \in Seq(Orders)
    PROVE  /\ Process(stage, task, result, inbox) \in Processes
           /\ Process(stage, task, result, inbox).stage = stage
           /\ Process(stage, task, result, inbox).task = task
           /\ Process(stage, task, result, inbox).result = result
           /\ Process(stage, task, result, inbox).inbox = inbox
BY DEF Process, Processes

LEMMA OrderFields ==
    /\ \A d \in Dirs : <<"scan", d>> \in Orders /\ <<"scan", d>>[1] = "scan"
    /\ <<"stop">> \in Orders /\ <<"stop">>[1] = "stop"
    /\ <<"owner_down">> \in Orders /\ <<"owner_down">>[1] = "owner_down"
    /\ \A m \in Orders : m[1] \in {"scan", "stop", "owner_down"}
    /\ \A m \in Orders : m[1] = "scan" => m[2] \in Dirs /\ m = <<"scan", m[2]>>
BY DEF Orders, Scans

\* Where the message at place j of the mailbox was before the one at place i left.
Before(i, j) == IF j < i THEN j ELSE j + 1

\* The message at place i leaves the mailbox, the others stay in their order.
TakesOut(i) ==
    /\ i \in 1 .. Len(mailbox) /\ mailbox' \in Seq(Messages)
    /\ Len(mailbox') \in Nat /\ Len(mailbox) = Len(mailbox') + 1
    /\ \A j \in 1 .. Len(mailbox') :
         /\ Before(i, j) \in 1 .. Len(mailbox) /\ Before(i, j) # i
         /\ mailbox'[j] = mailbox[Before(i, j)]
    /\ \A k \in 1 .. Len(mailbox) : k # i => \E j \in 1 .. Len(mailbox') : mailbox'[j] = mailbox[k]

LEMMA TailTakesOut ==
    ASSUME TypeOK, mailbox # <<>>, mailbox' = Tail(mailbox)
    PROVE  TakesOut(1) /\ Head(mailbox) = mailbox[1] /\ mailbox[1] \in Messages
<1>1. /\ mailbox \in Seq(Messages) /\ mailbox' \in Seq(Messages)
      /\ Len(mailbox) \in Nat \ {0} /\ Len(mailbox') = Len(mailbox) - 1
      /\ \A j \in 1 .. Len(mailbox') : mailbox'[j] = mailbox[j + 1]
      /\ Head(mailbox) = mailbox[1]
  BY HeadTailProperties, EmptySeq DEF TypeOK
<1>2. ASSUME NEW j \in 1 .. Len(mailbox')
      PROVE  /\ Before(1, j) = j + 1 /\ Before(1, j) \in 1 .. Len(mailbox) /\ Before(1, j) # 1
             /\ mailbox'[j] = mailbox[Before(1, j)]
  BY <1>1 DEF Before
<1>3. ASSUME NEW k \in 1 .. Len(mailbox), k # 1
      PROVE  \E j \in 1 .. Len(mailbox') : mailbox'[j] = mailbox[k]
  <2>1. k - 1 \in 1 .. Len(mailbox') /\ (k - 1) + 1 = k
    BY <1>1, <1>3
  <2> QED BY <1>1, <2>1
<1>4. 1 \in 1 .. Len(mailbox) /\ mailbox[1] \in Messages
  BY <1>1, ElementOfSeq
<1> QED BY <1>1, <1>2, <1>3, <1>4 DEF TakesOut

LEMMA RemovalTakesOut ==
    ASSUME TypeOK, NEW i \in 1 .. Len(mailbox),
           mailbox' = SubSeq(mailbox, 1, i - 1) \o SubSeq(mailbox, i + 1, Len(mailbox))
    PROVE  TakesOut(i)
<1> DEFINE n == Len(mailbox)
           front == SubSeq(mailbox, 1, i - 1)
           back == SubSeq(mailbox, i + 1, n)
<1>1. n \in Nat /\ mailbox \in Seq(Messages) /\ \A j \in 1 .. n : mailbox[j] \in Messages
  BY LenProperties, ElementOfSeq DEF TypeOK
<1>2. /\ front \in Seq(Messages) /\ Len(front) = i - 1
      /\ \A j \in 1 .. i - 1 : front[j] = mailbox[j]
  <2>1. \A j \in 1 .. i - 1 : mailbox[j] \in Messages
    BY <1>1
  <2>2. i - 1 \in Int /\ 1 \in Int
    BY <1>1
  <2> QED BY <1>1, <2>1, <2>2, SubSeqProperties
<1>3. /\ back \in Seq(Messages) /\ Len(back) = n - i
      /\ \A j \in 1 .. n - i : back[j] = mailbox[i + j]
  <2>1. \A j \in i + 1 .. n : mailbox[j] \in Messages
    BY <1>1
  <2>2. i + 1 \in Int /\ n \in Int
    BY <1>1
  <2> QED BY <1>1, <2>1, <2>2, SubSeqProperties
<1> HIDE DEF n, front, back
<1>4. mailbox' = front \o back /\ i \in Nat /\ 1 <= i /\ i <= n
  BY <1>1 DEF n, front, back
<1>5. /\ mailbox' \in Seq(Messages) /\ Len(mailbox') = n - 1
      /\ \A j \in 1 .. n - 1 :
           mailbox'[j] = IF j <= i - 1 THEN front[j] ELSE back[j - (i - 1)]
  <2>1. /\ front \o back \in Seq(Messages) /\ Len(front \o back) = (i - 1) + (n - i)
        /\ \A j \in 1 .. (i - 1) + (n - i) :
             (front \o back)[j] = IF j <= i - 1 THEN front[j] ELSE back[j - (i - 1)]
    BY SMTT(30), ZenonT(30), <1>2, <1>3, ConcatProperties
  <2>2. (i - 1) + (n - i) = n - 1
    BY <1>1, <1>4
  <2> QED BY <1>4, <2>1, <2>2
<1>6. ASSUME NEW j \in 1 .. n - 1
      PROVE  /\ Before(i, j) \in 1 .. n /\ Before(i, j) # i
             /\ mailbox'[j] = mailbox[Before(i, j)]
  <2>1. CASE j < i
    <3>1. j <= i - 1 /\ j \in 1 .. i - 1 /\ Before(i, j) = j /\ j \in 1 .. n /\ j # i
      BY <1>1, <1>4, <2>1 DEF Before
    <3>2. mailbox'[j] = front[j]
      BY <1>5, <3>1
    <3>3. front[j] = mailbox[j]
      BY <1>2, <3>1
    <3> QED BY <3>1, <3>2, <3>3
  <2>2. CASE ~ (j < i)
    <3>1. /\ ~ (j <= i - 1) /\ j - (i - 1) \in 1 .. n - i /\ i + (j - (i - 1)) = j + 1
          /\ Before(i, j) = j + 1 /\ j + 1 \in 1 .. n /\ j + 1 # i
      BY <1>1, <1>4, <2>2 DEF Before
    <3> QED BY <1>3, <1>5, <3>1
  <2> QED BY <2>1, <2>2
<1>7. ASSUME NEW k \in 1 .. n, k # i
      PROVE  \E j \in 1 .. n - 1 : mailbox'[j] = mailbox[k]
  <2>1. CASE k < i
    <3>1. k \in 1 .. n - 1 /\ Before(i, k) = k
      BY <1>1, <1>4, <2>1 DEF Before
    <3> QED BY <1>6, <3>1
  <2>2. CASE k > i
    <3>1. k - 1 \in 1 .. n - 1 /\ Before(i, k - 1) = k
      BY <1>1, <1>4, <2>2 DEF Before
    <3> QED BY <1>6, <3>1
  <2>3. k < i \/ k > i
    BY <1>1, <1>4, <1>7
  <2> QED BY <2>1, <2>2, <2>3
<1>8. i \in 1 .. n /\ n - 1 \in Nat /\ n = (n - 1) + 1
  BY <1>1, <1>4
<1> QED BY <1>5, <1>6, <1>7, <1>8 DEF TakesOut, n

\* A message comes to the mailbox, after the others.
Adds1(m) ==
    /\ mailbox' \in Seq(Messages)
    /\ Len(mailbox) \in Nat /\ Len(mailbox') = Len(mailbox) + 1
    /\ \A j \in 1 .. Len(mailbox) : mailbox'[j] = mailbox[j]
    /\ mailbox'[Len(mailbox) + 1] = m

LEMMA DeliverAdds ==
    ASSUME TypeOK, phase # "gone", NEW m \in Messages, Deliver(<<m>>)
    PROVE  Adds1(m)
<1>1. mailbox' = mailbox \o <<m>>
  BY DEF Deliver
<1>2. mailbox \in Seq(Messages) /\ Len(mailbox) \in Nat
  BY LenProperties DEF TypeOK
<1>3. mailbox' = Append(mailbox, m)
  BY <1>1, <1>2, AppendIsConcat
<1> QED BY <1>2, <1>3, AppendProperties DEF Adds1

\* A message to some workers reaches those that live.
LEMMA SendDoes ==
    ASSUME TypeOK, NEW message, \A w \in DOMAIN message : message[w] \in Orders, Send(message)
    PROVE  /\ worker' \in [Workers -> Processes]
           /\ \A w \in Workers :
                /\ worker'[w].stage = worker[w].stage /\ worker'[w].task = worker[w].task
                /\ worker'[w].result = worker[w].result
                /\ w \notin DOMAIN message \/ ~ Alive(w) => worker'[w] = worker[w]
                /\ w \in DOMAIN message /\ Alive(w) =>
                     worker'[w].inbox = Append(worker[w].inbox, message[w])
<1> SUFFICES ASSUME NEW w \in Workers
             PROVE  /\ worker'[w] \in Processes
                    /\ worker'[w].stage = worker[w].stage /\ worker'[w].task = worker[w].task
                    /\ worker'[w].result = worker[w].result
                    /\ w \notin DOMAIN message \/ ~ Alive(w) => worker'[w] = worker[w]
                    /\ w \in DOMAIN message /\ Alive(w) =>
                         worker'[w].inbox = Append(worker[w].inbox, message[w])
  BY DEF Send
<1>1. worker[w] \in Processes
  BY DEF TypeOK
<1>2. worker'[w] = IF w \in DOMAIN message /\ Alive(w)
                     THEN [worker[w] EXCEPT !.inbox = Append(@, message[w])] ELSE worker[w]
  BY DEF Send
<1>3. CASE w \in DOMAIN message /\ Alive(w)
  <2>1. Append(worker[w].inbox, message[w]) \in Seq(Orders)
    BY <1>1, <1>3, ProcessFields, AppendProperties
  <2> QED BY <1>1, <1>2, <1>3, <2>1 DEF Processes
<1>4. CASE ~ (w \in DOMAIN message /\ Alive(w))
  BY <1>1, <1>2, <1>4
<1> QED BY <1>3, <1>4

\* The inbox of a worker that was sent to.
LEMMA InboxGrows ==
    ASSUME TypeOK, NEW w \in Workers, NEW m \in Orders,
           worker'[w].inbox = Append(worker[w].inbox, m)
    PROVE  /\ Len(worker[w].inbox) \in Nat
           /\ Len(worker'[w].inbox) = Len(worker[w].inbox) + 1
           /\ \A k \in 1 .. Len(worker[w].inbox) : worker'[w].inbox[k] = worker[w].inbox[k]
           /\ worker'[w].inbox[Len(worker[w].inbox) + 1] = m
<1>1. worker[w].inbox \in Seq(Orders)
  BY ProcessFields DEF TypeOK
<1> QED BY <1>1, LenProperties, AppendProperties

\* stop_worker_pool reaches the workers that still live.
LEMMA StopDoes ==
    ASSUME TypeOK, NEW references, references \subseteq Workers, NEW kind,
           StopWorkerPool(references, kind)
    PROVE  /\ phase' = "stopping" /\ ending' = kind
           /\ awaited' = references /\ worker_references' = references
           /\ worker' \in [Workers -> Processes]
           /\ \A w \in Workers :
                /\ worker'[w].stage = worker[w].stage /\ worker'[w].task = worker[w].task
                /\ worker'[w].result = worker[w].result
                /\ w \notin references \/ ~ Alive(w) => worker'[w] = worker[w]
                /\ w \in references /\ Alive(w) =>
                     worker'[w].inbox = Append(worker[w].inbox, <<"stop">>)
<1> DEFINE message == [w \in references |-> <<"stop">>]
<1>1. /\ phase' = "stopping" /\ ending' = kind
      /\ awaited' = references /\ worker_references' = references /\ Send(message)
  BY DEF StopWorkerPool
<1>2. DOMAIN message = references /\ \A w \in references : message[w] = <<"stop">>
  OBVIOUS
<1>3. <<"stop">> \in Orders
  BY OrderFields
<1> HIDE DEF message
<1>4. \A w \in DOMAIN message : message[w] \in Orders
  BY <1>2, <1>3
<1>5. /\ worker' \in [Workers -> Processes]
      /\ \A w \in Workers :
                /\ worker'[w].stage = worker[w].stage /\ worker'[w].task = worker[w].task
                /\ worker'[w].result = worker[w].result
                /\ w \notin DOMAIN message \/ ~ Alive(w) => worker'[w] = worker[w]
                /\ w \in DOMAIN message /\ Alive(w) =>
                     worker'[w].inbox = Append(worker[w].inbox, message[w])
  BY <1>1, <1>4, SendDoes
<1> QED BY <1>1, <1>2, <1>5

\* The workers that were given a task.
New(busy) == DOMAIN in_flight' \ DOMAIN busy

\* dispatch_and_finish: queued tasks go to idle workers, each to one.
HandsOut(tasks, idle, busy) ==
    /\ queued' \subseteq tasks
    /\ DOMAIN in_flight' = DOMAIN busy \cup New(busy)
    /\ in_flight' \in [DOMAIN in_flight' -> Dirs]
    /\ \A w \in DOMAIN busy : in_flight'[w] = busy[w]
    /\ New(busy) \subseteq idle
    /\ \A w \in New(busy) : in_flight'[w] \in tasks /\ in_flight'[w] \notin queued'
    /\ \A v, w \in New(busy) : in_flight'[v] = in_flight'[w] => v = w
    /\ \A d \in tasks \ queued' : \E w \in New(busy) : in_flight'[w] = d
    /\ idle_workers' = idle \ New(busy) /\ idle_workers' = Workers \ DOMAIN in_flight'
    /\ queued' = {} \/ idle_workers' = {}

\* They are told; the traversal is over when there is nothing left.
Tells(busy) ==
    /\ worker' \in [Workers -> Processes]
    /\ \A w \in Workers : /\ worker'[w].stage = worker[w].stage
                          /\ worker'[w].task = worker[w].task
                          /\ worker'[w].result = worker[w].result
    /\ \/ /\ DOMAIN in_flight' = {} /\ queued' = {}
          /\ StopWorkerPool(worker_references, "success")
       \/ /\ ~ (DOMAIN in_flight' = {} /\ queued' = {})
          /\ UNCHANGED <<phase, ending, awaited, worker_references>>
          /\ \A w \in Workers :
               /\ w \notin New(busy) \/ ~ Alive(w) => worker'[w] = worker[w]
               /\ w \in New(busy) /\ Alive(w) =>
                    worker'[w].inbox = Append(worker[w].inbox, <<"scan", in_flight'[w]>>)

LEMMA DispatchDoes ==
    ASSUME TypeOK, NEW tasks \in SUBSET Dirs, NEW idle \in SUBSET Workers,
           NEW busy, DOMAIN busy \subseteq Workers, busy \in [DOMAIN busy -> Dirs],
           idle = Workers \ DOMAIN busy, worker_references \subseteq Workers,
           DispatchAndFinish(tasks, idle, busy)
    PROVE  HandsOut(tasks, idle, busy) /\ Tells(busy)
<1>1. PICK chosen \in SUBSET idle : \E task \in [chosen -> tasks] :
        /\ \A v, w \in chosen : task[v] = task[w] => v = w
        /\ chosen = idle \/ {task[w] : w \in chosen} = tasks
        /\ queued' = tasks \ {task[w] : w \in chosen}
        /\ idle_workers' = idle \ chosen
        /\ in_flight' = [w \in chosen \cup DOMAIN busy |->
                           IF w \in chosen THEN task[w] ELSE busy[w]]
        /\ IF DOMAIN in_flight' = {} /\ queued' = {}
             THEN StopWorkerPool(worker_references, "success")
             ELSE /\ Send([w \in chosen |-> <<"scan", task[w]>>])
                  /\ UNCHANGED <<phase, ending, awaited, worker_references>>
  BY DEF DispatchAndFinish
<1>2. PICK task \in [chosen -> tasks] :
        /\ \A v, w \in chosen : task[v] = task[w] => v = w
        /\ chosen = idle \/ {task[w] : w \in chosen} = tasks
        /\ queued' = tasks \ {task[w] : w \in chosen}
        /\ idle_workers' = idle \ chosen
        /\ in_flight' = [w \in chosen \cup DOMAIN busy |->
                           IF w \in chosen THEN task[w] ELSE busy[w]]
        /\ IF DOMAIN in_flight' = {} /\ queued' = {}
             THEN StopWorkerPool(worker_references, "success")
             ELSE /\ Send([w \in chosen |-> <<"scan", task[w]>>])
                  /\ UNCHANGED <<phase, ending, awaited, worker_references>>
  BY <1>1
<1>3. /\ DOMAIN in_flight' = chosen \cup DOMAIN busy
      /\ New(busy) = chosen /\ chosen \cap DOMAIN busy = {}
      /\ \A w \in chosen : in_flight'[w] = task[w] /\ task[w] \in tasks
      /\ \A w \in DOMAIN busy : in_flight'[w] = busy[w]
  BY <1>1, <1>2 DEF New
<1>4. in_flight' \in [DOMAIN in_flight' -> Dirs]
  <2>1. \A w \in DOMAIN in_flight' : in_flight'[w] \in Dirs
    BY <1>3
  <2>2. in_flight' = [w \in DOMAIN in_flight' |-> in_flight'[w]]
    BY <1>2
  <2> QED BY <2>1, <2>2
<1>5. /\ queued' \subseteq tasks
      /\ \A w \in chosen : in_flight'[w] \notin queued'
      /\ \A d \in tasks \ queued' : \E w \in chosen : in_flight'[w] = d
      /\ \A v, w \in chosen : in_flight'[v] = in_flight'[w] => v = w
  BY <1>2, <1>3
<1>6. /\ idle_workers' = idle \ chosen /\ idle_workers' = Workers \ DOMAIN in_flight'
      /\ queued' = {} \/ idle_workers' = {}
  BY <1>2, <1>3
<1>7. CASE DOMAIN in_flight' = {} /\ queued' = {}
  <2>1. StopWorkerPool(worker_references, "success")
    BY <1>2, <1>7
  <2>2. /\ worker' \in [Workers -> Processes]
        /\ \A w \in Workers : /\ worker'[w].stage = worker[w].stage
                              /\ worker'[w].task = worker[w].task
                              /\ worker'[w].result = worker[w].result
    BY <2>1, StopDoes
  <2>3. HandsOut(tasks, idle, busy)
    BY <1>3, <1>4, <1>5, <1>6 DEF HandsOut
  <2> QED BY <1>7, <2>1, <2>2, <2>3 DEF Tells
<1>8. CASE ~ (DOMAIN in_flight' = {} /\ queued' = {})
  <2> DEFINE message == [w \in chosen |-> <<"scan", task[w]>>]
  <2>1. Send(message) /\ UNCHANGED <<phase, ending, awaited, worker_references>>
    BY <1>2, <1>8
  <2>2. DOMAIN message = chosen /\ \A w \in chosen : message[w] = <<"scan", in_flight'[w]>>
    BY <1>3
  <2>3. \A w \in chosen : message[w] \in Orders
    BY <1>3, <2>2, OrderFields
  <2> HIDE DEF message
  <2>4. /\ worker' \in [Workers -> Processes]
        /\ \A w \in Workers :
                /\ worker'[w].stage = worker[w].stage /\ worker'[w].task = worker[w].task
                /\ worker'[w].result = worker[w].result
                /\ w \notin DOMAIN message \/ ~ Alive(w) => worker'[w] = worker[w]
                /\ w \in DOMAIN message /\ Alive(w) =>
                     worker'[w].inbox = Append(worker[w].inbox, message[w])
    BY <2>1, <2>2, <2>3, SendDoes
  <2>5. \A w \in Workers :
                /\ w \notin chosen \/ ~ Alive(w) => worker'[w] = worker[w]
                /\ w \in chosen /\ Alive(w) =>
                     worker'[w].inbox = Append(worker[w].inbox, <<"scan", in_flight'[w]>>)
    BY <2>2, <2>4
  <2>6. HandsOut(tasks, idle, busy)
    BY <1>3, <1>4, <1>5, <1>6 DEF HandsOut
  <2>7. New(busy) = chosen
    BY <1>3
  <2> QED BY <1>8, <2>1, <2>4, <2>5, <2>6, <2>7 DEF Tells
<1> QED BY <1>7, <1>8

LEMMA WithoutDoes ==
    ASSUME TypeOK, NEW w \in Workers
    PROVE  LET busy == Without(in_flight, w)
           IN /\ DOMAIN busy = DOMAIN in_flight \ {w} /\ DOMAIN busy \subseteq Workers
              /\ busy \in [DOMAIN busy -> Dirs]
              /\ \A v \in DOMAIN busy : busy[v] = in_flight[v]
BY DEF Without, TypeOK

\* A pending directory completes, and new ones may become known.
Completed(dirs, next, d, children, result) ==
    /\ d \in DOMAIN dirs /\ dirs[d] = "pending" /\ children \cap DOMAIN dirs = {}
    /\ DOMAIN next = DOMAIN dirs \cup children /\ next[d] = result
    /\ \A e \in DOMAIN dirs : e # d => next[e] = dirs[e]
    /\ \A e \in children : next[e] = "pending"

\* What a completion changes in the store.
LEMMA CompleteDoes ==
    ASSUME TypeOK, NEW d, NEW children \in SUBSET Dirs, NEW result \in States,
           Store!Complete(d, children, result)
    PROVE  /\ d \in Dirs
           /\ directories' \in [DOMAIN directories' -> States] /\ DOMAIN directories' \subseteq Dirs
           /\ Completed(directories, directories', d, children, result)
<1>1. /\ d \in DOMAIN directories /\ directories[d] = "pending"
      /\ children \cap DOMAIN directories = {}
      /\ directories' = [c \in DOMAIN directories \cup children |->
                          IF c = d THEN result
                          ELSE IF c \in children THEN "pending" ELSE directories[c]]
  BY DEF Store!Complete
<1>2. \A c \in DOMAIN directories : directories[c] \in States
  BY DEF TypeOK
<1>3. "pending" \in States /\ DOMAIN directories \subseteq Dirs
  BY DEF States, TypeOK
<1>4. Completed(directories, directories', d, children, result)
  BY <1>1 DEF Completed
<1> QED BY <1>1, <1>2, <1>3, <1>4

\* The same, of the sets of directories in each state.
LEMMA CompletedSets ==
    ASSUME TypeOK, NEW d, NEW children \in SUBSET Dirs, NEW result \in {"published", "failed"},
           Store!Complete(d, children, result)
    PROVE  /\ In("pending")' = (In("pending") \ {d}) \cup children
           /\ d \in In("pending") /\ d \notin In("published") /\ d \notin In("failed")
           /\ In("published")' = IF result = "published" THEN In("published") \cup {d}
                                                         ELSE In("published")
           /\ In("failed")' = IF result = "failed" THEN In("failed") \cup {d} ELSE In("failed")
<1>1. result \in States
  BY DEF States
<1>2. /\ d \in DOMAIN directories /\ directories[d] = "pending"
      /\ children \cap DOMAIN directories = {}
      /\ DOMAIN directories' = DOMAIN directories \cup children
      /\ directories'[d] = result
      /\ \A e \in DOMAIN directories : e # d => directories'[e] = directories[e]
      /\ \A e \in children : directories'[e] = "pending"
  BY <1>1, CompleteDoes DEF Completed
<1>3. In("pending")' = (In("pending") \ {d}) \cup children
  BY <1>2 DEF In
<1>4. In("published")' = IF result = "published" THEN In("published") \cup {d}
                                                 ELSE In("published")
  BY <1>2 DEF In
<1>5. In("failed")' = IF result = "failed" THEN In("failed") \cup {d} ELSE In("failed")
  BY <1>2 DEF In
<1>6. d \in In("pending") /\ d \notin In("published") /\ d \notin In("failed")
  BY <1>2 DEF In
<1> QED BY <1>3, <1>4, <1>5, <1>6

\* The parts of the invariant that say where everything is.
Placed ==
    /\ TypeOK /\ PoolFits /\ MailFits /\ WorkersFit /\ HeldFits /\ TasksFit
    /\ OrphansFit /\ TreeFits /\ EndFits

\* A result that the coordinator handles.
Replied(w, d, r) ==
    /\ w \in Workers /\ d \in Dirs /\ r \in Results
    /\ Running /\ phase = "receiving" /\ TakesOut(1)
    /\ mailbox[1] \in Messages /\ mailbox[1].type = "result" /\ mailbox[1].worker = w
    /\ w \in DOMAIN in_flight /\ in_flight[w] = d
    /\ worker[w].stage \in {"receiving", "exited"}
    /\ \A k \in 1 .. Len(worker[w].inbox) : worker[w].inbox[k][1] # "scan"
    /\ r = "ok" => directories[d] = "published"
    /\ kills = 0 /\ r # "ok" => directories[d] = "pending"
    /\ idle_workers \cup {w} = Workers \ DOMAIN Without(in_flight, w)
    /\ worker_references = Workers /\ ending = "none"

LEMMA ResultReceived ==
    ASSUME Placed, HandleResult
    PROVE  \E w, d, r : 
             /\ Replied(w, d, r)
             /\ HandleWorkerResult(d, r, idle_workers \cup {w}, Without(in_flight, w))
             /\ UNCHANGED <<waiters, outcome, root_open, orphans, kills, caller>>
<1> DEFINE m == mailbox[1]
<1>1. /\ phase = "receiving" /\ mailbox # <<>> /\ Head(mailbox).type = "result"
      /\ mailbox' = Tail(mailbox)
      /\ UNCHANGED <<waiters, outcome, root_open, orphans, kills, caller>>
  BY DEF HandleResult, Receives, others
<1>2. TakesOut(1) /\ Head(mailbox) = m /\ m \in Messages
  BY <1>1, TailTakesOut DEF Placed
<1>3. m.type = "result" /\ m.worker \in Workers /\ m.task \in Dirs /\ m.result \in Results
  BY <1>1, <1>2, MessageFields
<1>4. Fits(m)
  BY <1>1, <1>2 DEF Placed, MailFits, TakesOut
<1>5. /\ m.worker \in DOMAIN in_flight /\ in_flight[m.worker] = m.task
      /\ worker[m.worker].stage \in {"receiving", "exited"}
      /\ \A k \in 1 .. Len(worker[m.worker].inbox) : worker[m.worker].inbox[k][1] # "scan"
      /\ m.result = "ok" => directories[m.task] = "published"
      /\ kills = 0 /\ m.result # "ok" => directories[m.task] = "pending"
  BY <1>3, <1>4 DEF Fits
<1>6. ~ Ended
  <2>1. DOMAIN <<>> = {}
    OBVIOUS
  <2> QED BY <1>5, <2>1 DEF Placed, EndFits
<1>7. HandleWorkerResult(m.task, m.result, idle_workers \cup {m.worker}, Without(in_flight, m.worker))
  BY <1>2, <1>5 DEF HandleResult
<1>8. /\ worker_references = Workers /\ idle_workers = Workers \ DOMAIN in_flight
      /\ ending = "none"
  BY <1>1, <1>6 DEF Placed, PoolFits
<1>9. idle_workers \cup {m.worker} = Workers \ DOMAIN Without(in_flight, m.worker)
  BY <1>3, <1>8 DEF Without
<1> HIDE DEF m
<1>10. Replied(m.worker, m.task, m.result)
  BY <1>1, <1>2, <1>3, <1>5, <1>6, <1>8, <1>9 DEF Replied, Running, m
<1> QED BY <1>1, <1>7, <1>10

\* A monitor that the coordinator handles while the traversal runs.
Dies(w) ==
    /\ w \in Workers /\ kills # 0 /\ Running /\ phase = "receiving" /\ TakesOut(1)
    /\ mailbox[1] \in Messages /\ mailbox[1].type = "down" /\ mailbox[1].worker = w
    /\ worker[w].stage = "exited"
    /\ worker_references = Workers

LEMMA DownReceived ==
    ASSUME Placed, HandleDown
    PROVE  \E w : 
             /\ Dies(w)
             /\ FinishFatal(queued, idle_workers \ {w}, Without(in_flight, w),
                            worker_references \ {w}, "worker")
             /\ UNCHANGED <<store, counters, waiters, outcome, root_open, orphans, kills, caller>>
<1> DEFINE m == mailbox[1]
<1>1. /\ phase = "receiving" /\ mailbox # <<>> /\ Head(mailbox).type = "down"
      /\ mailbox' = Tail(mailbox)
      /\ UNCHANGED <<store, counters, waiters, outcome, root_open, orphans, kills, caller>>
  BY DEF HandleDown, Receives, others
<1>2. TakesOut(1) /\ Head(mailbox) = m /\ m \in Messages
  BY <1>1, TailTakesOut DEF Placed
<1>3. m.type = "down" /\ m.worker \in Workers
  BY <1>1, <1>2, MessageFields
<1>4. Fits(m) /\ m.worker \in worker_references
  BY <1>1, <1>2, <1>3 DEF Placed, MailFits, TakesOut, FromWorker, Expecting
<1>5. worker[m.worker].stage = "exited" /\ ~ Ended
  BY <1>3, <1>4 DEF Fits, Placed, EndFits
<1>6. kills # 0
  BY <1>1, <1>3, <1>5 DEF Placed, WorkersFit, WorkerFits, Alive
<1>7. worker_references = Workers
  BY <1>1, <1>5 DEF Placed, PoolFits
<1>8. FinishFatal(queued, idle_workers \ {m.worker}, Without(in_flight, m.worker),
                  worker_references \ {m.worker}, "worker")
  BY <1>2 DEF HandleDown
<1> HIDE DEF m
<1>9. Dies(m.worker)
  BY <1>1, <1>2, <1>3, <1>5, <1>6, <1>7 DEF Dies, Running, m
<1> QED BY <1>1, <1>8, <1>9
\* A result that comes in while the pool is stopped.
Settled(i, w, d, r) ==
    /\ w \in Workers /\ d \in Dirs /\ r \in Results
    /\ phase = "stopping" /\ ~ Ended /\ TakesOut(i)
    /\ mailbox[i] \in Messages /\ mailbox[i].type = "result" /\ mailbox[i].worker = w
    /\ w \in DOMAIN in_flight /\ in_flight[w] = d
    /\ worker[w].stage \in {"receiving", "exited"}
    /\ \A k \in 1 .. Len(worker[w].inbox) : worker[w].inbox[k][1] # "scan"
    /\ r = "ok" => directories[d] = "published"
    /\ kills = 0 /\ r # "ok" => directories[d] = "pending"
    /\ in_flight' = Without(in_flight, w) /\ UNCHANGED awaited
    /\ \/ r = "ok" /\ counters' = Merged(counters, d) /\ UNCHANGED store
       \/ Store!Complete(d, {}, "failed") /\ counters' = FailureRecorded(counters)
       \/ r # "ok" /\ UNCHANGED <<store, counters>>

\* A monitor that is waited for.
Leaves(i, w) ==
    /\ w \in awaited /\ w \in Workers
    /\ phase = "stopping" /\ ~ Ended /\ TakesOut(i)
    /\ mailbox[i] \in Messages /\ mailbox[i].type = "down" /\ mailbox[i].worker = w
    /\ worker[w].stage = "exited"
    /\ \A k \in 1 .. Len(mailbox) : k # i => ~ FromWorker(mailbox[k], w)
    /\ awaited' = awaited \ {w} /\ UNCHANGED <<store, counters, in_flight>>

LEMMA ShutdownReceived ==
    ASSUME Placed, AwaitWorkerShutdown
    PROVE  /\ UNCHANGED <<queued, idle_workers, worker_references, waiters, outcome, phase, ending,
                          root_open, worker, orphans, kills, caller>>
           /\ \/ \E i, w, d, r : Settled(i, w, d, r)
              \/ \E i, w : Leaves(i, w)
<1> DEFINE matches(i) == \/ mailbox[i].type = "result"
                         \/ mailbox[i].type = "down" /\ mailbox[i].worker \in awaited
<1>1. /\ phase = "stopping"
      /\ UNCHANGED <<queued, idle_workers, worker_references, waiters, outcome, phase, ending,
                     root_open, worker, orphans, kills, caller>>
  BY DEF AwaitWorkerShutdown, others
<1>2. PICK i \in DOMAIN mailbox :
        /\ matches(i) /\ \A j \in 1 .. i - 1 : ~ matches(j)
        /\ IF mailbox[i].type = "result"
             THEN Settle(mailbox[i]) /\ UNCHANGED awaited
             ELSE /\ awaited' = awaited \ {mailbox[i].worker}
                  /\ UNCHANGED <<store, counters, in_flight>>
        /\ mailbox' = SubSeq(mailbox, 1, i - 1) \o SubSeq(mailbox, i + 1, Len(mailbox))
  BY DEF AwaitWorkerShutdown
<1>3. /\ mailbox \in Seq(Messages) /\ Len(mailbox) \in Nat /\ DOMAIN mailbox = 1 .. Len(mailbox)
      /\ \A k \in 1 .. Len(mailbox) : mailbox[k] \in Messages
  BY LenProperties, ElementOfSeq DEF Placed, TypeOK
<1>4. TakesOut(i)
  BY <1>2, <1>3, RemovalTakesOut DEF Placed
<1> DEFINE m == mailbox[i]
<1>5. i \in 1 .. Len(mailbox) /\ i \in Nat /\ m \in Messages
  BY <1>2, <1>3
<1>6. Fits(m)
  BY <1>1, <1>5 DEF Placed, MailFits
<1>7. CASE m.type = "result"
  <2>1. m.worker \in Workers /\ m.task \in Dirs /\ m.result \in Results
    BY <1>5, <1>7, MessageFields
  <2>2. /\ m.worker \in DOMAIN in_flight /\ in_flight[m.worker] = m.task
        /\ worker[m.worker].stage \in {"receiving", "exited"}
        /\ \A k \in 1 .. Len(worker[m.worker].inbox) : worker[m.worker].inbox[k][1] # "scan"
        /\ m.result = "ok" => directories[m.task] = "published"
        /\ kills = 0 /\ m.result # "ok" => directories[m.task] = "pending"
    BY <1>6, <1>7 DEF Fits
  <2>3. ~ Ended
    <3>1. DOMAIN <<>> = {}
      OBVIOUS
    <3> QED BY <2>2, <3>1 DEF Placed, EndFits
  <2>4. Settle(m) /\ UNCHANGED awaited
    BY <1>2, <1>7
  <2> HIDE DEF m
  <2>5. /\ in_flight' = Without(in_flight, m.worker)
        /\ \/ m.result = "ok" /\ counters' = Merged(counters, m.task) /\ UNCHANGED store
           \/ /\ Store!Complete(m.task, {}, "failed") /\ counters' = FailureRecorded(counters)
           \/ m.result # "ok" /\ UNCHANGED <<store, counters>>
    BY <2>2, <2>4 DEF Settle
  <2>6. Settled(i, m.worker, m.task, m.result)
    BY <1>1, <1>4, <1>5, <1>7, <2>1, <2>2, <2>3, <2>4, <2>5 DEF Settled, m
  <2> QED BY <1>1, <2>6
<1>8. CASE m.type # "result"
  <2>1. m.type = "down" /\ m.worker \in awaited
    BY <1>2, <1>8
  <2>2. m.worker \in Workers /\ worker[m.worker].stage = "exited"
    BY <1>5, <1>6, <2>1, MessageFields DEF Fits
  <2>3. ~ Ended
    BY <2>1 DEF Placed, EndFits
  <2>4. ASSUME NEW k \in 1 .. Len(mailbox), k # i, FromWorker(mailbox[k], m.worker) PROVE FALSE
    <3>1. CASE k < i
      <4>1. InOrder(mailbox[k], m)
        BY <1>1, <1>5, <3>1 DEF Placed, MailFits
      <4>2. mailbox[k].type = "result"
        BY <2>1, <2>4, <4>1 DEF InOrder, FromWorker
      <4>3. k \in 1 .. i - 1
        BY <1>5, <3>1
      <4> QED BY <1>2, <4>2, <4>3
    <3>2. CASE k > i
      <4>1. InOrder(m, mailbox[k])
        BY <1>1, <1>5, <3>2 DEF Placed, MailFits
      <4> QED BY <2>1, <2>4, <4>1 DEF InOrder, FromWorker
    <3>3. k < i \/ k > i
      BY <1>3, <1>5, <2>4
    <3> QED BY <3>1, <3>2, <3>3
  <2>5. awaited' = awaited \ {m.worker} /\ UNCHANGED <<store, counters, in_flight>>
    BY <1>2, <1>8
  <2>6. Leaves(i, m.worker)
    BY <1>1, <1>4, <1>5, <2>1, <2>2, <2>3, <2>4, <2>5 DEF Leaves
  <2> QED BY <1>1, <2>6
<1> QED BY <1>7, <1>8
-----------------------------------------------------------------------------
\* What becomes of the division of the pending directories.

\* Of the queued tasks some are left, the others are handed out.
HandedOut(tasks, busy, left, flight) ==
    /\ left \subseteq tasks /\ DOMAIN busy \subseteq DOMAIN flight
    /\ \A w \in DOMAIN busy : flight[w] = busy[w]
    /\ \A w \in DOMAIN flight \ DOMAIN busy : flight[w] \in tasks /\ flight[w] \notin left
    /\ \A v, w \in DOMAIN flight \ DOMAIN busy : flight[v] = flight[w] => v = w
    /\ \A d \in tasks \ left : \E w \in DOMAIN flight \ DOMAIN busy : flight[w] = d

LEMMA DividedHandsOut ==
    ASSUME NEW dirs, NEW tasks, NEW busy, NEW left, NEW flight,
           Divided(dirs, tasks, busy), Apart(dirs, busy), HandedOut(tasks, busy, left, flight)
    PROVE  /\ Divided(dirs, left, flight) /\ Apart(dirs, flight)
           /\ \A w \in DOMAIN flight \ DOMAIN busy : dirs[flight[w]] = "pending"
<1> USE DEF HandedOut
<1>1. Ranging(flight) = Ranging(busy) \cup (tasks \ left)
  BY DEF Ranging
<1>2. \A d \in tasks : d \in DOMAIN dirs /\ dirs[d] = "pending" /\ d \notin Ranging(busy)
  BY DEF Divided
<1>3. Announced(dirs, flight) = Announced(dirs, busy)
  BY <1>1, <1>2 DEF Announced
<1>4. Divided(dirs, left, flight)
  <2>1. {d \in DOMAIN dirs : dirs[d] = "pending"}
          = left \cup Announced(dirs, flight) \cup {d \in Ranging(flight) : dirs[d] = "pending"}
    BY <1>1, <1>2, <1>3 DEF Divided
  <2>2. left \cap Ranging(flight) = {}
    BY <1>1, <1>2
  <2>3. Announced(dirs, flight) \cap (left \cup Ranging(flight)) = {}
    BY <1>1, <1>3 DEF Divided
  <2> QED BY <2>1, <2>2, <2>3 DEF Divided
<1>5. Apart(dirs, flight)
  <2>1. ASSUME NEW v \in DOMAIN flight, NEW w \in DOMAIN flight, flight[v] = flight[w]
        PROVE  v = w
    <3>1. CASE v \in DOMAIN busy /\ w \in DOMAIN busy
      BY <2>1, <3>1 DEF Apart
    <3>2. CASE v \notin DOMAIN busy /\ w \notin DOMAIN busy
      BY <2>1, <3>2
    <3>3. CASE v \in DOMAIN busy /\ w \notin DOMAIN busy
      BY <1>2, <2>1, <3>3 DEF Ranging
    <3>4. CASE v \notin DOMAIN busy /\ w \in DOMAIN busy
      BY <1>2, <2>1, <3>4 DEF Ranging
    <3> QED BY <3>1, <3>2, <3>3, <3>4
  <2>2. ASSUME NEW w \in DOMAIN flight
        PROVE  flight[w] \in DOMAIN dirs /\ dirs[flight[w]] # "failed"
    BY <1>2 DEF Apart
  <2> QED BY <2>1, <2>2 DEF Apart
<1> QED BY <1>2, <1>4, <1>5

\* A worker's task is done, f is what the others have.
Others(flight, w, busy) ==
    /\ w \in DOMAIN flight /\ DOMAIN busy = DOMAIN flight \ {w}
    /\ \A v \in DOMAIN busy : busy[v] = flight[v]

LEMMA OthersRange ==
    ASSUME NEW dirs, NEW flight, NEW w, NEW busy, Others(flight, w, busy), Apart(dirs, flight)
    PROVE  Ranging(flight) = Ranging(busy) \cup {flight[w]} /\ flight[w] \notin Ranging(busy)
BY DEF Others, Apart, Ranging

\* The children in a result are queued.
LEMMA DividedQueues ==
    ASSUME NEW dirs, DOMAIN dirs \subseteq Dirs, NEW tasks, NEW flight, NEW w, NEW busy,
           Divided(dirs, tasks, flight), Apart(dirs, flight), Others(flight, w, busy),
           dirs[flight[w]] = "published"
    PROVE  Divided(dirs, tasks \cup Children[flight[w]], busy) /\ Apart(dirs, busy)
<1> DEFINE d == flight[w]
<1>1. Ranging(flight) = Ranging(busy) \cup {d} /\ d \notin Ranging(busy)
  BY OthersRange
<1>2. Announced(dirs, flight) = Announced(dirs, busy) \cup Children[d]
  BY <1>1 DEF Announced
<1>3. Announced(dirs, busy) \cap Children[d] = {}
  <2>1. \A e \in Ranging(busy) : e \in Dirs /\ e # d
    BY <1>1 DEF Apart, Others, Ranging
  <2>2. d \in Dirs
    BY DEF Apart, Others
  <2> QED BY <2>1, <2>2, TreeAssumption DEF Announced
<1>4. Apart(dirs, busy)
  BY DEF Apart, Others
<1> HIDE DEF d
<1>5. dirs[d] = "published"
  BY DEF d
<1>6. Divided(dirs, tasks \cup Children[d], busy)
  <2>1. {c \in DOMAIN dirs : dirs[c] = "pending"}
          = (tasks \cup Children[d]) \cup Announced(dirs, busy)
              \cup {c \in Ranging(busy) : dirs[c] = "pending"}
    BY <1>1, <1>2, <1>5 DEF Divided
  <2>2. (tasks \cup Children[d]) \cap Ranging(busy) = {}
    BY <1>1, <1>2 DEF Divided
  <2>3. Announced(dirs, busy) \cap ((tasks \cup Children[d]) \cup Ranging(busy)) = {}
    BY <1>1, <1>2, <1>3 DEF Divided
  <2> QED BY <2>1, <2>2, <2>3 DEF Divided
<1> QED BY <1>4, <1>6 DEF d

\* The directory of a task fails: the others are about other directories.
LEMMA ApartFails ==
    ASSUME NEW dirs, NEW next, NEW flight, NEW w, NEW busy,
           Apart(dirs, flight), Others(flight, w, busy),
           Completed(dirs, next, flight[w], {}, "failed")
    PROVE  Apart(next, busy)
<1>1. ASSUME NEW v \in DOMAIN busy PROVE busy[v] \in DOMAIN next /\ next[busy[v]] # "failed"
  <2>1. busy[v] # flight[w] /\ busy[v] \in DOMAIN dirs /\ dirs[busy[v]] # "failed"
    BY DEF Apart, Others
  <2> QED BY <2>1 DEF Completed
<1> QED BY <1>1 DEF Apart, Others

\* It is not pending any more.
LEMMA DividedFails ==
    ASSUME NEW dirs, NEW next, NEW tasks, NEW flight, NEW w, NEW busy,
           Divided(dirs, tasks, flight), Apart(dirs, flight), Others(flight, w, busy),
           Completed(dirs, next, flight[w], {}, "failed")
    PROVE  Divided(next, tasks, busy) /\ Apart(next, busy)
<1> DEFINE d == flight[w]
<1>1. Ranging(flight) = Ranging(busy) \cup {d} /\ d \notin Ranging(busy)
  BY OthersRange
<1>2. Ranging(busy) \subseteq DOMAIN dirs
  BY DEF Apart, Others, Ranging
<1> HIDE DEF d
<1>3. Completed(dirs, next, d, {}, "failed")
  BY DEF d
<1>4. Announced(next, busy) = Announced(dirs, flight)
  BY <1>1, <1>2, <1>3 DEF Announced, Completed
<1>5. Divided(next, tasks, busy)
  <2>1. {c \in DOMAIN next : next[c] = "pending"} = {c \in DOMAIN dirs : dirs[c] = "pending"} \ {d}
    BY <1>3 DEF Completed
  <2>2. {c \in Ranging(busy) : next[c] = "pending"}
          = {c \in Ranging(flight) : dirs[c] = "pending"} \ {d}
    BY <1>1, <1>2, <1>3 DEF Completed
  <2>3. d \notin tasks /\ d \notin Announced(dirs, flight)
    BY <1>1 DEF Divided
  <2>4. {c \in DOMAIN next : next[c] = "pending"}
          = tasks \cup Announced(next, busy) \cup {c \in Ranging(busy) : next[c] = "pending"}
    BY <1>4, <2>1, <2>2, <2>3 DEF Divided
  <2>5. tasks \cap Ranging(busy) = {}
    BY <1>1 DEF Divided
  <2>6. Announced(next, busy) \cap (tasks \cup Ranging(busy)) = {}
    BY <1>1, <1>4 DEF Divided
  <2> QED BY <2>4, <2>5, <2>6 DEF Divided
<1>6. Apart(next, busy)
  BY ApartFails
<1> QED BY <1>5, <1>6

\* The directory of a task is published.
LEMMA DividedScans ==
    ASSUME NEW dirs, DOMAIN dirs \subseteq Dirs, NEW next, NEW tasks, NEW flight, NEW d,
           Divided(dirs, tasks, flight), Apart(dirs, flight), d \in Ranging(flight),
           Completed(dirs, next, d, Children[d], "published")
    PROVE  Divided(next, tasks, flight)
<1>1. Ranging(flight) \subseteq DOMAIN dirs
  BY DEF Apart, Ranging
<1>2. Announced(next, flight) = Announced(dirs, flight) \cup Children[d]
  BY <1>1 DEF Announced, Completed
<1>3. {c \in DOMAIN next : next[c] = "pending"}
        = ({c \in DOMAIN dirs : dirs[c] = "pending"} \ {d}) \cup Children[d]
  BY DEF Completed
<1>4. {c \in Ranging(flight) : next[c] = "pending"}
        = {c \in Ranging(flight) : dirs[c] = "pending"} \ {d}
  BY <1>1 DEF Completed
<1>5. d \notin tasks /\ d \notin Announced(dirs, flight)
  BY DEF Divided
<1>6. tasks \subseteq DOMAIN dirs
  BY DEF Divided
<1>7. {c \in DOMAIN next : next[c] = "pending"}
        = tasks \cup Announced(next, flight) \cup {c \in Ranging(flight) : next[c] = "pending"}
  BY <1>2, <1>3, <1>4, <1>5 DEF Divided
<1>8. Announced(next, flight) \cap (tasks \cup Ranging(flight)) = {}
  BY <1>1, <1>2, <1>6 DEF Divided, Completed
<1> QED BY <1>7, <1>8 DEF Divided

\* A completion with children, or one that fails, of a directory no worker has,
\* leaves the tasks apart; so does one with children of any directory.
LEMMA ApartScans ==
    ASSUME NEW dirs, NEW next, NEW flight, NEW d, NEW children,
           Apart(dirs, flight), Completed(dirs, next, d, children, "published")
    PROVE  Apart(next, flight)
BY DEF Apart, Completed

-----------------------------------------------------------------------------
\* Types.

\* Without the tasks of a worker, or with some.
LEMMA FinishTypes ==
    ASSUME TypeOK, NEW tasks \in SUBSET Dirs, NEW idle \in SUBSET Workers, NEW busy,
           busy \in [DOMAIN busy -> Dirs], DOMAIN busy \subseteq Workers,
           NEW references \in SUBSET Workers, NEW kind \in Kinds,
           FinishFatal(tasks, idle, busy, references, kind)
    PROVE  /\ queued' = tasks /\ idle_workers' = idle /\ in_flight' = busy
           /\ phase' = "stopping" /\ ending' = kind
           /\ awaited' = references /\ worker_references' = references
           /\ worker' \in [Workers -> Processes]
           /\ \A w \in Workers :
                /\ worker'[w].stage = worker[w].stage /\ worker'[w].task = worker[w].task
                /\ worker'[w].result = worker[w].result
                /\ w \notin references \/ ~ Alive(w) => worker'[w] = worker[w]
                /\ w \in references /\ Alive(w) =>
                     worker'[w].inbox = Append(worker[w].inbox, <<"stop">>)
BY StopDoes DEF FinishFatal

\* What the counters become.
LEMMA CountersTyped ==
    ASSUME TypeOK, NEW d \in Dirs
    PROVE  /\ Merged(counters, d) \in Counters /\ FailureRecorded(counters) \in Counters
           /\ Merged(counters, d).entries = counters.entries + Rows[d]
           /\ Merged(counters, d).failures = counters.failures
           /\ Merged(counters, d).metadata_errors =
                counters.metadata_errors + (IF d \in Flawed THEN 1 ELSE 0)
           /\ FailureRecorded(counters).entries = counters.entries
           /\ FailureRecorded(counters).failures = counters.failures + 1
           /\ FailureRecorded(counters).metadata_errors = counters.metadata_errors
           /\ Rows[d] \in Nat
<1>1. Rows[d] \in Nat
  BY RowsAssumption
<1>2. counters \in Counters
  BY DEF TypeOK
<1>3. /\ Merged(counters, d) \in Counters
      /\ Merged(counters, d).entries = counters.entries + Rows[d]
      /\ Merged(counters, d).failures = counters.failures
      /\ Merged(counters, d).metadata_errors =
           counters.metadata_errors + (IF d \in Flawed THEN 1 ELSE 0)
  <2> DEFINE more == IF d \in Flawed THEN 1 ELSE 0
  <2>1. more \in Nat
    OBVIOUS
  <2>2. Merged(counters, d) = [counters EXCEPT !.entries = @ + Rows[d], !.metadata_errors = @ + more]
    BY DEF Merged
  <2> HIDE DEF more
  <2> DEFINE one == [counters EXCEPT !.entries = @ + Rows[d]]
  <2>3. /\ one \in Counters /\ one.entries = counters.entries + Rows[d]
        /\ one.failures = counters.failures /\ one.metadata_errors = counters.metadata_errors
    BY <1>1, <1>2 DEF Counters
  <2>4. Merged(counters, d) = [one EXCEPT !.metadata_errors = @ + more]
    BY <2>2
  <2> HIDE DEF one
  <2>5. /\ Merged(counters, d) \in Counters
        /\ Merged(counters, d).entries = one.entries
        /\ Merged(counters, d).failures = one.failures
        /\ Merged(counters, d).metadata_errors = one.metadata_errors + more
    BY <2>1, <2>3, <2>4 DEF Counters
  <2> QED BY <2>3, <2>5 DEF more
<1>4. /\ FailureRecorded(counters) \in Counters
      /\ FailureRecorded(counters).entries = counters.entries
      /\ FailureRecorded(counters).failures = counters.failures + 1
      /\ FailureRecorded(counters).metadata_errors = counters.metadata_errors
  BY <1>2 DEF FailureRecorded, Counters
<1> QED BY <1>1, <1>3, <1>4

LEMMA ResultTypes ==
    ASSUME Placed, HandleResult
    PROVE  TypeOK'
<1>1. PICK w, d, r :
             /\ Replied(w, d, r)
             /\ HandleWorkerResult(d, r, idle_workers \cup {w}, Without(in_flight, w))
             /\ UNCHANGED <<waiters, outcome, root_open, orphans, kills, caller>>
  BY ResultReceived
<1> DEFINE busy == Without(in_flight, w)
           idle == idle_workers \cup {w}
<1>2. /\ w \in Workers /\ d \in Dirs /\ r \in Results /\ mailbox' \in Seq(Messages)
      /\ idle = Workers \ DOMAIN busy /\ worker_references = Workers
  BY <1>1 DEF Replied, TakesOut
<1>3. TypeOK /\ Children[d] \subseteq Dirs
  BY <1>2, TreeAssumption DEF Placed
<1>4. /\ DOMAIN busy \subseteq Workers /\ busy \in [DOMAIN busy -> Dirs]
  BY <1>2, <1>3, WithoutDoes
<1>5. idle \in SUBSET Workers
  BY <1>2
<1> HIDE DEF busy, idle
<1>6. HandleWorkerResult(d, r, idle, busy)
  BY <1>1 DEF busy, idle
<1>7. ASSUME NEW tasks \in SUBSET Dirs, DispatchAndFinish(tasks, idle, busy)
      PROVE  /\ queued' \subseteq Dirs /\ in_flight' \in [DOMAIN in_flight' -> Dirs]
             /\ DOMAIN in_flight' \subseteq Workers /\ idle_workers' \subseteq Workers
             /\ worker_references' \subseteq Workers /\ awaited' \subseteq Workers
             /\ phase' \in Phases /\ ending' \in Kinds \cup {"none", "terminate"}
             /\ worker' \in [Workers -> Processes]
  <2>1. /\ queued' \subseteq tasks
        /\ DOMAIN in_flight' = DOMAIN busy \cup New(busy)
        /\ in_flight' \in [DOMAIN in_flight' -> Dirs]
        /\ New(busy) \subseteq idle
        /\ idle_workers' = idle \ New(busy)
        /\ worker' \in [Workers -> Processes]
        /\ \/ StopWorkerPool(worker_references, "success")
           \/ UNCHANGED <<phase, ending, awaited, worker_references>>
    <3>1. worker_references \subseteq Workers /\ idle = Workers \ DOMAIN busy
      BY <1>2 DEF idle, busy
    <3>2. HandsOut(tasks, idle, busy) /\ Tells(busy)
      BY <1>3, <1>4, <1>5, <1>7, <3>1, DispatchDoes
    <3> QED BY <3>2 DEF HandsOut, Tells
  <2>2. CASE StopWorkerPool(worker_references, "success")
    <3>1. /\ worker_references' \subseteq Workers /\ awaited' \subseteq Workers
          /\ phase' \in Phases /\ ending' \in Kinds \cup {"none", "terminate"}
      BY <1>2, <2>2 DEF StopWorkerPool, Phases, Kinds
    <3> QED BY <1>4, <1>5, <2>1, <3>1
  <2>3. CASE UNCHANGED <<phase, ending, awaited, worker_references>>
    BY <1>3, <1>4, <1>5, <2>1, <2>3 DEF TypeOK
  <2> QED BY <2>1, <2>2, <2>3
<1>8. ASSUME NEW kind \in Kinds, FinishFatal(queued, idle, busy, worker_references, kind)
      PROVE  /\ queued' \subseteq Dirs /\ in_flight' \in [DOMAIN in_flight' -> Dirs]
             /\ DOMAIN in_flight' \subseteq Workers /\ idle_workers' \subseteq Workers
             /\ worker_references' \subseteq Workers /\ awaited' \subseteq Workers
             /\ phase' \in Phases /\ ending' \in Kinds \cup {"none", "terminate"}
             /\ worker' \in [Workers -> Processes]
  <2>1. queued \in SUBSET Dirs /\ worker_references \in SUBSET Workers
    BY <1>3 DEF TypeOK
  <2>2. /\ queued' = queued /\ idle_workers' = idle /\ in_flight' = busy
        /\ phase' = "stopping" /\ ending' = kind
        /\ awaited' = worker_references /\ worker_references' = worker_references
        /\ worker' \in [Workers -> Processes]
    BY <1>3, <1>4, <1>5, <1>8, <2>1, FinishTypes
  <2> QED BY <1>4, <1>5, <2>1, <2>2 DEF Phases
<1>9. /\ queued' \subseteq Dirs /\ in_flight' \in [DOMAIN in_flight' -> Dirs]
      /\ DOMAIN in_flight' \subseteq Workers /\ idle_workers' \subseteq Workers
      /\ worker_references' \subseteq Workers /\ awaited' \subseteq Workers
      /\ phase' \in Phases /\ ending' \in Kinds \cup {"none", "terminate"}
      /\ worker' \in [Workers -> Processes]
  <2>1. queued \in SUBSET Dirs /\ queued \cup Children[d] \in SUBSET Dirs
    BY <1>3 DEF TypeOK
  <2>2. \A kind \in {"ranking", "store", "directory"} : kind \in Kinds
    BY DEF Kinds
  <2>3. \/ \E tasks \in SUBSET Dirs : DispatchAndFinish(tasks, idle, busy)
        \/ \E kind \in Kinds : FinishFatal(queued, idle, busy, worker_references, kind)
    BY <1>6, <2>1, <2>2 DEF HandleWorkerResult
  <2> QED BY <1>7, <1>8, <2>3
<1>10. counters' \in Counters /\ directories' \in [DOMAIN directories' -> States]
       /\ DOMAIN directories' \subseteq Dirs
  <2>1. CASE UNCHANGED store /\ (counters' = Merged(counters, d) \/ UNCHANGED counters)
    BY <1>2, <1>3, <2>1, CountersTyped DEF TypeOK, store
  <2>2. CASE Store!Complete(d, {}, "failed") /\ counters' = FailureRecorded(counters)
    <3>1. {} \in SUBSET Dirs /\ "failed" \in States
      BY DEF States
    <3> QED BY <1>2, <1>3, <2>2, <3>1, CountersTyped, CompleteDoes
  <2> QED BY <1>6, <2>1, <2>2 DEF HandleWorkerResult, store
<1>11. /\ waiters' \subseteq Callers /\ caller' \in [Callers -> Replies]
       /\ outcome' \in Outcomes \cup {NULL} /\ root_open' \in BOOLEAN
       /\ orphans' \subseteq Dirs /\ kills' \in Nat
  BY <1>1, <1>3 DEF TypeOK
<1> QED BY <1>2, <1>9, <1>10, <1>11 DEF TypeOK

LEMMA DownTypes ==
    ASSUME Placed, HandleDown
    PROVE  TypeOK'
<1>1. PICK w :
        /\ Dies(w)
        /\ FinishFatal(queued, idle_workers \ {w}, Without(in_flight, w),
                       worker_references \ {w}, "worker")
        /\ UNCHANGED <<store, counters, waiters, outcome, root_open, orphans, kills, caller>>
  BY DownReceived
<1>2. w \in Workers /\ mailbox' \in Seq(Messages) /\ TypeOK
  BY <1>1 DEF Dies, TakesOut, Placed
<1> DEFINE busy == Without(in_flight, w)
<1>3. DOMAIN busy \subseteq Workers /\ busy \in [DOMAIN busy -> Dirs]
  BY <1>2, WithoutDoes
<1> HIDE DEF busy
<1>4. /\ FinishFatal(queued, idle_workers \ {w}, busy, worker_references \ {w}, "worker")
      /\ queued \in SUBSET Dirs /\ idle_workers \ {w} \in SUBSET Workers
      /\ worker_references \ {w} \in SUBSET Workers /\ "worker" \in Kinds
  BY <1>1, <1>2 DEF TypeOK, Kinds, busy
<1>5. /\ queued' = queued /\ idle_workers' = idle_workers \ {w} /\ in_flight' = busy
      /\ phase' = "stopping" /\ ending' = "worker"
      /\ awaited' = worker_references \ {w} /\ worker_references' = worker_references \ {w}
      /\ worker' \in [Workers -> Processes]
  BY <1>2, <1>3, <1>4, FinishTypes
<1> QED BY <1>1, <1>2, <1>3, <1>4, <1>5 DEF TypeOK, Phases, store

\* What a dispatch without a result does.
LEMMA RankTypes ==
    ASSUME Placed, HandlePutRankData
    PROVE  TypeOK'
<1>1. TypeOK /\ TakesOut(1)
  BY TailTakesOut DEF Placed, HandlePutRankData, Receives
<1>2. /\ mailbox' \in Seq(Messages) /\ phase = "receiving"
      /\ caller' = Answer({Head(mailbox).caller}, "replied")
      /\ UNCHANGED <<store, counters, waiters, outcome, root_open, orphans, kills>>
  BY <1>1 DEF HandlePutRankData, Receives, TakesOut
<1>3. caller' \in [Callers -> Replies]
  BY <1>1, <1>2 DEF Answer, TypeOK, Replies
<1>4. CASE outcome # NULL
  <2>1. UNCHANGED <<queued, in_flight, idle_workers, worker_references, phase, ending, awaited,
                    worker>>
    BY <1>4 DEF HandlePutRankData
  <2> QED BY <1>1, <1>2, <1>3, <2>1 DEF TypeOK, store
<1>5. CASE outcome = NULL
  <2>1. DispatchAndFinish(queued, idle_workers, in_flight)
    BY <1>5 DEF HandlePutRankData
  <2>2. /\ queued \in SUBSET Dirs /\ idle_workers \in SUBSET Workers
        /\ DOMAIN in_flight \subseteq Workers /\ in_flight \in [DOMAIN in_flight -> Dirs]
        /\ idle_workers = Workers \ DOMAIN in_flight
        /\ worker_references \subseteq Workers /\ worker_references = Workers
    BY <1>2, <1>5 DEF Placed, TypeOK, PoolFits, Ended
  <2>3. HandsOut(queued, idle_workers, in_flight) /\ Tells(in_flight)
    BY <1>1, <2>1, <2>2, DispatchDoes
  <2>4. /\ queued' \subseteq Dirs /\ in_flight' \in [DOMAIN in_flight' -> Dirs]
        /\ DOMAIN in_flight' \subseteq Workers /\ idle_workers' \subseteq Workers
        /\ worker' \in [Workers -> Processes]
    BY <2>2, <2>3 DEF HandsOut, Tells
  <2>5. /\ worker_references' \subseteq Workers /\ awaited' \subseteq Workers
        /\ phase' \in Phases /\ ending' \in Kinds \cup {"none", "terminate"}
    <3>1. CASE StopWorkerPool(worker_references, "success")
      BY <2>2, <3>1 DEF StopWorkerPool, Phases, Kinds
    <3>2. CASE UNCHANGED <<phase, ending, awaited, worker_references>>
      BY <1>1, <3>2 DEF TypeOK
    <3> QED BY <2>3, <3>1, <3>2 DEF Tells
  <2> QED BY <1>1, <1>2, <1>3, <2>4, <2>5 DEF TypeOK, store
<1> QED BY <1>4, <1>5

LEMMA ShutdownTypes ==
    ASSUME Placed, AwaitWorkerShutdown
    PROVE  TypeOK'
<1>1. TypeOK
  BY DEF Placed
<1>2. UNCHANGED <<queued, idle_workers, worker_references, waiters, outcome, phase, ending,
                  root_open, worker, orphans, kills, caller>>
  BY ShutdownReceived
<1>3. ASSUME NEW i, NEW w, NEW d, NEW r, Settled(i, w, d, r) PROVE TypeOK'
  <2> DEFINE busy == Without(in_flight, w)
  <2>1. /\ w \in Workers /\ d \in Dirs /\ mailbox' \in Seq(Messages)
        /\ in_flight' = busy /\ UNCHANGED awaited
        /\ \/ counters' = Merged(counters, d) /\ UNCHANGED store
           \/ Store!Complete(d, {}, "failed") /\ counters' = FailureRecorded(counters)
           \/ UNCHANGED <<store, counters>>
    BY <1>3 DEF Settled, TakesOut
  <2>2. DOMAIN busy \subseteq Workers /\ busy \in [DOMAIN busy -> Dirs]
    BY <1>1, <2>1, WithoutDoes
  <2> HIDE DEF busy
  <2>3. counters' \in Counters /\ directories' \in [DOMAIN directories' -> States]
        /\ DOMAIN directories' \subseteq Dirs
    <3>1. CASE UNCHANGED store /\ (counters' = Merged(counters, d) \/ UNCHANGED counters)
      BY <1>1, <2>1, <3>1, CountersTyped DEF TypeOK, store
    <3>2. CASE Store!Complete(d, {}, "failed") /\ counters' = FailureRecorded(counters)
      <4>1. {} \in SUBSET Dirs /\ "failed" \in States
        BY DEF States
      <4> QED BY <1>1, <2>1, <3>2, <4>1, CountersTyped, CompleteDoes
    <3> QED BY <2>1, <3>1, <3>2
  <2> QED BY <1>1, <1>2, <2>1, <2>2, <2>3 DEF TypeOK
<1>4. ASSUME NEW i, NEW w, Leaves(i, w) PROVE TypeOK'
  <2>1. /\ mailbox' \in Seq(Messages)
        /\ awaited' = awaited \ {w} /\ UNCHANGED <<store, counters, in_flight>>
    BY <1>4 DEF Leaves, TakesOut
  <2> QED BY <1>1, <1>2, <2>1 DEF TypeOK, store
<1> QED BY <1>3, <1>4, ShutdownReceived

LEMMA StartTypes ==
    ASSUME TypeOK, StartWorkers
    PROVE  TypeOK'
<1>1. PICK first \in Workers :
         /\ in_flight' = [w \in {first} |-> Root]
         /\ idle_workers' = Workers \ {first}
         /\ worker' = [w \in Workers |->
                         Waiting(IF w = first THEN <<<<"scan", Root>>>> ELSE <<>>)]
  BY DEF StartWorkers
<1>2. worker' \in [Workers -> Processes]
  <2>1. <<"scan", Root>> \in Orders
    BY TreeAssumption, OrderFields
  <2>2. <<<<"scan", Root>>>> \in Seq(Orders) /\ <<>> \in Seq(Orders)
    BY <2>1, EmptySeq
  <2>3. \A inbox \in Seq(Orders) : Waiting(inbox) \in Processes
    BY ProcessForms DEF Waiting, Stages
  <2> QED BY <1>1, <2>2, <2>3
<1>3. in_flight' \in [DOMAIN in_flight' -> Dirs] /\ DOMAIN in_flight' \subseteq Workers
  BY <1>1, TreeAssumption
<1> QED BY <1>1, <1>2, <1>3 DEF StartWorkers, TypeOK, Phases, store, others

\* A coordinator that is gone leaves its workers a message.
LEMMA GoneDoes ==
    ASSUME TypeOK, Gone
    PROVE  /\ phase' = "gone" /\ mailbox' = <<>> /\ waiters' = {}
           /\ mailbox' \in Seq(Messages) /\ caller' \in [Callers -> Replies]
           /\ worker' \in [Workers -> Processes]
           /\ \A w \in Workers : worker'[w].stage = worker[w].stage /\ worker'[w].task = worker[w].task
<1> DEFINE message == [w \in Workers |-> <<"owner_down">>]
<1>1. Send(message) /\ phase' = "gone" /\ mailbox' = <<>> /\ waiters' = {}
  BY DEF Gone
<1>2. \A w \in DOMAIN message : message[w] \in Orders
  BY OrderFields
<1> HIDE DEF message
<1>3. /\ worker' \in [Workers -> Processes]
      /\ \A w \in Workers : worker'[w].stage = worker[w].stage /\ worker'[w].task = worker[w].task
  BY <1>1, <1>2, SendDoes
<1>4. mailbox' \in Seq(Messages)
  BY <1>1, EmptySeq
<1>5. caller' \in [Callers -> Replies]
  BY DEF Gone, Answer, TypeOK, Replies
<1> QED BY <1>1, <1>3, <1>4, <1>5

LEMMA FinalizeTypes ==
    ASSUME TypeOK, PoolFits, Finalize
    PROVE  TypeOK' /\ outcome' \in Outcomes /\ outcome' # NULL
<1>1. outcome' = [kind |-> ending, report |-> Report(ending = "success")] /\ ending \in Kinds
  BY DEF Finalize, TypeOK, PoolFits
<1>2. outcome' \in Outcomes
  <2>1. /\ counters.entries \in Nat /\ counters.failures \in Nat
        /\ In("published") \in SUBSET Dirs /\ In("failed") \in SUBSET Dirs
    BY DEF TypeOK, Counters, In
  <2> QED BY <1>1, <2>1 DEF Outcomes, Report
<1>3. caller' \in [Callers -> Replies]
  BY DEF Finalize, Answer, TypeOK, Replies
<1>4. in_flight' \in [DOMAIN in_flight' -> Dirs] /\ DOMAIN in_flight' \subseteq Workers
  BY DEF Finalize
<1> QED BY <1>2, <1>3, <1>4, NULLAssumption DEF Finalize, TypeOK, Phases, store

-----------------------------------------------------------------------------
\* The steps of one worker.

OnlyWorker(w) ==
    /\ worker' \in [Workers -> Processes]
    /\ \A v \in Workers : v # w => worker'[v] = worker[v]

\* It takes a task.
TakesTask(w, d) ==
    /\ OnlyWorker(w) /\ worker[w].stage = "receiving" /\ d \in Dirs
    /\ Len(worker[w].inbox) \in Nat \ {0} /\ worker[w].inbox[1] = <<"scan", d>>
    /\ worker'[w].stage = "scanning" /\ worker'[w].task = d
    /\ Len(worker'[w].inbox) = Len(worker[w].inbox) - 1
    /\ \A k \in 1 .. Len(worker'[w].inbox) : worker'[w].inbox[k] = worker[w].inbox[k + 1]
    /\ UNCHANGED <<mailbox, store, coordinator, others>>

\* It is told to stop.
Obeys(w) ==
    /\ OnlyWorker(w) /\ worker[w].stage = "receiving"
    /\ Len(worker[w].inbox) \in Nat \ {0}
    /\ worker[w].inbox[1][1] \in {"stop", "owner_down"}
    /\ worker'[w] = Exited /\ Deliver(<<Down(w)>>)
    /\ UNCHANGED <<store, coordinator, others>>

\* Its scan returns, having published or not.
Returns(w, d, r) ==
    /\ OnlyWorker(w) /\ worker[w].stage = "scanning" /\ worker[w].task = d /\ r \in Results
    /\ worker'[w].stage = "scanned" /\ worker'[w].task = d /\ worker'[w].result = r
    /\ worker'[w].inbox = worker[w].inbox
    /\ UNCHANGED <<mailbox, coordinator, others>>

Publishes(w, d) ==
    /\ Returns(w, d, "ok") /\ d \in DOMAIN directories
    /\ Store!Complete(d, Children[d], "published")

Errs(w, d, r) == Returns(w, d, r) /\ r # "ok" /\ UNCHANGED store

\* It answers.
Answers(w, d, r) ==
    /\ OnlyWorker(w) /\ worker[w].stage = "scanned"
    /\ worker[w].task = d /\ worker[w].result = r
    /\ worker'[w].stage = "receiving" /\ worker'[w].inbox = worker[w].inbox
    /\ Deliver(<<Result(w, d, r)>>)
    /\ UNCHANGED <<store, coordinator, others>>

LEMMA ExitedForm == Exited \in Processes /\ Exited.stage = "exited" /\ Exited.inbox = <<>>
<1>1. "exited" \in Stages /\ NULL \in Dirs \cup {NULL} /\ "none" \in Results \cup {"none"}
  BY DEF Stages
<1>2. <<>> \in Seq(Orders)
  BY EmptySeq
<1> QED BY <1>1, <1>2 DEF Exited, Process, Processes

LEMMA WorkDoes ==
    ASSUME TypeOK, NEW w \in Workers, Work(w)
    PROVE  \/ \E d : TakesTask(w, d) \/ Publishes(w, d)
           \/ Obeys(w)
           \/ \E d, r : Errs(w, d, r) \/ Answers(w, d, r)
<1>1. /\ worker[w] \in Processes /\ worker[w].stage \in Stages
      /\ worker[w].task \in Dirs \cup {NULL}
      /\ worker[w].result \in Results \cup {"none"} /\ worker[w].inbox \in Seq(Orders)
  BY ProcessFields DEF TypeOK
<1>2. worker \in [Workers -> Processes]
  BY DEF TypeOK
<1>3. ASSUME NEW p \in Processes, worker' = [worker EXCEPT ![w] = p]
      PROVE  OnlyWorker(w) /\ worker'[w] = p
  BY <1>2, <1>3 DEF OnlyWorker
<1>4. CASE WorkerReceives(w)
  <2> DEFINE inbox == worker[w].inbox
             m == Head(inbox)
             rest == Tail(inbox)
  <2>1. /\ worker[w].stage = "receiving" /\ inbox # <<>> /\ UNCHANGED <<store, coordinator, others>>
        /\ \/ /\ m[1] = "scan"
              /\ worker' = [worker EXCEPT ![w] = Process("scanning", m[2], "none", rest)]
              /\ UNCHANGED mailbox
           \/ /\ m[1] \in {"stop", "owner_down"}
              /\ worker' = [worker EXCEPT ![w] = Exited]
              /\ Deliver(<<Down(w)>>)
    BY <1>4 DEF WorkerReceives
  <2>2. /\ m = inbox[1] /\ m \in Orders /\ rest \in Seq(Orders)
        /\ Len(inbox) \in Nat \ {0} /\ Len(rest) = Len(inbox) - 1
        /\ \A k \in 1 .. Len(rest) : rest[k] = inbox[k + 1]
    BY <1>1, <2>1, HeadTailProperties, EmptySeq
  <2>3. CASE m[1] = "scan"
    <3> DEFINE p == Process("scanning", m[2], "none", rest)
    <3>1. m[2] \in Dirs /\ m = <<"scan", m[2]>>
      BY <2>2, <2>3, OrderFields
    <3>2. p \in Processes /\ p.stage = "scanning" /\ p.task = m[2] /\ p.inbox = rest
      <4>1. "scanning" \in Stages /\ m[2] \in Dirs \cup {NULL} /\ "none" \in Results \cup {"none"}
        BY <3>1 DEF Stages
      <4> QED BY <2>2, <4>1 DEF Process, Processes
    <3>3. worker' = [worker EXCEPT ![w] = p] /\ UNCHANGED mailbox
      BY <2>1, <2>3
    <3> HIDE DEF p
    <3>4. OnlyWorker(w) /\ worker'[w] = p
      BY <1>3, <3>2, <3>3
    <3>5. /\ worker'[w].stage = "scanning" /\ worker'[w].task = m[2] /\ worker'[w].inbox = rest
          /\ UNCHANGED <<mailbox, store, coordinator, others>>
      BY <2>1, <3>2, <3>3, <3>4
    <3>6. inbox[1] = <<"scan", m[2]>> /\ m[2] \in Dirs
      BY <2>2, <3>1
    <3>7. TakesTask(w, m[2])
      <4> HIDE DEF m, rest
      <4> QED BY <2>1, <2>2, <3>4, <3>5, <3>6 DEF TakesTask
    <3> QED BY <3>7
  <2>4. CASE m[1] # "scan"
    <3>1. /\ worker' = [worker EXCEPT ![w] = Exited] /\ Deliver(<<Down(w)>>)
          /\ m[1] \in {"stop", "owner_down"}
      BY <2>1, <2>4
    <3>2. OnlyWorker(w) /\ worker'[w] = Exited
      BY <1>3, <3>1, ExitedForm
    <3>3. Obeys(w)
      BY <2>1, <2>2, <3>1, <3>2 DEF Obeys
    <3> QED BY <3>3
  <2> QED BY <2>3, <2>4
<1>5. CASE \E result \in Results : WorkerScans(w, result)
  <2>1. PICK result \in Results : WorkerScans(w, result)
    BY <1>5
  <2> DEFINE p == Process("scanned", worker[w].task, result, worker[w].inbox)
  <2>2. /\ p \in Processes /\ p.stage = "scanned" /\ p.task = worker[w].task
        /\ p.result = result /\ p.inbox = worker[w].inbox
    <3>1. "scanned" \in Stages /\ result \in Results \cup {"none"}
      BY DEF Stages
    <3> QED BY <1>1, <3>1 DEF Process, Processes
  <2>3. worker' = [worker EXCEPT ![w] = p]
    <3>1. worker' = [worker EXCEPT ![w].stage = "scanned", ![w].result = result]
      BY <2>1 DEF WorkerScans
    <3>2. worker[w] = [stage |-> worker[w].stage, task |-> worker[w].task,
                       result |-> worker[w].result, inbox |-> worker[w].inbox]
      BY <1>1 DEF Processes
    <3>3. p = [stage |-> "scanned", task |-> worker[w].task, result |-> result,
               inbox |-> worker[w].inbox]
      BY DEF Process
    <3>4. [worker[w] EXCEPT !.stage = "scanned"]
            = [stage |-> "scanned", task |-> worker[w].task,
               result |-> worker[w].result, inbox |-> worker[w].inbox]
      BY <1>1 DEF Processes
    <3>5. [[stage |-> "scanned", task |-> worker[w].task, result |-> worker[w].result,
            inbox |-> worker[w].inbox] EXCEPT !.result = result] = p
      BY <3>3
    <3> QED BY <1>2, <3>1, <3>4, <3>5
  <2> HIDE DEF p
  <2>4. OnlyWorker(w) /\ worker'[w] = p
    BY <1>3, <2>2, <2>3
  <2>5. Returns(w, worker[w].task, result)
    BY <2>1, <2>2, <2>4 DEF Returns, WorkerScans
  <2>6. CASE result = "ok"
    <3>1. Store!Complete(worker[w].task, Children[worker[w].task], "published")
      BY <2>1, <2>6 DEF WorkerScans
    <3>2. worker[w].task \in DOMAIN directories
      BY <3>1 DEF Store!Complete
    <3> QED BY <2>5, <2>6, <3>1, <3>2 DEF Publishes
  <2>7. CASE result # "ok"
    BY <2>1, <2>5, <2>7 DEF WorkerScans, Errs
  <2> QED BY <2>6, <2>7
<1>6. CASE WorkerSends(w)
  <2> DEFINE p == Waiting(worker[w].inbox)
  <2>1. p \in Processes /\ p.stage = "receiving" /\ p.inbox = worker[w].inbox
    <3>1. "receiving" \in Stages /\ NULL \in Dirs \cup {NULL} /\ "none" \in Results \cup {"none"}
      BY DEF Stages
    <3> QED BY <1>1, <3>1 DEF Process, Processes, Waiting
  <2>2. worker' = [worker EXCEPT ![w] = p]
    BY <1>6 DEF WorkerSends
  <2> HIDE DEF p
  <2>3. OnlyWorker(w) /\ worker'[w] = p
    BY <1>3, <2>1, <2>2
  <2>4. Answers(w, worker[w].task, worker[w].result)
    BY <1>6, <2>1, <2>3 DEF Answers, WorkerSends
  <2> QED BY <2>4
<1> QED BY <1>4, <1>5, <1>6 DEF Work

\* A worker dies.
Falls(w) ==
    /\ OnlyWorker(w) /\ Alive(w) /\ worker'[w] = Exited
    /\ orphans' = IF worker[w].stage = "scanning" THEN orphans \cup {worker[w].task} ELSE orphans
    /\ Deliver(<<Down(w)>>) /\ kills' = kills + 1
    /\ UNCHANGED <<store, coordinator, caller>>

LEMMA KillDoes ==
    ASSUME TypeOK, NEW w \in Workers, KillWorker(w)
    PROVE  Falls(w)
<1>1. worker' = [worker EXCEPT ![w] = Exited] /\ worker \in [Workers -> Processes]
  BY DEF KillWorker, TypeOK
<1>2. OnlyWorker(w) /\ worker'[w] = Exited
  BY <1>1, ExitedForm DEF OnlyWorker
<1> QED BY <1>2 DEF KillWorker, Falls

\* The NIF of a dead process completes a scan, if it can.
LEMMA OrphanDoes ==
    ASSUME TypeOK, NEW d \in Dirs, OrphanScans(d)
    PROVE  /\ d \in orphans /\ orphans' = orphans \ {d} /\ Children[d] \in SUBSET Dirs
           /\ UNCHANGED <<coordinator, mailbox, worker, kills, caller>>
           /\ \/ UNCHANGED store
              \/ /\ Store!Complete(d, Children[d], "published")
                 /\ d \in DOMAIN directories
                 /\ directories' \in [DOMAIN directories' -> States]
                 /\ DOMAIN directories' \subseteq Dirs
                 /\ Completed(directories, directories', d, Children[d], "published")
<1>1. Children[d] \in SUBSET Dirs /\ "published" \in States
  BY TreeAssumption DEF States
<1>2. CASE Store!Complete(d, Children[d], "published")
  <2>1. /\ Completed(directories, directories', d, Children[d], "published")
        /\ directories' \in [DOMAIN directories' -> States] /\ DOMAIN directories' \subseteq Dirs
    BY <1>1, <1>2, CompleteDoes
  <2> QED BY <1>1, <1>2, <2>1 DEF OrphanScans, Completed
<1> QED BY <1>1, <1>2 DEF OrphanScans

LEMMA PublishDoes ==
    ASSUME TypeOK, NEW w, NEW d, Publishes(w, d)
    PROVE  /\ d \in Dirs /\ Children[d] \in SUBSET Dirs
           /\ directories' \in [DOMAIN directories' -> States] /\ DOMAIN directories' \subseteq Dirs
           /\ Completed(directories, directories', d, Children[d], "published")
<1>1. d \in Dirs /\ "published" \in States
  BY DEF TypeOK, Publishes, States
<1>2. Children[d] \in SUBSET Dirs
  BY <1>1, TreeAssumption
<1>3. Store!Complete(d, Children[d], "published")
  BY DEF Publishes
<1> QED BY <1>1, <1>2, <1>3, CompleteDoes

\* A call adds its message.
Calls(c, request) ==
    /\ phase # "gone" /\ caller' \in [Callers -> Replies]
    /\ Adds1([type |-> request, caller |-> c])
    /\ UNCHANGED <<store, coordinator, worker, orphans, kills>>

LEMMA CallDoes ==
    ASSUME TypeOK, NEW c \in Callers,
           Call(c, "await") \/ Call(c, "put_rank_data") \/ Stop(c)
    PROVE  \E request \in Requests : Calls(c, request)
<1>1. PICK request \in Requests :
        /\ phase # "gone" /\ caller' = [caller EXCEPT ![c] = "calling"]
        /\ mailbox' = Append(mailbox, [type |-> request, caller |-> c])
        /\ UNCHANGED <<store, coordinator, worker, orphans, kills>>
  BY DEF Call, Stop, Requests
<1>2. caller' \in [Callers -> Replies]
  BY <1>1 DEF TypeOK, Replies
<1>3. [type |-> request, caller |-> c] \in Messages
  BY MessageForms
<1>4. mailbox \in Seq(Messages) /\ Len(mailbox) \in Nat
  BY LenProperties DEF TypeOK
<1>5. Adds1([type |-> request, caller |-> c])
  BY <1>1, <1>3, <1>4, AppendProperties DEF Adds1
<1> QED BY <1>1, <1>2, <1>5 DEF Calls

\* Whether the coordinator is there to receive it or not.
LEMMA DeliverTypes ==
    ASSUME TypeOK, NEW m \in Messages, Deliver(<<m>>)
    PROVE  mailbox' \in Seq(Messages) /\ (phase # "gone" => Adds1(m))
           /\ (phase = "gone" => mailbox' = mailbox)
<1>1. CASE phase = "gone"
  BY <1>1 DEF Deliver, TypeOK
<1>2. CASE phase # "gone"
  BY <1>2, DeliverAdds DEF Adds1
<1> QED BY <1>1, <1>2

LEMMA WorkTypes ==
    ASSUME TypeOK, WorkersFit, NEW w \in Workers, Work(w)
    PROVE  TypeOK'
<1>1. CASE \E d : TakesTask(w, d)
  BY <1>1 DEF TakesTask, OnlyWorker, TypeOK, store, coordinator, others
<1>2. CASE \E d : Publishes(w, d)
  <2>1. PICK d : Publishes(w, d)
    BY <1>2
  <2>2. directories' \in [DOMAIN directories' -> States] /\ DOMAIN directories' \subseteq Dirs
    BY <2>1, PublishDoes
  <2> QED BY <2>1, <2>2 DEF Publishes, Returns, OnlyWorker, TypeOK, store, coordinator, others
<1>3. CASE Obeys(w)
  <2>1. mailbox' \in Seq(Messages)
    BY <1>3, MessageForms, DeliverTypes DEF Obeys
  <2> QED BY <1>3, <2>1 DEF Obeys, OnlyWorker, TypeOK, store, coordinator, others
<1>4. CASE \E d, r : Errs(w, d, r)
  BY <1>4 DEF Errs, Returns, OnlyWorker, TypeOK, store, coordinator, others
<1>5. CASE \E d, r : Answers(w, d, r)
  <2>1. PICK d, r : Answers(w, d, r)
    BY <1>5
  <2>2. mailbox' \in Seq(Messages)
    <3>1. CASE phase = "gone"
      BY <2>1, <3>1 DEF Answers, Deliver, TypeOK
    <3>2. CASE phase # "gone"
      <4>1. d \in Dirs /\ r \in Results
        BY <2>1, <3>2 DEF WorkersFit, WorkerFits, Answers, TypeOK
      <4>2. Result(w, d, r) \in Messages
        BY <4>1, MessageForms
      <4> QED BY <2>1, <4>2, DeliverTypes DEF Answers
    <3> QED BY <3>1, <3>2
  <2> QED BY <2>1, <2>2 DEF Answers, OnlyWorker, TypeOK, store, coordinator, others
<1> QED BY <1>1, <1>2, <1>3, <1>4, <1>5, WorkDoes

\* A message is received that changes none of the coordinator's tasks.
LEMMA AwaitTypes ==
    ASSUME TypeOK, HandleAwait
    PROVE  TypeOK' /\ TakesOut(1) /\ Head(mailbox) = mailbox[1] /\ mailbox[1].type = "await"
<1>1. mailbox # <<>> /\ mailbox' = Tail(mailbox) /\ Head(mailbox).type = "await"
  BY DEF HandleAwait, Receives
<1>2. TakesOut(1) /\ Head(mailbox) = mailbox[1] /\ mailbox[1] \in Messages
  BY <1>1, TailTakesOut
<1>3. mailbox' \in Seq(Messages) /\ Head(mailbox).caller \in Callers
  BY <1>1, <1>2, MessageFields DEF TakesOut, Requests
<1>4. caller' \in [Callers -> Replies] /\ waiters' \subseteq Callers
  BY <1>3 DEF HandleAwait, Answer, TypeOK, Replies
<1> QED BY <1>1, <1>2, <1>3, <1>4 DEF HandleAwait, TypeOK, store

LEMMA TerminateTypes ==
    ASSUME TypeOK, HandleTerminate
    PROVE  TypeOK' /\ TakesOut(1) /\ mailbox[1].type = "terminate"
<1>1. mailbox # <<>> /\ mailbox' = Tail(mailbox) /\ Head(mailbox).type = "terminate"
  BY DEF HandleTerminate, Receives
<1>2. TakesOut(1) /\ Head(mailbox) = mailbox[1] /\ mailbox' \in Seq(Messages)
  BY <1>1, TailTakesOut DEF TakesOut
<1>3. StopWorkerPool(worker_references, "terminate") /\ worker_references \subseteq Workers
  BY DEF HandleTerminate, TypeOK
<1>4. /\ phase' = "stopping" /\ ending' = "terminate"
      /\ awaited' = worker_references /\ worker_references' = worker_references
      /\ worker' \in [Workers -> Processes]
  BY <1>3, StopDoes
<1> QED BY <1>1, <1>2, <1>3, <1>4 DEF HandleTerminate, TypeOK, Phases, store, others

LEMMA TypesKept ==
    ASSUME Placed, [Next]_vars
    PROVE  TypeOK'
<1>1. TypeOK /\ PoolFits /\ WorkersFit
  BY DEF Placed
<1>2. CASE StartWorkers
  BY <1>1, <1>2, StartTypes
<1>3. CASE HandleResult
  BY <1>3, ResultTypes
<1>4. CASE HandleDown
  BY <1>4, DownTypes
<1>5. CASE HandleAwait
  BY <1>1, <1>5, AwaitTypes
<1>6. CASE HandlePutRankData
  BY <1>6, RankTypes
<1>7. CASE HandleTerminate
  BY <1>1, <1>7, TerminateTypes
<1>8. CASE AwaitWorkerShutdown
  BY <1>8, ShutdownTypes
<1>9. CASE Finalize
  BY <1>1, <1>9, FinalizeTypes
<1>10. CASE Terminated
  <2>1. Gone
    BY <1>10 DEF Terminated
  <2> QED BY <1>1, <1>10, <2>1, GoneDoes DEF Terminated, TypeOK, Phases, store
<1>11. CASE KillCoordinator
  <2>1. Gone
    BY <1>11 DEF KillCoordinator
  <2> QED BY <1>1, <1>11, <2>1, GoneDoes DEF KillCoordinator, TypeOK, Phases, store
<1>12. ASSUME NEW w \in Workers, Work(w) PROVE TypeOK'
  BY <1>1, <1>12, WorkTypes
<1>13. ASSUME NEW w \in Workers, KillWorker(w) PROVE TypeOK'
  <2>1. Falls(w)
    BY <1>1, <1>13, KillDoes
  <2>2. mailbox' \in Seq(Messages)
    BY <1>1, <2>1, MessageForms, DeliverTypes DEF Falls
  <2>3. orphans' \subseteq Dirs
    <3>1. worker[w] \in Processes /\ orphans \subseteq Dirs
      BY <1>1 DEF TypeOK
    <3>2. CASE worker[w].stage # "scanning"
      BY <2>1, <3>1, <3>2 DEF Falls
    <3>3. CASE worker[w].stage = "scanning"
      <4>1. worker[w].task \in Dirs
        BY <1>1, <3>3 DEF PoolFits
      <4> QED BY <2>1, <3>1, <3>3, <4>1 DEF Falls
    <3> QED BY <3>2, <3>3
  <2> QED BY <1>1, <2>1, <2>2, <2>3 DEF Falls, OnlyWorker, TypeOK, store, coordinator
<1>14. ASSUME NEW d \in Dirs, OrphanScans(d) PROVE TypeOK'
  BY <1>1, <1>14, OrphanDoes DEF TypeOK, store, coordinator
<1>15. ASSUME NEW c \in Callers, Call(c, "await") \/ Call(c, "put_rank_data") \/ Stop(c)
       PROVE  TypeOK'
  BY SMTT(30), ZenonT(30), <1>1, <1>15, CallDoes DEF Calls, Adds1, TypeOK, store, coordinator
<1>16. CASE UNCHANGED vars
  BY SMTT(30), ZenonT(30), <1>1, <1>16 DEF vars, store, coordinator, others, TypeOK
<1> QED BY <1>2, <1>3, <1>4, <1>5, <1>6, <1>7, <1>8, <1>9, <1>10, <1>11, <1>12, <1>13, <1>14,
           <1>15, <1>16 DEF Next, Coordinate

-----------------------------------------------------------------------------
\* Almost every message that the coordinator handles does this: some workers
\* lose their tasks, what is left are the tasks busy, and then workers are told
\* to stop, or get a new task, or nothing.

\* The message at place i says that the workers of F have no task any more.
Frees(i, F, busy) ==
    /\ phase \in {"receiving", "stopping"} /\ TakesOut(i) /\ F \subseteq Workers
    /\ DOMAIN busy = DOMAIN in_flight \ F /\ busy \in [DOMAIN busy -> Dirs]
    /\ \A v \in DOMAIN busy : busy[v] = in_flight[v]
    /\ \A v \in F :
         /\ worker[v].stage \in {"receiving", "exited"}
         /\ \A k \in 1 .. Len(worker[v].inbox) : worker[v].inbox[k][1] # "scan"
    /\ \A k \in 1 .. Len(mailbox) :
         k # i /\ mailbox[k].type = "result" => mailbox[k].worker \notin F
    /\ mailbox[i].type = "result" => mailbox[i].worker \notin DOMAIN busy
    /\ \A w \in Workers \ Expecting' :
         ~ Alive(w) /\ \A k \in 1 .. Len(mailbox) : k # i => ~ FromWorker(mailbox[k], w)

StoreKeeps(busy) == \A v \in DOMAIN busy : directories'[busy[v]] = directories[busy[v]]

Moves(busy) ==
    /\ worker' \in [Workers -> Processes]
    /\ \A w \in Workers : /\ worker'[w].stage = worker[w].stage
                          /\ worker'[w].task = worker[w].task
                          /\ worker'[w].result = worker[w].result
    /\ DOMAIN in_flight' = DOMAIN busy \cup New(busy)
    /\ \A v \in DOMAIN busy : in_flight'[v] = busy[v]
    /\ New(busy) \subseteq Workers \ DOMAIN busy
    /\ \A w \in New(busy) : in_flight'[w] \in Dirs /\ directories'[in_flight'[w]] = "pending"
    /\ UNCHANGED <<outcome, kills>>
    /\ \/ /\ phase' = "stopping" /\ New(busy) = {}
          /\ \A w \in Workers :
               \/ worker'[w] = worker[w]
               \/ Alive(w) /\ worker'[w].inbox = Append(worker[w].inbox, <<"stop">>)
       \/ /\ phase' = phase /\ (New(busy) # {} => phase = "receiving" /\ ~ Ended)
          /\ \A w \in Workers :
               /\ w \notin New(busy) \/ ~ Alive(w) => worker'[w] = worker[w]
               /\ w \in New(busy) /\ Alive(w) =>
                    worker'[w].inbox = Append(worker[w].inbox, <<"scan", in_flight'[w]>>)

\* What one worker's inbox becomes.
LEMMA MoveInbox ==
    ASSUME TypeOK, NEW busy, Moves(busy), NEW w \in Workers
    PROVE  \/ worker'[w] = worker[w] /\ (w \in New(busy) => ~ Alive(w))
           \/ /\ Alive(w) /\ phase' = "stopping" /\ w \notin New(busy)
              /\ worker'[w].inbox = Append(worker[w].inbox, <<"stop">>)
           \/ /\ Alive(w) /\ phase' = phase /\ phase = "receiving" /\ ~ Ended /\ w \in New(busy)
              /\ worker'[w].inbox = Append(worker[w].inbox, <<"scan", in_flight'[w]>>)
BY SMTT(30), ZenonT(30) DEF Moves

LEMMA MoveFits ==
    ASSUME TypeOK, NEW i, NEW F, NEW busy, Frees(i, F, busy), StoreKeeps(busy), Moves(busy),
           NEW m \in Messages, Fits(m), m.type = "result" => m.worker \notin F
    PROVE  Fits(m)'
<1>1. CASE m.type = "down"
  <2>1. m.worker \in Workers
    BY <1>1, MessageFields
  <2> QED BY <1>1, <2>1 DEF Fits, Moves
<1>2. CASE m.type = "result"
  <2> DEFINE w == m.worker
  <2>1. /\ w \in Workers /\ w \in DOMAIN in_flight /\ in_flight[w] = m.task
        /\ worker[w].stage \in {"receiving", "exited"}
        /\ \A k \in 1 .. Len(worker[w].inbox) : worker[w].inbox[k][1] # "scan"
        /\ m.result = "ok" => directories[m.task] = "published"
        /\ kills = 0 /\ m.result # "ok" => directories[m.task] = "pending"
    BY <1>2, MessageFields DEF Fits
  <2>2. w \in DOMAIN busy /\ busy[w] = m.task
    BY SMTT(30), ZenonT(30), <1>2, <2>1 DEF Frees
  <2>3. /\ w \in DOMAIN in_flight' /\ in_flight'[w] = m.task
        /\ worker'[w].stage \in {"receiving", "exited"} /\ UNCHANGED kills
        /\ directories'[m.task] = directories[m.task] /\ w \notin New(busy)
    BY SMTT(30), ZenonT(30), <2>1, <2>2 DEF Moves, StoreKeeps
  <2>4. \A k \in 1 .. Len(worker'[w].inbox) : worker'[w].inbox[k][1] # "scan"
    <3>1. CASE worker'[w] = worker[w]
      BY <2>1, <3>1
    <3>2. CASE worker'[w].inbox = Append(worker[w].inbox, <<"stop">>)
      <4>1. <<"stop">> \in Orders /\ <<"stop">>[1] = "stop"
        BY SMTT(30), ZenonT(30), OrderFields
      <4>2. /\ Len(worker[w].inbox) \in Nat
            /\ Len(worker'[w].inbox) = Len(worker[w].inbox) + 1
            /\ \A k \in 1 .. Len(worker[w].inbox) : worker'[w].inbox[k] = worker[w].inbox[k]
            /\ worker'[w].inbox[Len(worker[w].inbox) + 1] = <<"stop">>
        BY SMTT(30), ZenonT(30), <2>1, <3>2, <4>1, InboxGrows
      <4>3. ASSUME NEW k \in 1 .. Len(worker'[w].inbox) PROVE worker'[w].inbox[k][1] # "scan"
        <5>1. CASE k \in 1 .. Len(worker[w].inbox)
          BY <2>1, <4>2, <5>1
        <5>2. CASE k = Len(worker[w].inbox) + 1
          BY <4>1, <4>2, <5>2
        <5>3. k \in 1 .. Len(worker[w].inbox) \/ k = Len(worker[w].inbox) + 1
          BY SMTT(30), ZenonT(30), <4>2
        <5> QED BY <5>1, <5>2, <5>3
      <4> QED BY <4>3
    <3> QED BY SMTT(30), ZenonT(30), <2>1, <2>3, <3>1, <3>2, MoveInbox
  <2> QED BY <1>2, <2>1, <2>3, <2>4 DEF Fits
<1>3. CASE m.type \notin {"result", "down"}
  BY <1>3 DEF Fits
<1> QED BY SMTT(30), ZenonT(30), <1>1, <1>2, <1>3

\* The messages that are left keep their order.
LEMMA OrderKept ==
    ASSUME TypeOK, MailFits, phase # "gone", NEW i, TakesOut(i)
    PROVE  \A j, k \in 1 .. Len(mailbox') : j < k => InOrder(mailbox'[j], mailbox'[k])
<1> SUFFICES ASSUME NEW j \in 1 .. Len(mailbox'), NEW k \in 1 .. Len(mailbox'), j < k
             PROVE  InOrder(mailbox'[j], mailbox'[k])
  OBVIOUS
<1>1. /\ Before(i, j) \in 1 .. Len(mailbox) /\ Before(i, k) \in 1 .. Len(mailbox)
      /\ mailbox'[j] = mailbox[Before(i, j)] /\ mailbox'[k] = mailbox[Before(i, k)]
  BY DEF TakesOut
<1>2. Before(i, j) < Before(i, k)
  <2>1. i \in Nat /\ j \in Nat /\ k \in Nat
    BY DEF TakesOut
  <2> QED BY <2>1 DEF Before
<1>3. InOrder(mailbox[Before(i, j)], mailbox[Before(i, k)])
  BY <1>1, <1>2 DEF MailFits
<1> QED BY <1>1, <1>3

LEMMA MoveMail ==
    ASSUME TypeOK, MailFits, NEW i, NEW F, NEW busy,
           Frees(i, F, busy), StoreKeeps(busy), Moves(busy)
    PROVE  MailFits'
<1>1. phase # "gone" /\ TakesOut(i)
  BY DEF Frees
<1>2. ASSUME NEW j \in 1 .. Len(mailbox')
      PROVE  /\ Before(i, j) \in 1 .. Len(mailbox) /\ Before(i, j) # i
             /\ mailbox'[j] = mailbox[Before(i, j)] /\ mailbox[Before(i, j)] \in Messages
             /\ Fits(mailbox[Before(i, j)])
  <2>1. /\ Before(i, j) \in 1 .. Len(mailbox) /\ Before(i, j) # i
        /\ mailbox'[j] = mailbox[Before(i, j)]
    BY <1>1 DEF TakesOut
  <2> QED BY <1>1, <2>1, ElementOfSeq DEF MailFits, TypeOK
<1>3. ASSUME NEW j \in 1 .. Len(mailbox') PROVE Fits(mailbox[j])'
  <2>1. PICK m \in Messages : m = mailbox[Before(i, j)]
    BY <1>2
  <2>2. Fits(m) /\ (m.type = "result" => m.worker \notin F)
    BY <1>2, <2>1 DEF Frees
  <2>3. Fits(m)'
    BY <2>2, MoveFits
  <2>4. mailbox'[j] = m
    BY <1>2, <2>1
  <2> QED BY <2>3, <2>4 DEF Fits
<1>4. ASSUME NEW j \in 1 .. Len(mailbox'), NEW k \in 1 .. Len(mailbox'), j < k
      PROVE  InOrder(mailbox[j], mailbox[k])'
  <2>1. InOrder(mailbox'[j], mailbox'[k])
    BY <1>1, <1>4, OrderKept
  <2> QED BY <2>1 DEF InOrder
<1>5. ASSUME NEW w \in Workers \ Expecting'
      PROVE  ~ Alive(w)' /\ \A j \in 1 .. Len(mailbox') : ~ FromWorker(mailbox[j], w)'
  <2>1. ~ Alive(w)'
    BY DEF Frees, Moves, Alive
  <2>2. \A k \in 1 .. Len(mailbox) : k # i => ~ FromWorker(mailbox[k], w)
    BY DEF Frees
  <2>3. \A j \in 1 .. Len(mailbox') : ~ FromWorker(mailbox[j], w)'
    BY <1>2, <2>2 DEF FromWorker
  <2> QED BY SMTT(30), ZenonT(30), <2>1, <2>3
<1> QED BY <1>3, <1>4, <1>5 DEF MailFits

\* What an inbox holds.
InboxFits(w, k) ==
    /\ worker[w].inbox[k][1] = "scan" =>
         /\ k = 1 /\ worker[w].stage = "receiving"
         /\ w \in DOMAIN in_flight /\ worker[w].inbox[1] = <<"scan", in_flight[w]>>
         /\ kills = 0 => directories[in_flight[w]] = "pending"
    /\ worker[w].inbox[k][1] \in {"scan", "stop"}
    /\ worker[w].inbox[k][1] = "stop" => phase = "stopping"

LEMMA MoveInboxFits ==
    ASSUME TypeOK, NEW i, NEW F, NEW busy, Frees(i, F, busy), StoreKeeps(busy), Moves(busy),
           NEW w \in Workers, WorkerFits(w)
    PROVE  \A k \in 1 .. Len(worker'[w].inbox) : InboxFits(w, k)'
<1>1. \A k \in 1 .. Len(worker[w].inbox) : InboxFits(w, k)
  BY SMTT(30), ZenonT(30) DEF WorkerFits, InboxFits
<1>2. worker'[w].stage = worker[w].stage /\ UNCHANGED kills
      /\ (phase = "stopping" => phase' = "stopping")
  BY SMTT(30), ZenonT(30) DEF Moves
<1>3. ASSUME NEW k \in 1 .. Len(worker[w].inbox), worker[w].inbox[k][1] = "scan"
      PROVE  /\ w \in DOMAIN busy /\ w \in DOMAIN in_flight' /\ in_flight'[w] = in_flight[w]
             /\ directories'[in_flight[w]] = directories[in_flight[w]]
  <2>1. w \in DOMAIN in_flight
    BY <1>1, <1>3 DEF InboxFits
  <2>2. w \in DOMAIN busy /\ busy[w] = in_flight[w]
    BY <1>3, <2>1 DEF Frees
  <2> QED BY <2>2 DEF Moves, StoreKeeps
<1>4. ASSUME NEW k \in 1 .. Len(worker[w].inbox), worker'[w].inbox[k] = worker[w].inbox[k],
             worker'[w].inbox[1] = worker[w].inbox[1]
      PROVE  InboxFits(w, k)'
  <2>1. InboxFits(w, k)
    BY <1>1
  <2> QED BY <1>2, <1>3, <1>4, <2>1 DEF InboxFits
<1>5. CASE worker'[w] = worker[w]
  BY <1>4, <1>5
<1>6. ASSUME NEW m \in Orders, worker'[w].inbox = Append(worker[w].inbox, m)
      PROVE  /\ Len(worker[w].inbox) \in Nat
             /\ Len(worker'[w].inbox) = Len(worker[w].inbox) + 1
             /\ \A k \in 1 .. Len(worker[w].inbox) :
                  worker'[w].inbox[k] = worker[w].inbox[k]
                    /\ worker'[w].inbox[1] = worker[w].inbox[1]
             /\ worker'[w].inbox[Len(worker[w].inbox) + 1] = m
             /\ \A k \in 1 .. Len(worker'[w].inbox) :
                  k \in 1 .. Len(worker[w].inbox) \/ k = Len(worker[w].inbox) + 1
  <2>1. /\ Len(worker[w].inbox) \in Nat
        /\ Len(worker'[w].inbox) = Len(worker[w].inbox) + 1
        /\ \A k \in 1 .. Len(worker[w].inbox) : worker'[w].inbox[k] = worker[w].inbox[k]
        /\ worker'[w].inbox[Len(worker[w].inbox) + 1] = m
    BY <1>6, InboxGrows
  <2>2. \A k \in 1 .. Len(worker[w].inbox) : 1 \in 1 .. Len(worker[w].inbox)
    BY <2>1
  <2>3. \A k \in 1 .. Len(worker'[w].inbox) :
                  k \in 1 .. Len(worker[w].inbox) \/ k = Len(worker[w].inbox) + 1
    BY <2>1
  <2> QED BY <2>1, <2>2, <2>3
<1>7. CASE phase' = "stopping" /\ worker'[w].inbox = Append(worker[w].inbox, <<"stop">>)
  <2>1. <<"stop">> \in Orders /\ <<"stop">>[1] = "stop"
    BY OrderFields
  <2>2. ASSUME NEW k \in 1 .. Len(worker'[w].inbox) PROVE InboxFits(w, k)'
    <3>1. CASE k \in 1 .. Len(worker[w].inbox)
      BY <1>4, <1>6, <1>7, <2>1, <3>1
    <3>2. CASE k = Len(worker[w].inbox) + 1
      <4>1. worker'[w].inbox[k] = <<"stop">>
        BY <1>6, <1>7, <2>1, <3>2
      <4>2. worker'[w].inbox[k][1] = "stop"
        BY <2>1, <4>1
      <4> QED BY <1>7, <4>2 DEF InboxFits
    <3> QED BY <1>6, <1>7, <2>1, <3>1, <3>2
  <2> QED BY <2>2
<1>8. CASE /\ Alive(w) /\ phase' = phase /\ phase = "receiving" /\ w \in New(busy)
           /\ worker'[w].inbox = Append(worker[w].inbox, <<"scan", in_flight'[w]>>)
  <2>1. w \notin DOMAIN busy /\ directories'[in_flight'[w]] = "pending" /\ in_flight'[w] \in Dirs
        /\ w \in DOMAIN in_flight'
    BY <1>8 DEF Moves, New
  <2>2. <<"scan", in_flight'[w]>> \in Orders /\ <<"scan", in_flight'[w]>>[1] = "scan"
    BY <2>1, OrderFields
  <2>3. ASSUME NEW k \in 1 .. Len(worker[w].inbox) PROVE FALSE
    <3>1. InboxFits(w, k)
      BY <1>1
    <3>2. worker[w].inbox[k][1] = "scan"
      BY <1>8, <3>1 DEF InboxFits
    <3> QED BY <1>3, <2>1, <3>2
  <2>4. /\ Len(worker[w].inbox) = 0 /\ Len(worker'[w].inbox) = 1
        /\ worker'[w].inbox[1] = <<"scan", in_flight'[w]>>
    <3>1. /\ Len(worker[w].inbox) \in Nat
          /\ Len(worker'[w].inbox) = Len(worker[w].inbox) + 1
          /\ worker'[w].inbox[Len(worker[w].inbox) + 1] = <<"scan", in_flight'[w]>>
      BY <1>6, <1>8, <2>2
    <3>2. Len(worker[w].inbox) = 0
      <4>1. SUFFICES ASSUME Len(worker[w].inbox) # 0 PROVE FALSE
        OBVIOUS
      <4>2. 1 \in 1 .. Len(worker[w].inbox)
        BY <3>1, <4>1
      <4> QED BY <2>3, <4>2
    <3> QED BY <3>1, <3>2
  <2>5. worker'[w].stage = "receiving"
    <3>1. worker[w].stage \in {"receiving", "scanning", "scanned"}
      BY <1>8, ProcessFields DEF Alive, Stages, TypeOK
    <3>2. worker[w].stage \in {"scanning", "scanned"} => w \in DOMAIN in_flight
      BY DEF WorkerFits
    <3>3. w \in DOMAIN in_flight => w \in F
      BY <2>1 DEF Frees
    <3>4. w \in F => worker[w].stage \in {"receiving", "exited"}
      BY DEF Frees
    <3> QED BY <1>2, <3>1, <3>2, <3>3, <3>4
  <2>6. ASSUME NEW k \in 1 .. Len(worker'[w].inbox) PROVE InboxFits(w, k)'
    <3>1. k = 1 /\ worker'[w].inbox[k][1] = "scan"
      BY <2>2, <2>4
    <3> QED BY <2>1, <2>4, <2>5, <3>1 DEF InboxFits
  <2> QED BY <2>6
<1> QED BY SMTT(30), ZenonT(30), <1>5, <1>7, <1>8, MoveInbox

LEMMA MoveWorkers ==
    ASSUME TypeOK, WorkersFit, NEW i, NEW F, NEW busy,
           Frees(i, F, busy), StoreKeeps(busy), Moves(busy)
    PROVE  WorkersFit'
<1> SUFFICES ASSUME NEW w \in Workers PROVE WorkerFits(w)'
  BY DEF WorkersFit
<1>1. WorkerFits(w) /\ phase \in {"receiving", "stopping"}
  BY SMTT(30), ZenonT(30) DEF WorkersFit, Frees
<1>2. /\ worker'[w].stage = worker[w].stage /\ worker'[w].task = worker[w].task
      /\ worker'[w].result = worker[w].result /\ UNCHANGED <<kills, outcome>>
      /\ phase' = "stopping" \/ phase' = phase
  BY DEF Moves
<1>3. \A k \in 1 .. Len(worker'[w].inbox) : InboxFits(w, k)'
  BY <1>1, MoveInboxFits
<1>4. worker[w].stage \in {"scanning", "scanned"} =>
        /\ w \in DOMAIN in_flight' /\ in_flight'[w] = worker[w].task
        /\ directories'[worker[w].task] = directories[worker[w].task]
  <2>1. SUFFICES ASSUME worker[w].stage \in {"scanning", "scanned"}
                 PROVE  /\ w \in DOMAIN in_flight' /\ in_flight'[w] = worker[w].task
                        /\ directories'[worker[w].task] = directories[worker[w].task]
    OBVIOUS
  <2>2. w \in DOMAIN in_flight /\ in_flight[w] = worker[w].task
    BY SMTT(30), ZenonT(30), <1>1, <2>1 DEF WorkerFits
  <2>3. w \in DOMAIN busy /\ busy[w] = in_flight[w]
    BY SMTT(30), ZenonT(30), <2>1, <2>2 DEF Frees
  <2>4. w \in DOMAIN in_flight' /\ in_flight'[w] = busy[w]
    BY <2>3 DEF Moves
  <2>5. directories'[busy[w]] = directories[busy[w]]
    BY <2>3 DEF StoreKeeps
  <2> QED BY <2>2, <2>3, <2>4, <2>5
<1>5. worker[w].stage \in {"unborn", "exited"} => worker'[w].inbox = <<>>
  <2>1. worker[w].stage \in {"unborn", "exited"} => worker'[w] = worker[w]
    BY MoveInbox DEF Alive
  <2> QED BY <1>1, <2>1 DEF WorkerFits
<1>6. worker[w].stage # "unborn"
  BY <1>1 DEF WorkerFits
<1>7. kills = 0 /\ phase' = "receiving" /\ ~ Ended' => Alive(w)'
  BY <1>1, <1>2 DEF WorkerFits, Ended, Alive
<1>8. /\ worker[w].stage = "scanned" => worker[w].result \in Results
      /\ worker[w].stage = "scanned" /\ worker[w].result = "ok" =>
           directories'[worker[w].task] = "published"
      /\ worker[w].stage = "scanned" /\ worker[w].result # "ok" /\ kills = 0 =>
           directories'[worker[w].task] = "pending"
      /\ worker[w].stage = "scanning" /\ kills = 0 => directories'[worker[w].task] = "pending"
  BY <1>1, <1>4 DEF WorkerFits
<1> QED BY <1>2, <1>3, <1>4, <1>5, <1>6, <1>7, <1>8 DEF WorkerFits, InboxFits

LEMMA MoveHeld ==
    ASSUME TypeOK, WorkersFit, HeldFits, NEW i, NEW F, NEW busy,
           Frees(i, F, busy), StoreKeeps(busy), Moves(busy)
    PROVE  HeldFits'
<1> SUFFICES ASSUME kills' = 0, NEW w \in DOMAIN in_flight'
             PROVE  \/ worker'[w].stage \in {"scanning", "scanned"}
                    \/ \E k \in 1 .. Len(worker'[w].inbox) : worker'[w].inbox[k][1] = "scan"
                    \/ \E j \in 1 .. Len(mailbox') :
                         mailbox'[j].type = "result" /\ mailbox'[j].worker = w
  BY SMTT(30), ZenonT(30) DEF HeldFits
<1>1. kills = 0 /\ phase # "gone"
  BY DEF Moves, Frees
<1>2. CASE w \in DOMAIN busy
  <2>1. w \in DOMAIN in_flight /\ w \in Workers
    BY SMTT(30), ZenonT(30), <1>2 DEF Frees, TypeOK
  <2>2. \/ worker[w].stage \in {"scanning", "scanned"}
        \/ \E k \in 1 .. Len(worker[w].inbox) : worker[w].inbox[k][1] = "scan"
        \/ \E j \in 1 .. Len(mailbox) : mailbox[j].type = "result" /\ mailbox[j].worker = w
    BY SMTT(30), ZenonT(30), <1>1, <2>1 DEF HeldFits
  <2>3. CASE worker[w].stage \in {"scanning", "scanned"}
    BY <2>1, <2>3 DEF Moves
  <2>4. CASE \E k \in 1 .. Len(worker[w].inbox) : worker[w].inbox[k][1] = "scan"
    <3>1. PICK k \in 1 .. Len(worker[w].inbox) : worker[w].inbox[k][1] = "scan"
      BY <2>4
    <3>2. CASE worker'[w] = worker[w]
      BY <3>1, <3>2
    <3>3. CASE worker'[w].inbox = Append(worker[w].inbox, <<"stop">>)
      <4>1. /\ Len(worker[w].inbox) \in Nat
            /\ Len(worker'[w].inbox) = Len(worker[w].inbox) + 1
            /\ worker'[w].inbox[k] = worker[w].inbox[k]
        BY <2>1, <3>1, <3>3, OrderFields, InboxGrows
      <4>2. k \in 1 .. Len(worker'[w].inbox)
        BY <3>1, <4>1
      <4> QED BY <3>1, <4>1, <4>2
    <3>4. w \notin New(busy)
      BY <1>2 DEF New
    <3> QED BY <2>1, <3>2, <3>3, <3>4, MoveInbox
  <2>5. CASE \E j \in 1 .. Len(mailbox) : mailbox[j].type = "result" /\ mailbox[j].worker = w
    <3>1. PICK k \in 1 .. Len(mailbox) : mailbox[k].type = "result" /\ mailbox[k].worker = w
      BY <2>5
    <3>2. k # i
      BY <1>2, <3>1 DEF Frees
    <3>3. \E j \in 1 .. Len(mailbox') : mailbox'[j] = mailbox[k]
      BY <3>1, <3>2 DEF Frees, TakesOut
    <3> QED BY <3>1, <3>3
  <2> QED BY <2>2, <2>3, <2>4, <2>5
<1>3. CASE w \in New(busy)
  <2>1. phase = "receiving" /\ ~ Ended /\ w \in Workers /\ in_flight'[w] \in Dirs
    BY <1>3 DEF Moves
  <2>2. Alive(w)
    BY <1>1, <2>1 DEF WorkersFit, WorkerFits
  <2>3. worker'[w].inbox = Append(worker[w].inbox, <<"scan", in_flight'[w]>>)
    BY <1>3, <2>1, <2>2, MoveInbox
  <2>4. <<"scan", in_flight'[w]>> \in Orders /\ <<"scan", in_flight'[w]>>[1] = "scan"
    BY <2>1, OrderFields
  <2>5. /\ Len(worker[w].inbox) \in Nat
        /\ Len(worker'[w].inbox) = Len(worker[w].inbox) + 1
        /\ worker'[w].inbox[Len(worker[w].inbox) + 1] = <<"scan", in_flight'[w]>>
    BY SMTT(30), ZenonT(30), <2>1, <2>3, <2>4, InboxGrows
  <2>6. Len(worker[w].inbox) + 1 \in 1 .. Len(worker'[w].inbox)
    BY <2>5
  <2> QED BY SMTT(30), ZenonT(30), <2>4, <2>5, <2>6
<1>4. w \in DOMAIN busy \/ w \in New(busy)
  BY DEF New
<1> QED BY <1>2, <1>3, <1>4

-----------------------------------------------------------------------------
\* What dispatch_and_finish leaves behind, and finish_fatal.

LEMMA DispatchMoves ==
    ASSUME TypeOK, TypeOK', phase = "receiving", ~ Ended, worker_references = Workers,
           ending = "none", UNCHANGED <<outcome, kills>>,
           NEW tasks \in SUBSET Dirs, NEW idle \in SUBSET Workers, NEW busy,
           DOMAIN busy \subseteq Workers, busy \in [DOMAIN busy -> Dirs],
           idle = Workers \ DOMAIN busy,
           Divided(directories', tasks, busy), Apart(directories', busy),
           DispatchAndFinish(tasks, idle, busy)
    PROVE  /\ Moves(busy) /\ Expecting' = Workers /\ worker_references' = Workers
           /\ Divided(directories', queued', in_flight') /\ Apart(directories', in_flight')
           /\ queued' \subseteq tasks /\ DOMAIN busy \subseteq DOMAIN in_flight'
           /\ \A w \in DOMAIN busy : in_flight'[w] = busy[w]
           /\ \A w \in DOMAIN in_flight' : w \notin DOMAIN busy => in_flight'[w] \in tasks
           /\ \/ /\ phase' = "receiving" /\ ending' = "none"
                 /\ idle_workers' = Workers \ DOMAIN in_flight'
                 /\ in_flight' # <<>> /\ (queued' = {} \/ idle_workers' = {})
              \/ /\ phase' = "stopping" /\ ending' = "success"
                 /\ awaited' = Workers /\ in_flight' = <<>> /\ queued' = {}
<1>1. HandsOut(tasks, idle, busy) /\ Tells(busy)
  BY DispatchDoes
<1>2. DOMAIN busy \subseteq DOMAIN in_flight' /\ New(busy) = DOMAIN in_flight' \ DOMAIN busy
  BY <1>1 DEF HandsOut, New
<1>3. /\ Divided(directories', queued', in_flight') /\ Apart(directories', in_flight')
      /\ \A w \in DOMAIN in_flight' \ DOMAIN busy : directories'[in_flight'[w]] = "pending"
  <2>1. HandedOut(tasks, busy, queued', in_flight')
    BY <1>1, <1>2 DEF HandsOut, HandedOut
  <2> QED BY <2>1, DividedHandsOut
<1>4. /\ worker' \in [Workers -> Processes]
      /\ \A w \in Workers : /\ worker'[w].stage = worker[w].stage
                            /\ worker'[w].task = worker[w].task
                            /\ worker'[w].result = worker[w].result
      /\ DOMAIN in_flight' = DOMAIN busy \cup New(busy)
      /\ \A v \in DOMAIN busy : in_flight'[v] = busy[v]
      /\ New(busy) \subseteq Workers \ DOMAIN busy
      /\ \A w \in New(busy) : in_flight'[w] \in Dirs /\ directories'[in_flight'[w]] = "pending"
      /\ idle_workers' = Workers \ DOMAIN in_flight' /\ (queued' = {} \/ idle_workers' = {})
  BY <1>1, <1>2, <1>3 DEF HandsOut, Tells, New
<1>5. CASE DOMAIN in_flight' = {} /\ queued' = {} /\ StopWorkerPool(worker_references, "success")
  <2>1. /\ phase' = "stopping" /\ ending' = "success" /\ awaited' = Workers
        /\ worker_references' = Workers
        /\ \A w \in Workers :
                /\ w \notin Workers \/ ~ Alive(w) => worker'[w] = worker[w]
                /\ w \in Workers /\ Alive(w) =>
                     worker'[w].inbox = Append(worker[w].inbox, <<"stop">>)
    BY <1>5, StopDoes
  <2>2. New(busy) = {}
    BY <1>5 DEF New
  <2>3. Moves(busy)
    BY <1>4, <2>1, <2>2 DEF Moves
  <2>4. in_flight' = <<>>
    BY <1>5 DEF TypeOK
  <2>5. Expecting' = Workers
    BY <2>1 DEF Expecting
  <2>6. queued' = {}
    BY <1>5
  <2> QED BY <1>1, <1>2, <1>3, <2>1, <2>3, <2>4, <2>5, <2>6 DEF HandsOut
<1>6. CASE /\ ~ (DOMAIN in_flight' = {} /\ queued' = {})
           /\ UNCHANGED <<phase, ending, awaited, worker_references>>
           /\ \A w \in Workers :
                /\ w \notin New(busy) \/ ~ Alive(w) => worker'[w] = worker[w]
                /\ w \in New(busy) /\ Alive(w) =>
                     worker'[w].inbox = Append(worker[w].inbox, <<"scan", in_flight'[w]>>)
  <2>1. Moves(busy)
    BY <1>4, <1>6 DEF Moves
  <2>2. Expecting' = Workers /\ worker_references' = Workers
    BY <1>6 DEF Expecting
  <2>3. in_flight' # <<>>
    <3>1. SUFFICES ASSUME DOMAIN in_flight' = {} PROVE FALSE
      OBVIOUS
    <3>2. idle_workers' = Workers
      BY <1>4, <3>1
    <3> QED BY <1>4, <1>6, <3>1, <3>2, PoolAssumption
  <2>4. phase' = "receiving" /\ ending' = "none"
    BY <1>6
  <2> QED BY <1>1, <1>2, <1>3, <1>4, <2>1, <2>2, <2>3, <2>4 DEF HandsOut
<1> QED BY <1>1, <1>5, <1>6 DEF Tells

LEMMA StopMoves ==
    ASSUME TypeOK, NEW busy, NEW references \in SUBSET Workers, NEW kind,
           in_flight' = busy, StopWorkerPool(references, kind), UNCHANGED <<outcome, kills>>
    PROVE  /\ Moves(busy) /\ Expecting' = references /\ worker_references' = references
           /\ phase' = "stopping" /\ ending' = kind /\ awaited' = references
<1>1. /\ phase' = "stopping" /\ ending' = kind
           /\ awaited' = references /\ worker_references' = references
           /\ worker' \in [Workers -> Processes]
           /\ \A w \in Workers :
                /\ worker'[w].stage = worker[w].stage /\ worker'[w].task = worker[w].task
                /\ worker'[w].result = worker[w].result
                /\ w \notin references \/ ~ Alive(w) => worker'[w] = worker[w]
                /\ w \in references /\ Alive(w) =>
                     worker'[w].inbox = Append(worker[w].inbox, <<"stop">>)
  BY StopDoes
<1>2. New(busy) = {}
  BY DEF New
<1>3. Moves(busy)
  BY <1>1, <1>2 DEF Moves
<1> QED BY <1>1, <1>3 DEF Expecting

\* The coordinator goes on receiving, or it stops its pool.
GoesOn ==
    /\ phase' = "receiving" /\ ending' = "none"
    /\ ~ Ended => worker_references' = Workers /\ idle_workers' = Workers \ DOMAIN in_flight'
Stops ==
    /\ phase' = "stopping" /\ awaited' \subseteq worker_references'
    /\ ending' \notin {"none", "mismatch"}
    /\ ending' = "success" => in_flight' = <<>> /\ queued' = {}

\* The clauses about the pool, of a step like this.
LEMMA MovePool ==
    ASSUME PoolFits, NEW busy, Moves(busy), UNCHANGED <<root_open, orphans>>,
           phase \in {"receiving", "stopping"},
           GoesOn \/ Stops
    PROVE  PoolFits'
<1>1. /\ phase' # "starting" /\ phase' # "gone" /\ (Ended' <=> Ended) /\ UNCHANGED kills
  BY SMTT(30), ZenonT(30) DEF Moves, Ended
<1>2. \A w \in Workers : /\ (Alive(w)' <=> Alive(w))
                         /\ worker'[w].stage = "scanning" => worker'[w].task \in Dirs
  BY DEF Moves, Alive, PoolFits
<1>3. /\ ~ root_open' => \A w \in Workers : ~ Alive(w)'
      /\ kills' = 0 => orphans' = {}
  BY <1>1, <1>2 DEF PoolFits
<1> QED BY SMTT(30), ZenonT(30), <1>1, <1>2, <1>3 DEF PoolFits, GoesOn, Stops

LEMMA MoveOrphans ==
    ASSUME OrphansFit, NEW i, NEW F, NEW busy, Frees(i, F, busy), Moves(busy),
           TypeOK, UNCHANGED orphans, \A w \in New(busy) : in_flight'[w] \notin orphans
    PROVE  OrphansFit'
<1> SUFFICES ASSUME NEW w \in DOMAIN in_flight', in_flight'[w] \in orphans
             PROVE  /\ worker'[w].stage = "exited"
                    /\ \A j \in 1 .. Len(mailbox') :
                         ~ (mailbox'[j].type = "result" /\ mailbox'[j].worker = w)
  BY SMTT(30), ZenonT(30) DEF OrphansFit
<1>1. w \in DOMAIN busy /\ w \in DOMAIN in_flight /\ in_flight[w] = in_flight'[w] /\ w \in Workers
  BY DEF New, Moves, Frees, TypeOK
<1>2. /\ worker[w].stage = "exited"
      /\ \A j \in 1 .. Len(mailbox) : ~ (mailbox[j].type = "result" /\ mailbox[j].worker = w)
  BY <1>1 DEF OrphansFit, Frees
<1>3. \A j \in 1 .. Len(mailbox') : \E k \in 1 .. Len(mailbox) : mailbox'[j] = mailbox[k]
  <2>1. TakesOut(i)
    BY SMTT(30), ZenonT(30) DEF Frees
  <2> QED BY <2>1 DEF TakesOut
<1>4. worker'[w].stage = worker[w].stage
  BY <1>1 DEF Moves
<1> QED BY SMTT(30), ZenonT(30), <1>2, <1>3, <1>4

-----------------------------------------------------------------------------
\* The handling of a message before the traversal has ended.
Proceeds(i, F, busy) ==
    /\ Frees(i, F, busy) /\ StoreKeeps(busy) /\ Moves(busy)
    /\ ~ Ended /\ UNCHANGED <<outcome, root_open, orphans, kills>>
    /\ Apart(directories', in_flight')
    /\ \A w \in New(busy) : in_flight'[w] \notin orphans
    /\ \/ /\ phase' = "receiving" /\ ending' = "none"
          /\ worker_references' = Workers /\ idle_workers' = Workers \ DOMAIN in_flight'
          /\ in_flight' # <<>> /\ (queued' = {} \/ idle_workers' = {})
          /\ Divided(directories', queued', in_flight') /\ orphans \subseteq Ranging(in_flight')
       \/ /\ phase' = "stopping" /\ awaited' \subseteq worker_references'
          /\ ending' \notin {"none", "mismatch"}
          /\ ending' = "success" =>
               in_flight' = <<>> /\ queued' = {} /\ orphans = {} /\ In("pending")' = {}

\* What a step keeps of the invariant, but for the store and the counters.
StillPlaced ==
    /\ PoolFits' /\ MailFits' /\ WorkersFit' /\ HeldFits' /\ TasksFit' /\ OrphansFit'
    /\ EndFits' /\ WorkConserving'

LEMMA ProceedsKeeps ==
    ASSUME Placed, NEW i, NEW F, NEW busy, Proceeds(i, F, busy)
    PROVE  StillPlaced
<1>1. /\ TypeOK /\ PoolFits /\ MailFits /\ WorkersFit /\ HeldFits /\ TasksFit /\ OrphansFit
      /\ Frees(i, F, busy) /\ StoreKeeps(busy) /\ Moves(busy)
      /\ ~ Ended /\ UNCHANGED <<outcome, root_open, orphans, kills>>
      /\ ~ Ended' /\ phase \in {"receiving", "stopping"}
  BY DEF Placed, Proceeds, Frees, Ended
<1>2. MailFits' /\ WorkersFit' /\ HeldFits'
  BY <1>1, MoveMail, MoveWorkers, MoveHeld
<1>3. PoolFits'
  <2>0. PoolFits /\ Moves(busy) /\ phase \in {"receiving", "stopping"}
    BY <1>1
  <2>1. GoesOn \/ Stops
    BY DEF Proceeds, GoesOn, Stops
  <2>2. UNCHANGED <<root_open, orphans>>
    BY <1>1
  <2> QED BY <2>0, <2>1, <2>2, MovePool
<1>4. OrphansFit'
  <2>1. UNCHANGED orphans /\ \A w \in New(busy) : in_flight'[w] \notin orphans
    BY DEF Proceeds
  <2> QED BY <1>1, <2>1, MoveOrphans
<1>5. TasksFit'
  <2>1. Apart(directories', in_flight')
    BY DEF Proceeds
  <2>2. Running' => Divided(directories', queued', in_flight') /\ orphans' \subseteq Assigned'
    BY DEF Proceeds, Running, Assigned
  <2>3. phase' = "stopping" /\ ending' = "success" => orphans' = {} /\ In("pending")' = {}
    BY DEF Proceeds
  <2> QED BY <2>1, <2>2, <2>3 DEF TasksFit
<1>6. EndFits'
  BY <1>1 DEF EndFits
<1>7. WorkConserving'
  BY DEF Proceeds, WorkConserving
<1> QED BY <1>2, <1>3, <1>4, <1>5, <1>6, <1>7 DEF StillPlaced

\* A message that changes nothing but the calls that are waited for.
LEMMA IgnoredKeeps ==
    ASSUME Placed, WorkConserving, TakesOut(1), phase = "receiving", mailbox[1].type \in Requests,
           UNCHANGED <<directories, queued, in_flight, idle_workers, worker_references, outcome,
                       phase, ending, awaited, root_open, worker, orphans, kills>>
    PROVE  StillPlaced
<1>1. /\ TypeOK /\ PoolFits /\ MailFits /\ WorkersFit /\ HeldFits /\ TasksFit /\ OrphansFit
      /\ EndFits
  BY DEF Placed
<1>2. mailbox[1].type \notin {"result", "down"}
  BY DEF Requests
<1>3. Frees(1, {}, in_flight)
  <2>1. in_flight \in [DOMAIN in_flight -> Dirs] /\ DOMAIN in_flight = DOMAIN in_flight \ {}
    BY <1>1 DEF TypeOK
  <2>2. \A w \in Workers \ Expecting' :
         ~ Alive(w) /\ \A k \in 1 .. Len(mailbox) : k # 1 => ~ FromWorker(mailbox[k], w)
    BY <1>1 DEF MailFits, Expecting
  <2> QED BY <1>2, <2>1, <2>2 DEF Frees
<1>4. StoreKeeps(in_flight) /\ New(in_flight) = {}
  BY DEF StoreKeeps, New
<1>5. Moves(in_flight)
  BY <1>1, <1>4 DEF Moves, TypeOK
<1>6. MailFits' /\ WorkersFit' /\ HeldFits' /\ OrphansFit'
  <2>1. UNCHANGED orphans /\ \A w \in New(in_flight) : in_flight'[w] \notin orphans
    BY <1>4
  <2> QED BY <1>1, <1>3, <1>4, <1>5, <2>1, MoveMail, MoveWorkers, MoveHeld, MoveOrphans
<1>7. PoolFits'
  BY <1>1 DEF PoolFits, Ended, Alive
<1>8. TasksFit'
  BY <1>1 DEF TasksFit, Counting, Running, Ended, Assigned, In
<1>9. EndFits' /\ WorkConserving'
  BY <1>1 DEF EndFits, WorkConserving, Ended, Alive
<1> QED BY <1>6, <1>7, <1>8, <1>9 DEF StillPlaced

\* What a result about d changes in the store and in the counters.
Accounts(d, r) ==
    \/ r = "ok" /\ counters' = Merged(counters, d) /\ directories' = directories
    \/ Store!Complete(d, {}, "failed") /\ counters' = FailureRecorded(counters)
    \/ /\ r # "ok" /\ directories' = directories /\ counters' = counters
       /\ phase' = "stopping" /\ ending' # "success"

LEMMA ResultProceeds ==
    ASSUME Placed, HandleResult, TypeOK'
    PROVE  \E w, d, r : Replied(w, d, r) /\ Accounts(d, r) /\ Proceeds(1, {w}, Without(in_flight, w))
<1>1. PICK w, d, r :
             /\ Replied(w, d, r)
             /\ HandleWorkerResult(d, r, idle_workers \cup {w}, Without(in_flight, w))
             /\ UNCHANGED <<waiters, outcome, root_open, orphans, kills, caller>>
  BY ResultReceived
<1> DEFINE busy == Without(in_flight, w)
           idle == idle_workers \cup {w}
<1>2. /\ w \in Workers /\ d \in Dirs /\ r \in Results /\ TakesOut(1)
      /\ phase = "receiving" /\ ~ Ended /\ Running /\ Counting
      /\ mailbox[1] \in Messages /\ mailbox[1].type = "result" /\ mailbox[1].worker = w
      /\ w \in DOMAIN in_flight /\ in_flight[w] = d
      /\ worker[w].stage \in {"receiving", "exited"}
      /\ \A k \in 1 .. Len(worker[w].inbox) : worker[w].inbox[k][1] # "scan"
      /\ r = "ok" => directories[d] = "published"
      /\ idle = Workers \ DOMAIN busy
      /\ worker_references = Workers /\ ending = "none"
      /\ UNCHANGED <<waiters, outcome, root_open, orphans, kills, caller>>
  BY <1>1 DEF Replied, Running, Counting
<1>3. TypeOK /\ TasksFit /\ MailFits /\ OrphansFit
  BY DEF Placed
<1>4. /\ DOMAIN busy = DOMAIN in_flight \ {w}
      /\ DOMAIN busy \subseteq Workers /\ busy \in [DOMAIN busy -> Dirs]
      /\ \A v \in DOMAIN busy : busy[v] = in_flight[v]
  BY <1>2, <1>3, WithoutDoes
<1>5. HandleWorkerResult(d, r, idle, busy) /\ idle \in SUBSET Workers
  BY <1>1, <1>2
<1> HIDE DEF busy, idle
<1>6. /\ Apart(directories, in_flight) /\ Divided(directories, queued, in_flight)
      /\ orphans \subseteq Ranging(in_flight)
      /\ Others(in_flight, w, busy)
  BY <1>2, <1>3, <1>4 DEF TasksFit, Others, Assigned
<1>7. Ranging(in_flight) = Ranging(busy) \cup {d} /\ d \notin Ranging(busy)
  BY <1>2, <1>6, OthersRange
<1>8. d \notin orphans /\ orphans \subseteq Ranging(busy)
  <2>1. 1 \in 1 .. Len(mailbox)
    BY <1>2 DEF TakesOut
  <2>2. d \notin orphans
    BY <1>2, <1>3, <2>1 DEF OrphansFit
  <2> QED BY <1>6, <1>7, <2>2
<1>9. DOMAIN directories \subseteq Dirs /\ queued \subseteq Dirs /\ Children[d] \subseteq Dirs
  BY <1>2, <1>3, TreeAssumption DEF TypeOK
<1>10. Expecting' = Workers => Frees(1, {w}, busy)
  <2>1. ASSUME NEW k \in 1 .. Len(mailbox), k # 1, mailbox[k].type = "result"
        PROVE  mailbox[k].worker \notin {w}
    <3>1. 1 \in 1 .. Len(mailbox) /\ 1 < k
      BY <1>2, <2>1 DEF TakesOut
    <3>2. InOrder(mailbox[1], mailbox[k])
      BY <1>2, <1>3, <3>1 DEF MailFits
    <3> QED BY <1>2, <2>1, <3>2 DEF InOrder
  <2> QED BY <1>2, <1>4, <2>1 DEF Frees
\* The store agrees with what the others have.
<1>11. /\ StoreKeeps(busy) /\ Apart(directories', busy)
       /\ r = "ok" => Divided(directories', queued \cup Children[d], busy)
       /\ UNCHANGED store \/ Divided(directories', queued, busy)
  <2>1. CASE UNCHANGED store
    <3>1. directories' = directories
      BY <2>1 DEF store
    <3>2. StoreKeeps(busy) /\ Apart(directories', busy)
      BY <1>4, <1>6, <3>1 DEF StoreKeeps, Apart
    <3>3. r = "ok" => Divided(directories, queued \cup Children[d], busy)
      BY <1>2, <1>6, <1>9, DividedQueues
    <3> QED BY <2>1, <3>1, <3>2, <3>3
  <2>2. CASE Store!Complete(d, {}, "failed") /\ r # "ok"
    <3>1. Completed(directories, directories', d, {}, "failed")
      <4>1. {} \in SUBSET Dirs /\ "failed" \in States
        BY DEF States
      <4> QED BY <1>3, <2>2, <4>1, CompleteDoes
    <3>2. Completed(directories, directories', in_flight[w], {}, "failed")
      BY <1>2, <3>1
    <3>3. Divided(directories', queued, busy) /\ Apart(directories', busy)
      BY <1>6, <3>2, DividedFails
    <3>4. StoreKeeps(busy)
      <4>1. ASSUME NEW v \in DOMAIN busy PROVE directories'[busy[v]] = directories[busy[v]]
        <5>1. busy[v] # d /\ busy[v] \in DOMAIN directories
          BY <1>4, <1>6, <1>7 DEF Apart, Ranging
        <5> QED BY <3>1, <5>1 DEF Completed
      <4> QED BY <4>1 DEF StoreKeeps
    <3> QED BY <2>2, <3>3, <3>4
  <2> QED BY <1>5, <2>1, <2>2 DEF HandleWorkerResult, store
<1>12. ASSUME NEW tasks \in SUBSET Dirs, Divided(directories', tasks, busy),
              tasks \cap orphans = {}, DispatchAndFinish(tasks, idle, busy)
       PROVE  Proceeds(1, {w}, busy)
  <2>1. /\ Moves(busy) /\ Expecting' = Workers /\ worker_references' = Workers
        /\ Divided(directories', queued', in_flight') /\ Apart(directories', in_flight')
        /\ queued' \subseteq tasks /\ DOMAIN busy \subseteq DOMAIN in_flight'
        /\ \A v \in DOMAIN busy : in_flight'[v] = busy[v]
        /\ \A v \in DOMAIN in_flight' : v \notin DOMAIN busy => in_flight'[v] \in tasks
        /\ \/ /\ phase' = "receiving" /\ ending' = "none"
              /\ idle_workers' = Workers \ DOMAIN in_flight'
              /\ in_flight' # <<>> /\ (queued' = {} \/ idle_workers' = {})
           \/ /\ phase' = "stopping" /\ ending' = "success"
              /\ awaited' = Workers /\ in_flight' = <<>> /\ queued' = {}
    <3>1. UNCHANGED <<outcome, kills>> /\ idle = Workers \ DOMAIN busy
      BY <1>2
    <3> QED BY <1>2, <1>3, <1>4, <1>5, <1>11, <1>12, <3>1, DispatchMoves
  <2>2. orphans \subseteq Ranging(in_flight')
    BY <1>8, <2>1 DEF Ranging
  <2>3. \A v \in New(busy) : in_flight'[v] \notin orphans
    BY <1>12, <2>1 DEF New
  <2>4. in_flight' = <<>> /\ queued' = {} => orphans = {} /\ In("pending")' = {}
    <3>1. SUFFICES ASSUME in_flight' = <<>>, queued' = {}
                   PROVE  orphans = {} /\ In("pending")' = {}
      OBVIOUS
    <3>2. Ranging(in_flight') = {}
      <4>1. DOMAIN in_flight' = {}
        BY <3>1
      <4> QED BY <4>1 DEF Ranging
    <3>3. Announced(directories', in_flight') = {}
      BY <3>2 DEF Announced
    <3>4. {e \in DOMAIN directories' : directories'[e] = "pending"} = {}
      BY <2>1, <3>1, <3>2, <3>3 DEF Divided
    <3> QED BY <2>2, <3>2, <3>4 DEF In
  <2> QED BY <1>2, <1>10, <1>11, <2>1, <2>2, <2>3, <2>4 DEF Proceeds
<1>13. ASSUME NEW kind \in {"ranking", "store", "directory"},
              FinishFatal(queued, idle, busy, worker_references, kind)
       PROVE  Proceeds(1, {w}, busy)
  <2>1. /\ in_flight' = busy /\ StopWorkerPool(worker_references, kind)
        /\ UNCHANGED <<outcome, kills>> /\ worker_references \in SUBSET Workers
    BY <1>2, <1>13 DEF FinishFatal
  <2>2. /\ Moves(busy) /\ Expecting' = Workers /\ worker_references' = Workers
        /\ phase' = "stopping" /\ ending' = kind /\ awaited' = Workers
    BY <1>2, <1>3, <2>1, StopMoves
  <2>3. New(busy) = {}
    BY <2>1 DEF New
  <2>4. Apart(directories', in_flight')
    BY <1>11, <2>1
  <2> QED BY <1>2, <1>10, <1>11, <2>2, <2>3, <2>4 DEF Proceeds
<1>14. queued \cap orphans = {} /\ (queued \cup Children[d]) \in SUBSET Dirs /\ queued \in SUBSET Dirs
  BY <1>6, <1>9 DEF Divided
<1>15. r = "ok" => (queued \cup Children[d]) \cap orphans = {}
  <2>1. r = "ok" => Children[d] \subseteq Announced(directories, in_flight)
    BY <1>2, <1>7 DEF Announced
  <2> QED BY <1>6, <1>14, <2>1 DEF Divided
<1>16. ASSUME r = "ok" PROVE Proceeds(1, {w}, busy)
  BY <1>5, <1>11, <1>12, <1>13, <1>14, <1>15, <1>16 DEF HandleWorkerResult
<1>17. ASSUME r = "recoverable" PROVE Proceeds(1, {w}, busy)
  <2>1. CASE Store!Complete(d, {}, "failed") /\ DispatchAndFinish(queued, idle, busy)
    <3>1. Divided(directories', queued, busy)
      <4>1. Completed(directories, directories', d, {}, "failed")
        <5>1. {} \in SUBSET Dirs /\ "failed" \in States
          BY DEF States
        <5> QED BY <1>3, <2>1, <5>1, CompleteDoes
      <4>2. Completed(directories, directories', in_flight[w], {}, "failed")
        BY <1>2, <4>1
      <4> QED BY <1>6, <4>2, DividedFails
    <3> QED BY <1>12, <1>14, <2>1, <3>1
  <2>2. CASE FinishFatal(queued, idle, busy, worker_references, "store")
    BY <1>13, <2>2
  <2> QED BY <1>5, <1>17, <2>1, <2>2 DEF HandleWorkerResult
<1>18. ASSUME r \in {"fatal", "store_error"} PROVE Proceeds(1, {w}, busy)
  BY <1>5, <1>13, <1>18 DEF HandleWorkerResult
<1>19. Proceeds(1, {w}, busy)
  BY <1>2, <1>16, <1>17, <1>18 DEF Results
<1>20. Accounts(d, r)
  BY <1>5 DEF HandleWorkerResult, Accounts, FinishFatal, StopWorkerPool, store
<1> QED BY <1>1, <1>19, <1>20 DEF busy

\* Nobody loses a task when a request or a monitor of a stranger leaves.
LEMMA FreesNobody ==
    ASSUME TypeOK, MailFits, phase \in {"receiving", "stopping"}, NEW i, TakesOut(i),
           mailbox[i].type \in Requests, Expecting \subseteq Expecting'
    PROVE  Frees(i, {}, in_flight)
<1>1. in_flight \in [DOMAIN in_flight -> Dirs] /\ DOMAIN in_flight = DOMAIN in_flight \ {}
  BY DEF TypeOK
<1>2. \A w \in Workers \ Expecting' :
         ~ Alive(w) /\ \A k \in 1 .. Len(mailbox) : k # i => ~ FromWorker(mailbox[k], w)
  BY DEF MailFits
<1>3. mailbox[i].type # "result"
  BY DEF Requests
<1> QED BY <1>1, <1>2, <1>3 DEF Frees

LEMMA RankKeeps ==
    ASSUME Placed, WorkConserving, HandlePutRankData, TypeOK'
    PROVE  StillPlaced
<1>1. TypeOK /\ TasksFit /\ MailFits /\ PoolFits /\ phase = "receiving"
      /\ UNCHANGED <<store, counters, waiters, outcome, root_open, orphans, kills>>
      /\ mailbox # <<>> /\ mailbox' = Tail(mailbox) /\ Head(mailbox).type = "put_rank_data"
  BY DEF Placed, HandlePutRankData, Receives
<1>2. TakesOut(1) /\ mailbox[1].type \in Requests
  BY <1>1, TailTakesOut DEF Requests
<1>3. CASE outcome # NULL
  <2>1. UNCHANGED <<queued, in_flight, idle_workers, worker_references, phase, ending,
                          awaited, worker>>
    BY <1>3 DEF HandlePutRankData
  <2> QED BY <1>1, <1>2, <2>1, IgnoredKeeps DEF store
<1>4. CASE outcome = NULL
  <2>1. ~ Ended /\ Running /\ Counting
    BY <1>1, <1>4 DEF Ended, Running, Counting
  <2>2. /\ worker_references = Workers /\ idle_workers = Workers \ DOMAIN in_flight
        /\ ending = "none"
    BY <1>1, <2>1 DEF PoolFits
  <2>3. /\ Apart(directories, in_flight) /\ Divided(directories, queued, in_flight)
        /\ orphans \subseteq Ranging(in_flight)
    BY <1>1, <2>1 DEF TasksFit, Assigned
  <2>4. directories' = directories /\ UNCHANGED <<outcome, kills>>
    BY <1>1 DEF store
  <2>5. DispatchAndFinish(queued, idle_workers, in_flight)
    BY <1>4 DEF HandlePutRankData
  <2>6. /\ queued \in SUBSET Dirs /\ idle_workers \in SUBSET Workers
        /\ DOMAIN in_flight \subseteq Workers /\ in_flight \in [DOMAIN in_flight -> Dirs]
    BY <1>1 DEF TypeOK
  <2>7. Divided(directories', queued, in_flight) /\ Apart(directories', in_flight)
    BY <2>3, <2>4
  <2>8. /\ Moves(in_flight) /\ Expecting' = Workers /\ worker_references' = Workers
        /\ Divided(directories', queued', in_flight') /\ Apart(directories', in_flight')
        /\ queued' \subseteq queued /\ DOMAIN in_flight \subseteq DOMAIN in_flight'
        /\ \A v \in DOMAIN in_flight : in_flight'[v] = in_flight[v]
        /\ \A v \in DOMAIN in_flight' : v \notin DOMAIN in_flight => in_flight'[v] \in queued
        /\ \/ /\ phase' = "receiving" /\ ending' = "none"
              /\ idle_workers' = Workers \ DOMAIN in_flight'
              /\ in_flight' # <<>> /\ (queued' = {} \/ idle_workers' = {})
           \/ /\ phase' = "stopping" /\ ending' = "success"
              /\ awaited' = Workers /\ in_flight' = <<>> /\ queued' = {}
    BY <1>1, <2>1, <2>2, <2>4, <2>5, <2>6, <2>7, DispatchMoves
  <2>9. Frees(1, {}, in_flight)
    <3>1. Expecting \subseteq Expecting'
      BY <1>1, <2>8 DEF Expecting, TypeOK
    <3> QED BY <1>1, <1>2, <3>1, FreesNobody
  <2>10. orphans \subseteq Ranging(in_flight')
    BY <2>3, <2>8 DEF Ranging
  <2>11. \A v \in New(in_flight) : in_flight'[v] \notin orphans
    BY <2>3, <2>8 DEF New, Divided
  <2>12. in_flight' = <<>> /\ queued' = {} => orphans = {} /\ In("pending")' = {}
    <3>1. SUFFICES ASSUME in_flight' = <<>>, queued' = {}
                   PROVE  orphans = {} /\ In("pending")' = {}
      OBVIOUS
    <3>2. Ranging(in_flight') = {}
      <4>1. DOMAIN in_flight' = {}
        BY <3>1
      <4> QED BY <4>1 DEF Ranging
    <3>3. Announced(directories', in_flight') = {}
      BY <3>2 DEF Announced
    <3>4. {e \in DOMAIN directories' : directories'[e] = "pending"} = {}
      BY <2>8, <3>1, <3>2, <3>3 DEF Divided
    <3> QED BY <2>10, <3>2, <3>4 DEF In
  <2>13. StoreKeeps(in_flight)
    BY <2>4 DEF StoreKeeps
  <2>14. Proceeds(1, {}, in_flight)
    BY <1>1, <2>1, <2>8, <2>9, <2>10, <2>11, <2>12, <2>13 DEF Proceeds
  <2> QED BY <2>14, ProceedsKeeps
<1> QED BY <1>3, <1>4

LEMMA DownKeeps ==
    ASSUME Placed, HandleDown
    PROVE  StillPlaced
<1>1. PICK w :
        /\ Dies(w)
        /\ FinishFatal(queued, idle_workers \ {w}, Without(in_flight, w),
                       worker_references \ {w}, "worker")
        /\ UNCHANGED <<store, counters, waiters, outcome, root_open, orphans, kills, caller>>
  BY DownReceived
<1> DEFINE busy == Without(in_flight, w)
<1>2. /\ TypeOK /\ MailFits /\ WorkersFit /\ TasksFit
      /\ w \in Workers /\ kills # 0 /\ phase = "receiving" /\ ~ Ended /\ Counting /\ TakesOut(1)
      /\ mailbox[1] \in Messages /\ mailbox[1].type = "down" /\ mailbox[1].worker = w
      /\ worker[w].stage = "exited" /\ worker_references = Workers
      /\ directories' = directories
  BY <1>1 DEF Dies, Placed, Running, Counting, store
<1>3. /\ DOMAIN busy = DOMAIN in_flight \ {w}
      /\ DOMAIN busy \subseteq Workers /\ busy \in [DOMAIN busy -> Dirs]
      /\ \A v \in DOMAIN busy : busy[v] = in_flight[v]
  BY <1>2, WithoutDoes
<1> HIDE DEF busy
<1>4. /\ in_flight' = busy /\ StopWorkerPool(Workers \ {w}, "worker")
      /\ UNCHANGED <<outcome, kills>> /\ Workers \ {w} \in SUBSET Workers
  BY <1>1, <1>2 DEF FinishFatal, busy
<1>5. /\ Moves(busy) /\ Expecting' = Workers \ {w} /\ worker_references' = Workers \ {w}
      /\ phase' = "stopping" /\ ending' = "worker" /\ awaited' = Workers \ {w}
  BY <1>2, <1>4, StopMoves
<1>6. ASSUME NEW k \in 1 .. Len(mailbox), k # 1 PROVE ~ FromWorker(mailbox[k], w)
  <2>1. 1 \in 1 .. Len(mailbox) /\ 1 < k
    BY <1>2, <1>6 DEF TakesOut
  <2>2. InOrder(mailbox[1], mailbox[k])
    BY <1>2, <2>1 DEF MailFits
  <2> QED BY <1>2, <2>2 DEF InOrder, FromWorker
<1>7. worker[w].inbox = <<>>
  BY <1>2 DEF WorkersFit, WorkerFits
<1>8. \A k \in 1 .. Len(worker[w].inbox) : worker[w].inbox[k][1] # "scan"
  BY <1>7
<1>9. Frees(1, {w}, busy)
  <2>1. ~ Alive(w)
    BY <1>2 DEF Alive
  <2>2. \A k \in 1 .. Len(mailbox) :
         k # 1 /\ mailbox[k].type = "result" => mailbox[k].worker \notin {w}
    BY <1>6 DEF FromWorker
  <2> QED BY <1>2, <1>3, <1>5, <1>6, <1>8, <2>1, <2>2 DEF Frees
<1>10. StoreKeeps(busy) /\ Apart(directories', in_flight') /\ New(busy) = {}
  <2>1. Apart(directories, in_flight)
    BY <1>2 DEF TasksFit
  <2> QED BY <1>2, <1>3, <1>4, <2>1 DEF StoreKeeps, Apart, New
<1>11. Proceeds(1, {w}, busy)
  BY <1>1, <1>2, <1>5, <1>9, <1>10 DEF Proceeds
<1> QED BY <1>11, ProceedsKeeps

LEMMA AwaitKeeps ==
    ASSUME Placed, WorkConserving, HandleAwait
    PROVE  StillPlaced
<1>1. TakesOut(1) /\ mailbox[1].type \in Requests /\ phase = "receiving"
  BY AwaitTypes DEF Placed, HandleAwait, Receives, Requests
<1>2. UNCHANGED <<directories, queued, in_flight, idle_workers, worker_references, outcome,
                  phase, ending, awaited, root_open, worker, orphans, kills>>
  BY DEF HandleAwait, store
<1> QED BY <1>1, <1>2, IgnoredKeeps

LEMMA TerminateKeeps ==
    ASSUME Placed, HandleTerminate
    PROVE  StillPlaced
<1>1. /\ TypeOK /\ TasksFit /\ MailFits /\ PoolFits /\ WorkersFit /\ HeldFits /\ OrphansFit
      /\ EndFits /\ phase = "receiving" /\ StopWorkerPool(worker_references, "terminate")
      /\ UNCHANGED <<directories, queued, in_flight, outcome, root_open, orphans, kills>>
      /\ worker_references \in SUBSET Workers
  BY DEF Placed, HandleTerminate, Receives, TypeOK, store, others
<1>2. TakesOut(1) /\ mailbox[1].type \in Requests
  BY <1>1, TerminateTypes DEF Requests
<1>3. /\ Moves(in_flight) /\ Expecting' = worker_references
      /\ worker_references' = worker_references
      /\ phase' = "stopping" /\ ending' = "terminate" /\ awaited' = worker_references
  <2>1. in_flight' = in_flight /\ UNCHANGED <<outcome, kills>>
    BY <1>1
  <2> QED BY <1>1, <2>1, StopMoves
<1>4. Frees(1, {}, in_flight)
  <2>1. Expecting \subseteq Expecting'
    BY <1>1, <1>3 DEF Expecting
  <2> QED BY <1>1, <1>2, <2>1, FreesNobody
<1>5. StoreKeeps(in_flight) /\ New(in_flight) = {}
  BY <1>1 DEF StoreKeeps, New
<1>6. CASE ~ Ended
  <2>1. Apart(directories', in_flight')
    BY <1>1, <1>6 DEF TasksFit, Counting
  <2>2. Proceeds(1, {}, in_flight)
    BY <1>1, <1>3, <1>4, <1>5, <1>6, <2>1 DEF Proceeds
  <2> QED BY <2>2, ProceedsKeeps
<1>7. CASE Ended
  <2>1. MailFits' /\ WorkersFit' /\ HeldFits'
    BY <1>1, <1>3, <1>4, <1>5, MoveMail, MoveWorkers, MoveHeld
  <2>2. OrphansFit'
    <3>1. UNCHANGED orphans /\ \A w \in New(in_flight) : in_flight'[w] \notin orphans
      BY <1>1, <1>5
    <3> QED BY <1>1, <1>3, <1>4, <3>1, MoveOrphans
  <2>3. PoolFits'
    <3>1. Stops
      BY <1>3 DEF Stops
    <3>2. UNCHANGED <<root_open, orphans>> /\ phase \in {"receiving", "stopping"}
      BY <1>1
    <3> QED BY <1>1, <1>3, <3>1, <3>2, MovePool
  <2>4. Ended'
    BY <1>1, <1>7 DEF Ended
  <2>5. TasksFit' /\ WorkConserving'
    BY <1>3, <2>4 DEF TasksFit, Counting, Running, WorkConserving
  <2>6. EndFits'
    <3>1. \A w \in Workers : ~ Alive(w)'
      BY <1>1, <1>3, <1>7 DEF EndFits, Moves, Alive
    <3> QED BY <1>1, <1>3, <1>7, <3>1 DEF EndFits
  <2> QED BY <2>1, <2>2, <2>3, <2>5, <2>6 DEF StillPlaced
<1> QED BY <1>6, <1>7

LEMMA ShutdownKeeps ==
    ASSUME Placed, AwaitWorkerShutdown
    PROVE  StillPlaced
<1>1. /\ TypeOK /\ TasksFit /\ MailFits /\ PoolFits
      /\ UNCHANGED <<queued, idle_workers, worker_references, waiters, outcome, phase, ending,
                     root_open, worker, orphans, kills, caller>>
  BY ShutdownReceived DEF Placed
<1>2. ASSUME NEW i, NEW w, NEW d, NEW r, Settled(i, w, d, r) PROVE StillPlaced
  <2> DEFINE busy == Without(in_flight, w)
  <2>1. /\ w \in Workers /\ d \in Dirs
        /\ phase = "stopping" /\ ~ Ended /\ Counting /\ TakesOut(i)
        /\ mailbox[i] \in Messages /\ mailbox[i].type = "result" /\ mailbox[i].worker = w
        /\ w \in DOMAIN in_flight /\ in_flight[w] = d
        /\ worker[w].stage \in {"receiving", "exited"}
        /\ \A k \in 1 .. Len(worker[w].inbox) : worker[w].inbox[k][1] # "scan"
        /\ in_flight' = busy /\ UNCHANGED awaited
        /\ UNCHANGED store \/ Store!Complete(d, {}, "failed")
    BY <1>2 DEF Settled, Counting, store
  <2>2. /\ DOMAIN busy = DOMAIN in_flight \ {w}
        /\ DOMAIN busy \subseteq Workers /\ busy \in [DOMAIN busy -> Dirs]
        /\ \A v \in DOMAIN busy : busy[v] = in_flight[v]
    BY <1>1, <2>1, WithoutDoes
  <2> HIDE DEF busy
  <2>3. Apart(directories, in_flight) /\ Others(in_flight, w, busy)
    BY <1>1, <2>1, <2>2 DEF TasksFit, Others
  <2>4. Frees(i, {w}, busy)
    <3>1. ASSUME NEW k \in 1 .. Len(mailbox), k # i, mailbox[k].type = "result"
          PROVE  mailbox[k].worker \notin {w}
      <4>1. i \in 1 .. Len(mailbox) /\ (i < k \/ k < i)
        BY <2>1, <3>1 DEF TakesOut
      <4>2. CASE i < k
        <5>1. InOrder(mailbox[i], mailbox[k])
          BY <1>1, <2>1, <4>1, <4>2 DEF MailFits
        <5> QED BY <2>1, <3>1, <5>1 DEF InOrder
      <4>3. CASE k < i
        <5>1. InOrder(mailbox[k], mailbox[i])
          BY <1>1, <2>1, <4>1, <4>3 DEF MailFits
        <5> QED BY <2>1, <3>1, <5>1 DEF InOrder
      <4> QED BY <4>1, <4>2, <4>3
    <3>2. \A v \in Workers \ Expecting' :
            ~ Alive(v) /\ \A k \in 1 .. Len(mailbox) : k # i => ~ FromWorker(mailbox[k], v)
      BY <1>1, <2>1 DEF MailFits, Expecting
    <3> QED BY <2>1, <2>2, <3>1, <3>2 DEF Frees
  <2>5. StoreKeeps(busy) /\ Apart(directories', busy)
    <3>1. CASE UNCHANGED store
      BY <2>2, <2>3, <3>1 DEF StoreKeeps, Apart, store
    <3>2. CASE Store!Complete(d, {}, "failed")
      <4>1. Completed(directories, directories', d, {}, "failed")
        <5>1. {} \in SUBSET Dirs /\ "failed" \in States
          BY DEF States
        <5> QED BY <1>1, <3>2, <5>1, CompleteDoes
      <4>2. Completed(directories, directories', in_flight[w], {}, "failed")
        BY <2>1, <4>1
      <4>3. Apart(directories', busy)
        BY <2>3, <4>2, ApartFails
      <4>4. ASSUME NEW v \in DOMAIN busy PROVE directories'[busy[v]] = directories[busy[v]]
        <5>1. busy[v] # d /\ busy[v] \in DOMAIN directories
          BY <2>1, <2>2, <2>3 DEF Apart
        <5> QED BY <4>1, <5>1 DEF Completed
      <4> QED BY <4>3, <4>4 DEF StoreKeeps
    <3> QED BY <2>1, <3>1, <3>2
  <2>6. New(busy) = {}
    BY <2>1 DEF New
  <2>7. Moves(busy)
    BY <1>1, <2>1, <2>6 DEF Moves, TypeOK
  <2>8. ending # "success" /\ ending \notin {"none", "mismatch"} /\ awaited \subseteq worker_references
    <3>1. DOMAIN <<>> = {}
      OBVIOUS
    <3> QED BY <1>1, <2>1, <3>1 DEF PoolFits
  <2>9. Proceeds(i, {w}, busy)
    BY <1>1, <2>1, <2>4, <2>5, <2>6, <2>7, <2>8 DEF Proceeds
  <2> QED BY <2>9, ProceedsKeeps
<1>3. ASSUME NEW i, NEW w, Leaves(i, w) PROVE StillPlaced
  <2>1. /\ w \in awaited /\ w \in Workers
        /\ phase = "stopping" /\ ~ Ended /\ Counting /\ TakesOut(i)
        /\ mailbox[i] \in Messages /\ mailbox[i].type = "down" /\ mailbox[i].worker = w
        /\ worker[w].stage = "exited"
        /\ \A k \in 1 .. Len(mailbox) : k # i => ~ FromWorker(mailbox[k], w)
        /\ awaited' = awaited \ {w} /\ directories' = directories /\ in_flight' = in_flight
    BY <1>3 DEF Leaves, Counting, store
  <2>2. Frees(i, {}, in_flight)
    <3>1. in_flight \in [DOMAIN in_flight -> Dirs] /\ DOMAIN in_flight = DOMAIN in_flight \ {}
      BY <1>1 DEF TypeOK
    <3>2. ASSUME NEW v \in Workers \ Expecting'
          PROVE  ~ Alive(v) /\ \A k \in 1 .. Len(mailbox) : k # i => ~ FromWorker(mailbox[k], v)
      <4>1. CASE v = w
        BY <2>1, <4>1 DEF Alive
      <4>2. CASE v # w
        BY <1>1, <2>1, <4>2 DEF MailFits, Expecting
      <4> QED BY <4>1, <4>2
    <3> QED BY <2>1, <3>1, <3>2 DEF Frees
  <2>3. StoreKeeps(in_flight) /\ New(in_flight) = {} /\ Apart(directories', in_flight')
    BY <1>1, <2>1 DEF StoreKeeps, New, TasksFit
  <2>4. Moves(in_flight)
    BY <1>1, <2>1, <2>3 DEF Moves, TypeOK
  <2>5. /\ ending \notin {"none", "mismatch"} /\ awaited \subseteq worker_references
        /\ ending = "success" => in_flight = <<>> /\ queued = {} /\ orphans = {} /\ In("pending") = {}
    BY <1>1, <2>1 DEF PoolFits, TasksFit
  <2>6. In("pending")' = In("pending")
    BY <2>1 DEF In
  <2>7. Proceeds(i, {}, in_flight)
    BY <1>1, <2>1, <2>2, <2>3, <2>4, <2>5, <2>6 DEF Proceeds
  <2> QED BY <2>7, ProceedsKeeps
<1> QED BY <1>2, <1>3, ShutdownReceived

-----------------------------------------------------------------------------
\* The coordinator's other steps.

\* Without workers there are only requests in the mailbox.
LEMMA OnlyRequests ==
    ASSUME TypeOK, MailFits, phase # "gone", Expecting = {}
    PROVE  /\ \A w \in Workers : ~ Alive(w)
           /\ \A i \in 1 .. Len(mailbox) : mailbox[i].type \notin {"result", "down"}
<1>1. \A w \in Workers : ~ Alive(w) /\ \A i \in 1 .. Len(mailbox) : ~ FromWorker(mailbox[i], w)
  BY DEF MailFits
<1>2. ASSUME NEW i \in 1 .. Len(mailbox), mailbox[i].type \in {"result", "down"} PROVE FALSE
  <2>1. mailbox[i] \in Messages
    BY ElementOfSeq DEF TypeOK
  <2>2. mailbox[i].worker \in Workers
    BY <1>2, <2>1, MessageFields
  <2> QED BY <1>1, <1>2, <2>2 DEF FromWorker
<1> QED BY <1>1, <1>2

LEMMA StartKeeps ==
    ASSUME Placed, StartWorkers
    PROVE  StillPlaced
<1>1. PICK first \in Workers :
         /\ in_flight' = [w \in {first} |-> Root]
         /\ idle_workers' = Workers \ {first}
         /\ worker' = [w \in Workers |->
                         Waiting(IF w = first THEN <<<<"scan", Root>>>> ELSE <<>>)]
  BY DEF StartWorkers
<1>2. /\ phase = "starting" /\ phase' = "receiving" /\ queued' = {} /\ worker_references' = Workers
      /\ UNCHANGED <<directories, root_open, outcome, ending, awaited, mailbox, orphans, kills>>
  BY DEF StartWorkers, store, others
<1>3. /\ ~ Ended /\ worker_references = {} /\ root_open /\ orphans = {} /\ ending = "none"
      /\ directories = [d \in {Root} |-> "pending"] /\ TypeOK /\ MailFits
  BY <1>2 DEF Placed, PoolFits
<1>4. \A i \in 1 .. Len(mailbox) : mailbox[i].type \notin {"result", "down"}
  BY <1>2, <1>3, OnlyRequests DEF Expecting
<1>5. MailFits'
  BY <1>2, <1>4 DEF MailFits, Expecting, Fits, InOrder
<1>6. /\ DOMAIN in_flight' = {first} /\ in_flight'[first] = Root
      /\ DOMAIN directories = {Root} /\ directories[Root] = "pending"
  BY <1>1, <1>3
<1>7. ASSUME NEW w \in Workers
      PROVE  /\ worker'[w].stage = "receiving"
             /\ w = first => worker'[w].inbox = <<<<"scan", Root>>>>
             /\ w # first => worker'[w].inbox = <<>>
  BY <1>1 DEF Waiting, Process
<1>8. /\ worker'[first].stage = "receiving" /\ Len(worker'[first].inbox) = 1
      /\ worker'[first].inbox[1] = <<"scan", Root>> /\ worker'[first].inbox[1][1] = "scan"
  <2> DEFINE order == <<"scan", Root>>
  <2>1. order[1] = "scan" /\ worker'[first].inbox = <<order>>
    BY <1>7, OrderFields, TreeAssumption
  <2> HIDE DEF order
  <2>2. Len(worker'[first].inbox) = 1 /\ worker'[first].inbox[1] = order
    BY <2>1
  <2> QED BY <1>7, <2>1, <2>2 DEF order
<1>9. WorkersFit'
  <2> SUFFICES ASSUME NEW w \in Workers PROVE WorkerFits(w)'
    BY DEF WorkersFit
  <2>1. worker'[w].stage = "receiving" /\ Alive(w)'
    BY <1>7 DEF Alive
  <2>2. CASE w = first
    <3>1. \A k \in 1 .. Len(worker'[w].inbox) : k = 1
      <4>1. Len(worker'[w].inbox) = 1
        BY <1>8, <2>2
      <4> QED BY <4>1
    <3> QED BY <1>2, <1>3, <1>6, <1>8, <2>1, <2>2, <3>1 DEF WorkerFits
  <2>3. CASE w # first
    <3>1. \A k \in 1 .. Len(worker'[w].inbox) : FALSE
      BY <1>7, <2>3
    <3> QED BY <2>1, <3>1 DEF WorkerFits
  <2> QED BY <2>2, <2>3
<1>10. HeldFits'
  <2>1. 1 \in 1 .. Len(worker'[first].inbox)
    BY <1>8
  <2> QED BY <1>6, <1>8, <2>1 DEF HeldFits
<1>11. PoolFits'
  BY <1>1, <1>2, <1>3, <1>6, <1>7 DEF PoolFits, Ended
<1>12. TasksFit'
  <2>1. Ranging(in_flight') = {Root}
    BY <1>6 DEF Ranging
  <2>2. Announced(directories', in_flight') = {}
    BY <1>2, <1>6, <2>1 DEF Announced
  <2>3. Divided(directories', queued', in_flight')
    BY <1>2, <1>6, <2>1, <2>2 DEF Divided
  <2>4. Apart(directories', in_flight')
    BY <1>2, <1>6 DEF Apart
  <2> QED BY <1>2, <1>3, <2>3, <2>4 DEF TasksFit
<1>13. OrphansFit' /\ EndFits' /\ WorkConserving'
  <2>1. in_flight' # <<>>
    <3>1. DOMAIN <<>> = {}
      OBVIOUS
    <3> QED BY <1>6, <3>1
  <2> QED BY <1>2, <1>3, <2>1 DEF OrphansFit, EndFits, WorkConserving, Ended
<1> QED BY <1>5, <1>9, <1>10, <1>11, <1>12, <1>13 DEF StillPlaced

LEMMA FinalizeKeeps ==
    ASSUME Placed, Finalize
    PROVE  /\ StillPlaced /\ Ended' /\ ~ Ended /\ Expecting = {}
           /\ kills = 0 => in_flight = <<>>
<1>1. /\ TypeOK /\ PoolFits /\ MailFits /\ WorkersFit /\ HeldFits /\ EndFits
      /\ phase = "stopping" /\ awaited = {} /\ ending # "terminate"
      /\ worker_references' = {} /\ idle_workers' = {} /\ in_flight' = <<>>
      /\ phase' = "receiving" /\ ending' = "none"
      /\ UNCHANGED <<directories, queued, counters, awaited, mailbox, worker, orphans, kills>>
  BY DEF Placed, Finalize, store
<1>2. Ended'
  BY <1>1, FinalizeTypes DEF Ended
<1>3. ~ Ended /\ Expecting = {}
  BY <1>1 DEF EndFits, Expecting
<1>4. /\ \A w \in Workers : ~ Alive(w)
      /\ \A i \in 1 .. Len(mailbox) : mailbox[i].type \notin {"result", "down"}
  BY <1>1, <1>3, OnlyRequests
<1>5. ASSUME NEW w \in Workers
      PROVE  worker[w].stage = "exited" /\ worker[w].inbox = <<>>
  BY <1>1, <1>4 DEF WorkersFit, WorkerFits, Alive
<1>6. MailFits'
  BY <1>1, <1>4 DEF MailFits, Expecting, Fits, InOrder, FromWorker, Alive
<1>7. WorkersFit'
  <2> SUFFICES ASSUME NEW w \in Workers PROVE WorkerFits(w)'
    BY DEF WorkersFit
  <2>1. \A k \in 1 .. Len(worker'[w].inbox) : FALSE
    BY <1>1, <1>5
  <2> QED BY <1>1, <1>2, <1>5, <2>1 DEF WorkerFits
<1>8. DOMAIN in_flight' = {}
  BY <1>1
<1>9. HeldFits' /\ OrphansFit'
  BY <1>8 DEF HeldFits, OrphansFit
<1>10. PoolFits'
  BY <1>1, <1>2, <1>4 DEF PoolFits, Alive
<1>11. TasksFit' /\ WorkConserving'
  BY <1>1, <1>2 DEF TasksFit, Counting, Running, WorkConserving
<1>12. EndFits'
  BY <1>1, <1>4 DEF EndFits, Alive
<1>13. kills = 0 => in_flight = <<>>
  <2>0. DOMAIN in_flight = {} => in_flight = <<>>
    BY <1>1 DEF TypeOK
  <2>1. SUFFICES ASSUME kills = 0, NEW w \in DOMAIN in_flight PROVE FALSE
    BY <2>0
  <2>2. w \in Workers
    BY <1>1, <2>1 DEF TypeOK
  <2>3. \A k \in 1 .. Len(worker[w].inbox) : FALSE
    BY <1>5, <2>2
  <2> QED BY <1>1, <1>4, <1>5, <2>1, <2>2, <2>3 DEF HeldFits
<1> QED BY <1>2, <1>3, <1>6, <1>7, <1>9, <1>10, <1>11, <1>12, <1>13 DEF StillPlaced

LEMMA GoneKeeps ==
    ASSUME Placed, Terminated \/ KillCoordinator
    PROVE  StillPlaced
<1>1. /\ TypeOK /\ PoolFits /\ MailFits /\ EndFits /\ Gone /\ phase # "gone"
      /\ UNCHANGED <<directories, queued, in_flight, idle_workers, worker_references, outcome,
                     ending, awaited, orphans>>
      /\ \/ kills' = kills /\ phase = "stopping" /\ awaited = {}
         \/ kills' = kills + 1 /\ root_open' = root_open
  BY DEF Placed, Terminated, KillCoordinator, store
<1>2. /\ phase' = "gone" /\ mailbox' = <<>>
      /\ \A w \in Workers : worker'[w].stage = worker[w].stage /\ worker'[w].task = worker[w].task
  BY <1>1, GoneDoes
<1>3. MailFits' /\ WorkersFit' /\ HeldFits' /\ OrphansFit' /\ TasksFit' /\ WorkConserving'
  BY <1>2 DEF MailFits, WorkersFit, HeldFits, OrphansFit, TasksFit, Counting, Running,
              WorkConserving
<1>4. \A w \in Workers : Alive(w)' <=> Alive(w)
  BY <1>2 DEF Alive
<1>5. ~ root_open' => \A w \in Workers : ~ Alive(w)
  <2>1. CASE phase = "stopping" /\ awaited = {}
    BY <1>1, <2>1, OnlyRequests DEF Expecting
  <2>2. CASE root_open' = root_open
    BY <1>1, <2>2 DEF PoolFits
  <2> QED BY <1>1, <2>1, <2>2
<1>6. kills' = 0 => orphans' = {}
  BY <1>1 DEF PoolFits, TypeOK
<1>7. PoolFits'
  BY <1>1, <1>2, <1>4, <1>5, <1>6 DEF PoolFits
<1>8. EndFits'
  BY <1>1, <1>2, <1>4 DEF EndFits, Ended
<1> QED BY <1>3, <1>7, <1>8 DEF StillPlaced

-----------------------------------------------------------------------------
\* The steps of the workers, of dead workers' scans, and of the callers: only
\* the workers of S change, the coordinator does not.
Quiet(S) ==
    /\ phase # "gone" /\ UNCHANGED coordinator
    /\ worker' \in [Workers -> Processes] /\ \A v \in Workers \ S : worker'[v] = worker[v]
    /\ \A v \in S : v \in Workers /\ Alive(v)
    /\ kills \in Nat /\ kills' \in Nat /\ (kills' = 0 => kills = 0)
    /\ \A v \in DOMAIN in_flight \ S :
         /\ directories[in_flight[v]] = "published" => directories'[in_flight[v]] = "published"
         /\ kills' = 0 /\ directories[in_flight[v]] = "pending" =>
              directories'[in_flight[v]] = "pending"

LEMMA QuietWorkers ==
    ASSUME WorkersFit, NEW S, Quiet(S), NEW v \in Workers \ S
    PROVE  WorkerFits(v)'
<1>1. WorkerFits(v)
  BY DEF Quiet, WorkersFit
<1>2. /\ worker'[v] = worker[v] /\ UNCHANGED <<in_flight, phase, outcome>>
      /\ kills' = 0 => kills = 0
      /\ v \in DOMAIN in_flight =>
           /\ directories[in_flight[v]] = "published" => directories'[in_flight[v]] = "published"
           /\ kills' = 0 /\ directories[in_flight[v]] = "pending" =>
                directories'[in_flight[v]] = "pending"
  BY DEF Quiet, coordinator
<1> HIDE DEF Quiet
<1>3. /\ worker[v].stage \in {"scanning", "scanned"} =>
           v \in DOMAIN in_flight /\ in_flight[v] = worker[v].task
      /\ worker[v].stage = "scanned" /\ worker[v].result = "ok" =>
           directories'[worker[v].task] = "published"
      /\ worker[v].stage = "scanned" /\ worker[v].result # "ok" /\ kills' = 0 =>
           directories'[worker[v].task] = "pending"
      /\ worker[v].stage = "scanning" /\ kills' = 0 => directories'[worker[v].task] = "pending"
  BY <1>1, <1>2 DEF WorkerFits
<1>4. ASSUME NEW k \in 1 .. Len(worker'[v].inbox) PROVE InboxFits(v, k)'
  <2>1. InboxFits(v, k)
    BY <1>1, <1>2, <1>4 DEF WorkerFits, InboxFits
  <2> QED BY <1>2, <2>1 DEF InboxFits
<1>5. /\ worker[v].stage \in {"unborn", "exited"} => worker[v].inbox = <<>>
      /\ worker[v].stage = "unborn" => phase = "starting"
      /\ worker[v].stage = "scanned" => worker[v].result \in Results
      /\ kills = 0 /\ phase = "receiving" /\ ~ Ended => Alive(v)
  BY <1>1 DEF WorkerFits
<1>6. (Ended' <=> Ended) /\ (Alive(v)' <=> Alive(v))
  BY <1>2 DEF Ended, Alive
<1> QED BY <1>2, <1>3, <1>4, <1>5, <1>6 DEF WorkerFits, InboxFits

LEMMA QuietFits ==
    ASSUME NEW S, Quiet(S), NEW m \in Messages, Fits(m),
           m.type \in {"result", "down"} => m.worker \notin S
    PROVE  Fits(m)'
<1>1. CASE m.type = "down"
  BY <1>1, MessageFields DEF Fits, Quiet
<1>2. CASE m.type = "result"
  <2>1. m.worker \in Workers \ S /\ m.worker \in DOMAIN in_flight \ S /\ in_flight[m.worker] = m.task
    BY <1>2, MessageFields DEF Fits
  <2>2. worker'[m.worker] = worker[m.worker] /\ UNCHANGED in_flight
    BY <2>1 DEF Quiet, coordinator
  <2>3. /\ kills' = 0 => kills = 0
        /\ directories[m.task] = "published" => directories'[m.task] = "published"
        /\ kills' = 0 /\ directories[m.task] = "pending" => directories'[m.task] = "pending"
    BY <2>1 DEF Quiet
  <2> QED BY <1>2, <2>1, <2>2, <2>3 DEF Fits
<1>3. CASE m.type \notin {"result", "down"}
  BY <1>3 DEF Fits
<1> QED BY <1>1, <1>2, <1>3

\* The mailbox stays, or a message comes that may.
Receivable(m) ==
    /\ Adds1(m) /\ m \in Messages /\ Fits(m)'
    /\ \A k \in 1 .. Len(mailbox) : InOrder(mailbox[k], m)
    /\ \A w \in Workers \ Expecting : ~ FromWorker(m, w)
Receives1 == UNCHANGED mailbox \/ \E m : Receivable(m)

LEMMA QuietMail ==
    ASSUME TypeOK, MailFits, NEW S, Quiet(S), Receives1,
           \A m \in Messages : FromWorker(m, m.worker) /\ m.worker \in S /\ Fits(m)
                                 /\ (\E k \in 1 .. Len(mailbox) : mailbox[k] = m) => Fits(m)'
    PROVE  MailFits'
<1>1. phase # "gone" /\ UNCHANGED <<phase, awaited, worker_references>>
  BY DEF Quiet, coordinator
<1>2. Expecting' = Expecting
  BY <1>1 DEF Expecting
<1>3. \A w \in Workers \ Expecting : ~ Alive(w)'
  BY <1>1 DEF Quiet, MailFits, Alive
<1>4. ASSUME NEW m \in Messages, Fits(m), NEW k \in 1 .. Len(mailbox), mailbox[k] = m PROVE Fits(m)'
  <2>1. CASE m.type \in {"result", "down"} /\ m.worker \in S
    BY <1>4, <2>1 DEF FromWorker
  <2>2. CASE m.type \in {"result", "down"} => m.worker \notin S
    BY <1>4, <2>2, QuietFits
  <2> QED BY <2>1, <2>2
<1>5. ASSUME NEW k \in 1 .. Len(mailbox) PROVE \E m \in Messages : m = mailbox[k] /\ Fits(m)'
  <2>1. mailbox[k] \in Messages /\ Fits(mailbox[k])
    BY <1>1, ElementOfSeq DEF TypeOK, MailFits
  <2>2. PICK m \in Messages : m = mailbox[k]
    BY <2>1
  <2>3. Fits(m)
    BY <2>1, <2>2
  <2> QED BY <1>4, <2>2, <2>3
<1>6. CASE UNCHANGED mailbox
  <2>1. ASSUME NEW k \in 1 .. Len(mailbox') PROVE Fits(mailbox[k])'
    <3>1. PICK m \in Messages : m = mailbox[k] /\ Fits(m)'
      BY <1>5, <1>6
    <3>2. mailbox'[k] = m
      BY <1>6, <3>1
    <3> QED BY <3>1, <3>2 DEF Fits
  <2>2. \A j, k \in 1 .. Len(mailbox') : j < k => InOrder(mailbox[j], mailbox[k])'
    BY <1>1, <1>6 DEF MailFits, InOrder
  <2>3. \A w \in Workers \ Expecting : \A k \in 1 .. Len(mailbox') : ~ FromWorker(mailbox[k], w)'
    BY <1>1, <1>6 DEF MailFits, FromWorker
  <2> QED BY <1>2, <1>3, <2>1, <2>2, <2>3 DEF MailFits
<1>7. ASSUME NEW m, Receivable(m) PROVE MailFits'
  <2>1. /\ Len(mailbox) \in Nat /\ Len(mailbox') = Len(mailbox) + 1
        /\ \A k \in 1 .. Len(mailbox) : mailbox'[k] = mailbox[k]
        /\ mailbox'[Len(mailbox) + 1] = m
        /\ \A k \in 1 .. Len(mailbox) : InOrder(mailbox[k], m)
        /\ \A w \in Workers \ Expecting : ~ FromWorker(m, w)
        /\ m \in Messages /\ Fits(m)'
    BY <1>7 DEF Receivable, Adds1
  <2>2. \A k \in 1 .. Len(mailbox') : k \in 1 .. Len(mailbox) \/ k = Len(mailbox) + 1
    BY <2>1
  <2>3. ASSUME NEW k \in 1 .. Len(mailbox') PROVE Fits(mailbox[k])'
    <3>1. CASE k \in 1 .. Len(mailbox)
      <4>1. PICK n \in Messages : n = mailbox[k] /\ Fits(n)'
        BY <1>5, <3>1
      <4>2. mailbox'[k] = n
        BY <2>1, <3>1, <4>1
      <4> QED BY <4>1, <4>2 DEF Fits
    <3>2. CASE k = Len(mailbox) + 1
      <4>1. mailbox'[k] = m
        BY <2>1, <3>2
      <4> QED BY <2>1, <4>1 DEF Fits
    <3> QED BY <2>2, <3>1, <3>2
  <2>4. ASSUME NEW j \in 1 .. Len(mailbox'), NEW k \in 1 .. Len(mailbox'), j < k
        PROVE  InOrder(mailbox[j], mailbox[k])'
    <3>1. j \in 1 .. Len(mailbox) /\ mailbox'[j] = mailbox[j]
      BY <2>1, <2>4
    <3>2. CASE k \in 1 .. Len(mailbox)
      <4>1. InOrder(mailbox[j], mailbox[k]) /\ mailbox'[k] = mailbox[k]
        BY <1>1, <2>1, <2>4, <3>1, <3>2 DEF MailFits
      <4> QED BY <3>1, <4>1 DEF InOrder
    <3>3. CASE k = Len(mailbox) + 1
      <4>1. InOrder(mailbox[j], m) /\ mailbox'[k] = m
        BY <2>1, <3>1, <3>3
      <4> QED BY <3>1, <4>1 DEF InOrder
    <3> QED BY <2>2, <3>2, <3>3
  <2>5. ASSUME NEW w \in Workers \ Expecting, NEW k \in 1 .. Len(mailbox')
        PROVE  ~ FromWorker(mailbox[k], w)'
    <3>1. CASE k \in 1 .. Len(mailbox)
      <4>1. ~ FromWorker(mailbox[k], w) /\ mailbox'[k] = mailbox[k]
        BY <1>1, <2>1, <3>1 DEF MailFits
      <4> QED BY <4>1 DEF FromWorker
    <3>2. CASE k = Len(mailbox) + 1
      <4>1. mailbox'[k] = m /\ ~ FromWorker(m, w)
        BY <2>1, <3>2
      <4> QED BY <4>1 DEF FromWorker
    <3> QED BY <2>2, <3>1, <3>2
  <2> QED BY <1>2, <1>3, <2>3, <2>4, <2>5 DEF MailFits
<1> QED BY <1>6, <1>7 DEF Receives1

\* Where the task of a worker is.
Held(w) ==
    \/ worker[w].stage \in {"scanning", "scanned"}
    \/ \E k \in 1 .. Len(worker[w].inbox) : worker[w].inbox[k][1] = "scan"
    \/ \E i \in 1 .. Len(mailbox) : mailbox[i].type = "result" /\ mailbox[i].worker = w

\* The mailbox only grows.
LEMMA ReceivesGrows ==
    ASSUME TypeOK, Receives1
    PROVE  \A k \in 1 .. Len(mailbox) : k \in 1 .. Len(mailbox') /\ mailbox'[k] = mailbox[k]
<1>1. CASE UNCHANGED mailbox
  BY <1>1
<1>2. CASE \E m : Receivable(m)
  BY <1>2 DEF Receivable, Adds1
<1> QED BY <1>1, <1>2 DEF Receives1

LEMMA QuietHeld ==
    ASSUME TypeOK, HeldFits, NEW S, Quiet(S), Receives1,
           \A v \in S : kills' = 0 /\ v \in DOMAIN in_flight => Held(v)'
    PROVE  HeldFits'
<1> SUFFICES ASSUME kills' = 0, NEW v \in DOMAIN in_flight' PROVE Held(v)'
  BY DEF HeldFits, Held
<1>1. v \in DOMAIN in_flight /\ v \in Workers /\ kills = 0 /\ phase # "gone"
  BY DEF Quiet, coordinator, TypeOK
<1>2. CASE v \in S
  BY <1>1, <1>2
<1>3. CASE v \notin S
  <2>1. Held(v) /\ worker'[v] = worker[v]
    BY <1>1, <1>3 DEF HeldFits, Held, Quiet
  <2> QED BY <2>1, ReceivesGrows DEF Held
<1> QED BY <1>2, <1>3

\* The messages that come are from the workers of S.
LEMMA QuietOrphans ==
    ASSUME TypeOK, OrphansFit, NEW S, Quiet(S), orphans' \subseteq orphans,
           \/ UNCHANGED mailbox
           \/ \E m : Adds1(m) /\ (m.type = "result" => m.worker \in S)
    PROVE  OrphansFit'
<1> SUFFICES ASSUME NEW v \in DOMAIN in_flight', in_flight'[v] \in orphans'
             PROVE  /\ worker'[v].stage = "exited"
                    /\ \A i \in 1 .. Len(mailbox') :
                         ~ (mailbox'[i].type = "result" /\ mailbox'[i].worker = v)
  BY DEF OrphansFit
<1>1. v \in DOMAIN in_flight /\ v \in Workers /\ in_flight[v] \in orphans /\ phase # "gone"
  BY DEF Quiet, coordinator, TypeOK
<1>2. /\ worker[v].stage = "exited"
      /\ \A i \in 1 .. Len(mailbox) : ~ (mailbox[i].type = "result" /\ mailbox[i].worker = v)
  BY <1>1 DEF OrphansFit
<1>3. v \notin S /\ worker'[v] = worker[v]
  BY <1>1, <1>2 DEF Quiet, Alive
<1>4. ASSUME NEW i \in 1 .. Len(mailbox')
      PROVE  ~ (mailbox'[i].type = "result" /\ mailbox'[i].worker = v)
  <2>1. CASE UNCHANGED mailbox
    BY <1>2, <2>1
  <2>2. CASE \E m : Adds1(m) /\ (m.type = "result" => m.worker \in S)
    <3>1. PICK m : Adds1(m) /\ (m.type = "result" => m.worker \in S)
      BY <2>2
    <3>2. CASE i \in 1 .. Len(mailbox)
      BY <1>2, <3>1, <3>2 DEF Adds1
    <3>3. CASE i = Len(mailbox) + 1
      BY <1>3, <3>1, <3>3 DEF Adds1
    <3> QED BY <3>1, <3>2, <3>3 DEF Adds1
  <2> QED BY <2>1, <2>2
<1> QED BY <1>2, <1>3, <1>4

\* The rest of what such a step keeps.
LEMMA QuietRest ==
    ASSUME Placed, WorkConserving, NEW S, Quiet(S),
           \A v \in S : worker'[v].stage = "scanning" => worker'[v].task \in Dirs,
           kills' = 0 => orphans' = {},
           phase = "starting" => UNCHANGED <<directories, orphans>>
    PROVE  PoolFits' /\ EndFits' /\ WorkConserving'
<1>1. PoolFits /\ EndFits /\ phase # "gone" /\ UNCHANGED coordinator
  BY DEF Placed, Quiet
<1>2. ASSUME NEW v \in Workers, ~ Alive(v) PROVE worker'[v] = worker[v] /\ ~ Alive(v)'
  BY <1>2 DEF Quiet, Alive
<1>3. ~ root_open' => \A v \in Workers : ~ Alive(v)'
  BY <1>1, <1>2 DEF PoolFits, coordinator
<1>4. ASSUME NEW v \in Workers, worker'[v].stage = "scanning" PROVE worker'[v].task \in Dirs
  BY <1>1, <1>4 DEF Quiet, PoolFits
<1>5. phase' = "starting" => \A v \in Workers : worker'[v].stage = "unborn"
  BY <1>1, <1>2 DEF PoolFits, Alive, coordinator
<1>6. PoolFits'
  BY <1>1, <1>3, <1>4, <1>5 DEF PoolFits, coordinator, Ended
<1>7. EndFits'
  BY <1>1, <1>2 DEF EndFits, coordinator, Ended
<1>8. WorkConserving'
  BY <1>1 DEF WorkConserving, coordinator, Ended
<1> QED BY <1>6, <1>7, <1>8

-----------------------------------------------------------------------------
\* What a live worker says about the coordinator.
LEMMA AliveFacts ==
    ASSUME Placed, phase # "gone", NEW w \in Workers, Alive(w)
    PROVE  /\ ~ Ended /\ Counting /\ Apart(directories, in_flight) /\ w \in Expecting
           /\ phase # "starting" /\ WorkerFits(w)
           /\ w \in DOMAIN in_flight => in_flight[w] \notin orphans
<1>1. ~ Ended
  BY DEF Placed, EndFits
<1>2. Counting /\ Apart(directories, in_flight)
  BY <1>1 DEF Counting, Placed, TasksFit
<1>3. w \in Expecting
  BY DEF Placed, MailFits
<1>4. phase # "starting"
  BY DEF Placed, PoolFits, Alive
<1>5. WorkerFits(w)
  BY DEF Placed, WorkersFit
<1>6. w \in DOMAIN in_flight => in_flight[w] \notin orphans
  BY DEF Placed, OrphansFit, Alive
<1> QED BY <1>1, <1>2, <1>3, <1>4, <1>5, <1>6

\* It has sent no monitor, and no result while it has a task to scan.
LEMMA AliveMail ==
    ASSUME Placed, phase # "gone", NEW w \in Workers, Alive(w),
           NEW m \in Messages, Fits(m), FromWorker(m, w)
    PROVE  /\ m.type = "result" /\ worker[w].stage = "receiving"
           /\ \A k \in 1 .. Len(worker[w].inbox) : worker[w].inbox[k][1] # "scan"
BY DEF FromWorker, Fits, Alive

\* It takes a task.
LEMMA TakesKeeps ==
    ASSUME Placed, WorkConserving, phase # "gone", NEW w \in Workers, NEW d, TakesTask(w, d)
    PROVE  StillPlaced
<1>1. /\ OnlyWorker(w) /\ worker[w].stage = "receiving" /\ d \in Dirs
      /\ Len(worker[w].inbox) \in Nat \ {0} /\ worker[w].inbox[1] = <<"scan", d>>
      /\ worker'[w].stage = "scanning" /\ worker'[w].task = d
      /\ Len(worker'[w].inbox) = Len(worker[w].inbox) - 1
      /\ \A k \in 1 .. Len(worker'[w].inbox) : worker'[w].inbox[k] = worker[w].inbox[k + 1]
      /\ UNCHANGED <<mailbox, directories, orphans, kills>> /\ UNCHANGED coordinator
  BY DEF TakesTask, store, others
<1>2. Alive(w)
  BY <1>1 DEF Alive
<1>3. /\ ~ Ended /\ Counting /\ Apart(directories, in_flight) /\ phase # "starting"
      /\ WorkerFits(w) /\ (w \in DOMAIN in_flight => in_flight[w] \notin orphans)
  BY <1>2, AliveFacts
<1>4. worker[w].inbox[1][1] = "scan" /\ 1 \in 1 .. Len(worker[w].inbox)
  BY <1>1, OrderFields
<1>5. /\ w \in DOMAIN in_flight /\ <<"scan", in_flight[w]>> = <<"scan", d>>
      /\ kills = 0 => directories[in_flight[w]] = "pending"
  BY <1>1, <1>3, <1>4 DEF WorkerFits
<1>6. in_flight[w] = d
  BY <1>5
<1>7. Quiet({w})
  BY <1>1, <1>2 DEF Quiet, OnlyWorker, Placed, TypeOK
<1>8. WorkerFits(w)'
  <2>1. ASSUME NEW k \in 1 .. Len(worker'[w].inbox)
        PROVE  worker'[w].inbox[k][1] = "stop" /\ phase = "stopping"
    <3>1. k + 1 \in 1 .. Len(worker[w].inbox) /\ k + 1 # 1 /\ worker'[w].inbox[k] = worker[w].inbox[k + 1]
      BY SMTT(30), ZenonT(30), <1>1
    <3> QED BY <1>3, <3>1 DEF WorkerFits
  <2>2. UNCHANGED <<in_flight, phase>> /\ Alive(w)'
    BY <1>1 DEF coordinator, Alive
  <2> QED BY <1>1, <1>5, <1>6, <2>1, <2>2 DEF WorkerFits
<1>9. Receives1
  BY <1>1 DEF Receives1
<1>10. ASSUME NEW m \in Messages, FromWorker(m, w), Fits(m) PROVE FALSE
  BY <1>2, <1>4, <1>10, AliveMail
<1>11. /\ TypeOK /\ PoolFits /\ MailFits /\ WorkersFit /\ HeldFits /\ TasksFit /\ OrphansFit
       /\ EndFits
  BY DEF Placed
<1>12. MailFits'
  <2>1. \A m \in Messages : FromWorker(m, m.worker) /\ m.worker \in {w} /\ Fits(m)
                              /\ (\E k \in 1 .. Len(mailbox) : mailbox[k] = m) => Fits(m)'
    BY <1>10
  <2> QED BY <1>7, <1>9, <1>11, <2>1, QuietMail
<1>13. WorkersFit'
  <2>1. ASSUME NEW v \in Workers PROVE WorkerFits(v)'
    BY <1>7, <1>8, <1>11, QuietWorkers
  <2> QED BY <2>1 DEF WorkersFit
<1>14. HeldFits'
  <2>1. Held(w)'
    BY <1>1 DEF Held
  <2> QED BY <1>7, <1>9, <1>11, <2>1, QuietHeld
<1>15. OrphansFit'
  BY <1>1, <1>7, <1>11, QuietOrphans
<1>16. TasksFit'
  BY <1>1, <1>11 DEF TasksFit, Counting, Running, Ended, Assigned, In, coordinator
<1>17. PoolFits' /\ EndFits' /\ WorkConserving'
  <2>1. kills' = 0 => orphans' = {}
    BY <1>1, <1>11 DEF PoolFits
  <2>2. worker'[w].stage = "scanning" => worker'[w].task \in Dirs
    BY <1>1
  <2> QED BY <1>3, <1>7, <2>1, <2>2, QuietRest
<1> QED BY <1>12, <1>13, <1>14, <1>15, <1>16, <1>17 DEF StillPlaced

\* Its scan returns: with the directory published, or with the store unchanged.
LEMMA ReturnsKeeps ==
    ASSUME Placed, WorkConserving, phase # "gone", NEW w \in Workers, NEW d, NEW r,
           Returns(w, d, r), TypeOK',
           \/ r = "ok" /\ Completed(directories, directories', d, Children[d], "published")
           \/ r # "ok" /\ directories' = directories
    PROVE  StillPlaced
<1>1. /\ OnlyWorker(w) /\ worker[w].stage = "scanning" /\ worker[w].task = d /\ r \in Results
      /\ worker'[w].stage = "scanned" /\ worker'[w].task = d /\ worker'[w].result = r
      /\ worker'[w].inbox = worker[w].inbox
      /\ UNCHANGED <<mailbox, orphans, kills>> /\ UNCHANGED coordinator
  BY DEF Returns, others
<1>2. Alive(w)
  BY <1>1 DEF Alive
<1>3. /\ ~ Ended /\ Counting /\ Apart(directories, in_flight) /\ phase # "starting"
      /\ WorkerFits(w) /\ (w \in DOMAIN in_flight => in_flight[w] \notin orphans)
  BY <1>2, AliveFacts
<1>4. w \in DOMAIN in_flight /\ in_flight[w] = d
  BY <1>1, <1>3 DEF WorkerFits
<1>5. ASSUME NEW v \in DOMAIN in_flight \ {w}
      PROVE  directories'[in_flight[v]] = directories[in_flight[v]]
  <2>1. in_flight[v] # d /\ in_flight[v] \in DOMAIN directories
    BY <1>3, <1>4 DEF Apart
  <2> QED BY <2>1 DEF Completed
<1>6. Quiet({w})
  BY <1>1, <1>2, <1>5 DEF Quiet, OnlyWorker, Placed, TypeOK
<1>7. /\ r = "ok" => directories'[d] = "published"
      /\ r # "ok" /\ kills = 0 => directories'[d] = "pending"
  BY <1>1, <1>3 DEF Completed, WorkerFits
<1>8. \A k \in 1 .. Len(worker[w].inbox) :
        worker[w].inbox[k][1] = "stop" /\ phase = "stopping"
  BY <1>1, <1>3 DEF WorkerFits
<1>9. WorkerFits(w)'
  <2>1. UNCHANGED <<in_flight, phase>> /\ Alive(w)'
    BY <1>1 DEF coordinator, Alive
  <2>2. \A k \in 1 .. Len(worker'[w].inbox) :
          worker'[w].inbox[k][1] = "stop" /\ phase = "stopping"
    BY <1>1, <1>8
  <2> QED BY <1>1, <1>4, <1>7, <2>1, <2>2 DEF WorkerFits
<1>10. Receives1
  BY <1>1 DEF Receives1
<1>11. /\ TypeOK /\ PoolFits /\ MailFits /\ WorkersFit /\ HeldFits /\ TasksFit /\ OrphansFit
       /\ EndFits
  BY DEF Placed
<1>12. MailFits'
  <2>1. ASSUME NEW m \in Messages, FromWorker(m, w), Fits(m) PROVE FALSE
    BY <1>1, <1>2, <2>1, AliveMail
  <2>2. \A m \in Messages : FromWorker(m, m.worker) /\ m.worker \in {w} /\ Fits(m)
                              /\ (\E k \in 1 .. Len(mailbox) : mailbox[k] = m) => Fits(m)'
    BY <2>1
  <2> QED BY <1>6, <1>10, <1>11, <2>2, QuietMail
<1>13. WorkersFit'
  <2>1. ASSUME NEW v \in Workers PROVE WorkerFits(v)'
    BY <1>6, <1>9, <1>11, QuietWorkers
  <2> QED BY <2>1 DEF WorkersFit
<1>14. HeldFits'
  <2>1. Held(w)'
    BY <1>1 DEF Held
  <2> QED BY <1>6, <1>10, <1>11, <2>1, QuietHeld
<1>15. OrphansFit'
  BY <1>1, <1>6, <1>11, QuietOrphans
<1>16. TasksFit'
  <2>1. UNCHANGED <<in_flight, queued, phase, ending, outcome, orphans>>
    BY <1>1 DEF coordinator
  <2>2. CASE directories' = directories
    BY <1>11, <2>1, <2>2 DEF TasksFit, Counting, Running, Ended, Assigned, In
  <2>3. CASE r = "ok" /\ Completed(directories, directories', d, Children[d], "published")
    <3>1. Apart(directories', in_flight)
      BY <1>3, <2>3, ApartScans
    <3>2. Running => Divided(directories', queued, in_flight)
      <4>1. SUFFICES ASSUME Running PROVE Divided(directories', queued, in_flight)
        OBVIOUS
      <4>2. Divided(directories, queued, in_flight) /\ DOMAIN directories \subseteq Dirs
        BY <1>11, <4>1 DEF TasksFit, TypeOK
      <4>3. d \in Ranging(in_flight)
        BY <1>4 DEF Ranging
      <4> QED BY <1>3, <2>3, <4>2, <4>3, DividedScans
    <3>3. ~ (phase = "stopping" /\ ending = "success")
      <4>1. DOMAIN <<>> = {}
        OBVIOUS
      <4> QED BY <1>4, <1>11, <4>1 DEF PoolFits
    <3> QED BY <1>11, <2>1, <3>1, <3>2, <3>3 DEF TasksFit, Counting, Running, Ended, Assigned
  <2> QED BY <2>2, <2>3
<1>17. PoolFits' /\ EndFits' /\ WorkConserving'
  <2>1. kills' = 0 => orphans' = {}
    BY <1>1, <1>11 DEF PoolFits
  <2>2. worker'[w].stage # "scanning"
    BY <1>1
  <2> QED BY <1>3, <1>6, <2>1, <2>2, QuietRest
<1> QED BY <1>12, <1>13, <1>14, <1>15, <1>16, <1>17 DEF StillPlaced

\* It answers.
LEMMA AnswersKeeps ==
    ASSUME Placed, WorkConserving, phase # "gone", NEW w \in Workers, NEW d, NEW r,
           Answers(w, d, r)
    PROVE  StillPlaced
<1>1. /\ OnlyWorker(w) /\ worker[w].stage = "scanned"
      /\ worker[w].task = d /\ worker[w].result = r
      /\ worker'[w].stage = "receiving" /\ worker'[w].inbox = worker[w].inbox
      /\ Deliver(<<Result(w, d, r)>>)
      /\ UNCHANGED <<directories, orphans, kills>> /\ UNCHANGED coordinator
  BY DEF Answers, store, others
<1>2. Alive(w)
  BY <1>1 DEF Alive
<1>3. /\ ~ Ended /\ Counting /\ phase # "starting" /\ w \in Expecting
      /\ WorkerFits(w) /\ (w \in DOMAIN in_flight => in_flight[w] \notin orphans)
  BY <1>2, AliveFacts
<1>4. /\ TypeOK /\ PoolFits /\ MailFits /\ WorkersFit /\ HeldFits /\ TasksFit /\ OrphansFit
      /\ EndFits
  BY DEF Placed
<1>5. /\ w \in DOMAIN in_flight /\ in_flight[w] = d /\ r \in Results /\ d \in Dirs
      /\ r = "ok" => directories[d] = "published"
      /\ r # "ok" /\ kills = 0 => directories[d] = "pending"
      /\ \A k \in 1 .. Len(worker[w].inbox) :
           worker[w].inbox[k][1] = "stop" /\ phase = "stopping"
  BY <1>1, <1>3, <1>4 DEF WorkerFits, TypeOK
<1> DEFINE m == Result(w, d, r)
<1>6. /\ m \in Messages /\ m.type = "result" /\ m.worker = w /\ m.task = d /\ m.result = r
  BY <1>5, MessageForms
<1> HIDE DEF m
<1>7. Deliver(<<m>>)
  BY <1>1 DEF m
<1>8. Adds1(m)
  BY <1>4, <1>6, <1>7, DeliverAdds
<1>9. Quiet({w})
  BY <1>1, <1>2 DEF Quiet, OnlyWorker, Placed, TypeOK
<1>10. WorkerFits(w)'
  <2>1. UNCHANGED <<in_flight, phase>> /\ Alive(w)'
    BY <1>1 DEF coordinator, Alive
  <2>2. \A k \in 1 .. Len(worker'[w].inbox) :
          worker'[w].inbox[k][1] = "stop" /\ phase = "stopping"
    BY <1>1, <1>5
  <2> QED BY <1>1, <1>5, <2>1, <2>2 DEF WorkerFits
<1>11. ASSUME NEW n \in Messages, FromWorker(n, w), Fits(n) PROVE FALSE
  BY <1>1, <1>2, <1>11, AliveMail
<1>12. Receivable(m)
  <2>1. Fits(m)'
    <3>1. UNCHANGED in_flight
      BY <1>1 DEF coordinator
    <3> QED BY <1>1, <1>5, <1>6, <3>1 DEF Fits
  <2>2. ASSUME NEW k \in 1 .. Len(mailbox) PROVE InOrder(mailbox[k], m)
    <3>1. mailbox[k] \in Messages /\ Fits(mailbox[k])
      BY <1>4, ElementOfSeq DEF TypeOK, MailFits
    <3>2. ~ FromWorker(mailbox[k], w)
      BY <1>11, <3>1
    <3> QED BY <1>6, <3>2 DEF InOrder, FromWorker
  <2>3. \A v \in Workers \ Expecting : ~ FromWorker(m, v)
    BY <1>3, <1>6 DEF FromWorker
  <2> QED BY <1>6, <1>8, <2>1, <2>2, <2>3 DEF Receivable
<1>13. Receives1
  BY <1>12 DEF Receives1
<1>14. MailFits'
  <2>1. \A n \in Messages : FromWorker(n, n.worker) /\ n.worker \in {w} /\ Fits(n)
                              /\ (\E k \in 1 .. Len(mailbox) : mailbox[k] = n) => Fits(n)'
    BY <1>11
  <2> QED BY <1>4, <1>9, <1>13, <2>1, QuietMail
<1>15. WorkersFit'
  <2>1. ASSUME NEW v \in Workers PROVE WorkerFits(v)'
    BY <1>4, <1>9, <1>10, QuietWorkers
  <2> QED BY <2>1 DEF WorkersFit
<1>16. HeldFits'
  <2>1. Held(w)'
    BY <1>6, <1>8 DEF Held, Adds1
  <2> QED BY <1>4, <1>9, <1>13, <2>1, QuietHeld
<1>17. OrphansFit'
  <2>1. \E n : Adds1(n) /\ (n.type = "result" => n.worker \in {w})
    BY <1>6, <1>8
  <2> QED BY <1>1, <1>4, <1>9, <2>1, QuietOrphans
<1>18. TasksFit'
  BY <1>1, <1>4 DEF TasksFit, Counting, Running, Ended, Assigned, In, coordinator
<1>19. PoolFits' /\ EndFits' /\ WorkConserving'
  <2>1. kills' = 0 => orphans' = {}
    BY <1>1, <1>4 DEF PoolFits
  <2>2. worker'[w].stage # "scanning"
    BY <1>1
  <2> QED BY <1>3, <1>9, <2>1, <2>2, QuietRest
<1> QED BY <1>14, <1>15, <1>16, <1>17, <1>18, <1>19 DEF StillPlaced

\* A worker exits, told to or not.
Exits(w) ==
    /\ OnlyWorker(w) /\ Alive(w) /\ worker'[w] = Exited /\ Adds1(Down(w))
    /\ directories' = directories /\ UNCHANGED coordinator

LEMMA ExitKeeps ==
    ASSUME Placed, WorkConserving, phase # "gone", NEW w \in Workers, Exits(w), TypeOK',
           kills' = 0 =>
             /\ kills = 0 /\ phase # "receiving" /\ orphans' = orphans
             /\ w \in DOMAIN in_flight =>
                  \E i \in 1 .. Len(mailbox) : mailbox[i].type = "result" /\ mailbox[i].worker = w,
           OrphansFit', TasksFit'
    PROVE  StillPlaced
<1>1. /\ OnlyWorker(w) /\ Alive(w) /\ worker'[w].stage = "exited" /\ worker'[w].inbox = <<>>
      /\ Adds1(Down(w)) /\ directories' = directories /\ UNCHANGED coordinator
  BY ExitedForm DEF Exits
<1>2. /\ ~ Ended /\ Counting /\ phase # "starting" /\ w \in Expecting
      /\ WorkerFits(w)
  BY <1>1, AliveFacts
<1>3. /\ TypeOK /\ PoolFits /\ MailFits /\ WorkersFit /\ HeldFits /\ TasksFit /\ OrphansFit
      /\ EndFits
  BY DEF Placed
<1> DEFINE m == Down(w)
<1>4. m \in Messages /\ m.type = "down" /\ m.worker = w
  BY MessageForms
<1> HIDE DEF m
<1>5. Adds1(m)
  BY <1>1 DEF m
<1>6. Quiet({w})
  BY <1>1, <1>3 DEF Quiet, OnlyWorker, TypeOK
<1>7. \A k \in 1 .. Len(worker'[w].inbox) : FALSE
  BY <1>1
<1>8. UNCHANGED <<in_flight, phase, outcome>>
  BY <1>1 DEF coordinator
<1>9. WorkerFits(w)'
  BY <1>1, <1>2, <1>7, <1>8 DEF WorkerFits
<1>10. ASSUME NEW n \in Messages, FromWorker(n, w), Fits(n) PROVE n.type = "result" /\ Fits(n)'
  <2>1. n.type = "result" /\ n.worker = w
    BY <1>1, <1>10, AliveMail DEF FromWorker
  <2> QED BY <1>1, <1>7, <1>8, <1>10, <2>1 DEF Fits
<1>11. Receivable(m)
  <2>1. Fits(m)'
    BY <1>1, <1>4 DEF Fits
  <2>2. ASSUME NEW k \in 1 .. Len(mailbox) PROVE InOrder(mailbox[k], m)
    <3>1. mailbox[k] \in Messages /\ Fits(mailbox[k])
      BY <1>3, ElementOfSeq DEF TypeOK, MailFits
    <3>2. PICK n \in Messages : n = mailbox[k]
      BY <3>1
    <3>3. FromWorker(n, w) => n.type = "result"
      BY <1>10, <3>1, <3>2
    <3> QED BY <1>4, <3>2, <3>3 DEF InOrder, FromWorker
  <2>3. \A v \in Workers \ Expecting : ~ FromWorker(m, v)
    BY <1>2, <1>4 DEF FromWorker
  <2> QED BY <1>4, <1>5, <2>1, <2>2, <2>3 DEF Receivable
<1>12. Receives1
  BY <1>11 DEF Receives1
<1>13. MailFits'
  <2>1. \A n \in Messages : FromWorker(n, n.worker) /\ n.worker \in {w} /\ Fits(n)
                              /\ (\E k \in 1 .. Len(mailbox) : mailbox[k] = n) => Fits(n)'
    BY <1>10
  <2> QED BY <1>3, <1>6, <1>12, <2>1, QuietMail
<1>14. WorkersFit'
  <2>1. ASSUME NEW v \in Workers PROVE WorkerFits(v)'
    BY <1>3, <1>6, <1>9, QuietWorkers
  <2> QED BY <2>1 DEF WorkersFit
<1>15. HeldFits'
  <2>1. ASSUME kills' = 0, w \in DOMAIN in_flight PROVE Held(w)'
    <3>1. PICK i \in 1 .. Len(mailbox) : mailbox[i].type = "result" /\ mailbox[i].worker = w
      BY <2>1
    <3>2. i \in 1 .. Len(mailbox') /\ mailbox'[i] = mailbox[i]
      BY <1>3, <1>12, ReceivesGrows
    <3> QED BY <3>1, <3>2 DEF Held
  <2> QED BY <1>3, <1>6, <1>12, <2>1, QuietHeld
<1>16. PoolFits' /\ EndFits' /\ WorkConserving'
  <2>1. kills' = 0 => orphans' = {}
    BY <1>3 DEF PoolFits
  <2>2. worker'[w].stage # "scanning"
    BY <1>1
  <2> QED BY <1>2, <1>6, <2>1, <2>2, QuietRest
<1> QED BY <1>13, <1>14, <1>15, <1>16 DEF StillPlaced

LEMMA ObeysKeeps ==
    ASSUME Placed, WorkConserving, phase # "gone", NEW w \in Workers, Obeys(w), TypeOK'
    PROVE  StillPlaced
<1>1. /\ OnlyWorker(w) /\ worker[w].stage = "receiving"
      /\ Len(worker[w].inbox) \in Nat \ {0}
      /\ worker[w].inbox[1][1] \in {"stop", "owner_down"}
      /\ worker'[w] = Exited /\ Deliver(<<Down(w)>>)
      /\ UNCHANGED <<directories, orphans, kills>> /\ UNCHANGED coordinator
  BY DEF Obeys, store, others
<1>2. Alive(w)
  BY <1>1 DEF Alive
<1>3. WorkerFits(w) /\ (w \in DOMAIN in_flight => in_flight[w] \notin orphans)
  BY <1>2, AliveFacts
<1>4. /\ TypeOK /\ PoolFits /\ HeldFits /\ TasksFit /\ OrphansFit
  BY DEF Placed
<1>5. Adds1(Down(w)) /\ Down(w).type = "down"
  BY <1>1, <1>4, MessageForms, DeliverAdds
<1>6. phase = "stopping" /\ \A k \in 1 .. Len(worker[w].inbox) : worker[w].inbox[k][1] # "scan"
  <2>1. 1 \in 1 .. Len(worker[w].inbox) /\ worker[w].inbox[1][1] = "stop"
    BY <1>1, <1>3 DEF WorkerFits
  <2> QED BY <1>3, <2>1 DEF WorkerFits
<1>7. kills' = 0 /\ w \in DOMAIN in_flight =>
        \E i \in 1 .. Len(mailbox) : mailbox[i].type = "result" /\ mailbox[i].worker = w
  BY <1>1, <1>4, <1>6 DEF HeldFits
<1>8. Quiet({w})
  BY <1>1, <1>2, <1>4 DEF Quiet, OnlyWorker, TypeOK
<1>9. OrphansFit'
  <2>1. \E n : Adds1(n) /\ (n.type = "result" => n.worker \in {w})
    BY <1>5
  <2> QED BY <1>1, <1>4, <1>8, <2>1, QuietOrphans
<1>10. TasksFit'
  BY <1>1, <1>4 DEF TasksFit, Counting, Running, Ended, Assigned, In, coordinator
<1>11. Exits(w)
  BY <1>1, <1>2, <1>5 DEF Exits
<1> QED BY <1>1, <1>6, <1>7, <1>9, <1>10, <1>11, ExitKeeps

LEMMA FallsKeeps ==
    ASSUME Placed, WorkConserving, phase # "gone", NEW w \in Workers, Falls(w), TypeOK'
    PROVE  StillPlaced
<1>1. /\ OnlyWorker(w) /\ Alive(w) /\ worker'[w] = Exited
      /\ orphans' = IF worker[w].stage = "scanning" THEN orphans \cup {worker[w].task} ELSE orphans
      /\ Deliver(<<Down(w)>>) /\ kills' = kills + 1
      /\ directories' = directories /\ UNCHANGED coordinator
  BY DEF Falls, store
<1>2. /\ ~ Ended /\ Counting /\ Apart(directories, in_flight)
      /\ WorkerFits(w) /\ (w \in DOMAIN in_flight => in_flight[w] \notin orphans)
  BY <1>1, AliveFacts
<1>3. TypeOK /\ PoolFits /\ MailFits /\ TasksFit /\ OrphansFit /\ kills' # 0
  BY <1>1 DEF Placed, TypeOK
<1>4. Adds1(Down(w)) /\ Down(w).type = "down"
  BY <1>1, <1>3, MessageForms, DeliverAdds
<1>5. Quiet({w})
  BY <1>1, <1>3 DEF Quiet, OnlyWorker, TypeOK
<1>6. CASE worker[w].stage # "scanning"
  <2>1. orphans' = orphans
    BY <1>1, <1>6
  <2>2. OrphansFit'
    <3>1. \E n : Adds1(n) /\ (n.type = "result" => n.worker \in {w})
      BY <1>4
    <3> QED BY <1>3, <1>5, <2>1, <3>1, QuietOrphans
  <2>3. TasksFit'
    BY <1>1, <1>3, <2>1 DEF TasksFit, Counting, Running, Ended, Assigned, In, coordinator
  <2>4. Exits(w)
    BY <1>1, <1>4 DEF Exits
  <2> QED BY <1>3, <2>2, <2>3, <2>4, ExitKeeps
<1>7. CASE worker[w].stage = "scanning"
  <2>1. w \in DOMAIN in_flight /\ orphans' = orphans \cup {in_flight[w]}
    BY <1>1, <1>2, <1>7 DEF WorkerFits
  <2>2. OrphansFit'
    <3> SUFFICES ASSUME NEW v \in DOMAIN in_flight', in_flight'[v] \in orphans'
                 PROVE  /\ worker'[v].stage = "exited"
                        /\ \A i \in 1 .. Len(mailbox') :
                             ~ (mailbox'[i].type = "result" /\ mailbox'[i].worker = v)
      BY DEF OrphansFit
    <3>1. v \in DOMAIN in_flight /\ v \in Workers /\ in_flight'[v] = in_flight[v]
      BY <1>1, <1>3 DEF coordinator, TypeOK
    <3>2. /\ worker'[v].stage = "exited"
          /\ \A i \in 1 .. Len(mailbox) : ~ (mailbox[i].type = "result" /\ mailbox[i].worker = v)
      <4>1. CASE v = w
        <5>1. ASSUME NEW i \in 1 .. Len(mailbox), mailbox[i].type = "result", mailbox[i].worker = w
              PROVE  FALSE
          <6>1. mailbox[i] \in Messages /\ Fits(mailbox[i])
            BY <1>3, ElementOfSeq DEF TypeOK, MailFits
          <6> QED BY <1>1, <1>7, <5>1, <6>1, AliveMail DEF FromWorker
        <5> QED BY <1>1, <4>1, <5>1, ExitedForm
      <4>2. CASE v # w
        <5>1. in_flight[v] \in orphans
          BY <1>2, <2>1, <3>1, <4>2 DEF Apart
        <5> QED BY <1>1, <1>3, <3>1, <4>2, <5>1 DEF OrphansFit, OnlyWorker
      <4> QED BY <4>1, <4>2
    <3>3. ASSUME NEW i \in 1 .. Len(mailbox')
          PROVE  ~ (mailbox'[i].type = "result" /\ mailbox'[i].worker = v)
      <4>1. CASE i \in 1 .. Len(mailbox)
        BY <1>4, <3>2, <4>1 DEF Adds1
      <4>2. CASE i = Len(mailbox) + 1
        BY <1>4, <4>2 DEF Adds1
      <4> QED BY <1>4, <4>1, <4>2 DEF Adds1
    <3> QED BY <3>2, <3>3
  <2>3. TasksFit'
    <3>1. Running => orphans' \subseteq Assigned
      BY <1>3, <2>1 DEF TasksFit, Assigned, Ranging
    <3>2. ~ (phase = "stopping" /\ ending = "success")
      <4>1. DOMAIN <<>> = {}
        OBVIOUS
      <4> QED BY <1>3, <2>1, <4>1 DEF PoolFits
    <3> QED BY <1>1, <1>3, <3>1, <3>2 DEF TasksFit, Counting, Running, Ended, Assigned, coordinator
  <2>4. Exits(w)
    BY <1>1, <1>4 DEF Exits
  <2> QED BY <1>3, <2>2, <2>3, <2>4, ExitKeeps
<1> QED BY <1>6, <1>7

\* The scan of a dead worker returns.
LEMMA OrphanKeeps ==
    ASSUME Placed, WorkConserving, phase # "gone", NEW d \in Dirs, OrphanScans(d)
    PROVE  StillPlaced
<1>1. /\ TypeOK /\ PoolFits /\ MailFits /\ WorkersFit /\ HeldFits /\ TasksFit /\ OrphansFit
      /\ EndFits
  BY DEF Placed
<1>2. /\ d \in orphans /\ orphans' = orphans \ {d}
      /\ UNCHANGED <<mailbox, worker, kills>> /\ UNCHANGED coordinator
      /\ \/ directories' = directories
         \/ Completed(directories, directories', d, Children[d], "published")
  BY <1>1, OrphanDoes DEF store
<1>3. kills # 0 /\ phase # "starting"
  BY <1>1, <1>2 DEF PoolFits
<1>4. \A v \in DOMAIN in_flight :
        directories[in_flight[v]] = "published" => directories'[in_flight[v]] = "published"
  <2>1. SUFFICES ASSUME NEW v \in DOMAIN in_flight, directories[in_flight[v]] = "published"
                 PROVE  directories'[in_flight[v]] = "published"
    OBVIOUS
  <2>2. ~ Ended
    <3>1. DOMAIN <<>> = {}
      OBVIOUS
    <3> QED BY <1>1, <2>1, <3>1 DEF EndFits
  <2>3. in_flight[v] \in DOMAIN directories
    BY <1>1, <2>1, <2>2, <1>2 DEF TasksFit, Counting, Apart, Quiet
  <2> QED BY <1>2, <2>1, <2>3 DEF Completed
<1>5. Quiet({})
  BY <1>1, <1>2, <1>3, <1>4 DEF Quiet, TypeOK
<1>6. Receives1
  BY <1>2 DEF Receives1
<1>7. MailFits'
  BY <1>1, <1>5, <1>6, QuietMail
<1>8. WorkersFit'
  <2>1. ASSUME NEW v \in Workers PROVE WorkerFits(v)'
    BY <1>1, <1>5, QuietWorkers
  <2> QED BY <2>1 DEF WorkersFit
<1>9. HeldFits'
  BY <1>1, <1>5, <1>6, QuietHeld
<1>10. OrphansFit'
  BY <1>1, <1>2, <1>5, QuietOrphans
<1>11. TasksFit'
  <2>1. UNCHANGED <<in_flight, queued, phase, ending, outcome>>
    BY <1>2 DEF coordinator
  <2>2. ~ (phase = "stopping" /\ ending = "success")
    BY <1>1, <1>2 DEF TasksFit
  <2>3. Counting => Apart(directories', in_flight)
    BY <1>1, <1>2, ApartScans DEF TasksFit
  <2>4. Running => Divided(directories', queued, in_flight) /\ orphans' \subseteq Assigned
    <3>1. SUFFICES ASSUME Running
                   PROVE  Divided(directories', queued, in_flight) /\ orphans' \subseteq Assigned
      OBVIOUS
    <3>2. /\ Divided(directories, queued, in_flight) /\ Apart(directories, in_flight)
          /\ orphans \subseteq Ranging(in_flight) /\ DOMAIN directories \subseteq Dirs
      BY <1>1, <3>1 DEF TasksFit, TypeOK, Running, Counting, Assigned
    <3>3. Divided(directories', queued, in_flight)
      BY <1>2, <3>2, DividedScans
    <3> QED BY <1>2, <3>2, <3>3 DEF Assigned
  <2> QED BY <2>1, <2>2, <2>3, <2>4 DEF TasksFit, Counting, Running, Ended, Assigned
<1>12. PoolFits' /\ EndFits' /\ WorkConserving'
  <2>1. kills' # 0
    BY <1>2, <1>3
  <2> QED BY <1>3, <1>5, <2>1, QuietRest
<1> QED BY <1>7, <1>8, <1>9, <1>10, <1>11, <1>12 DEF StillPlaced

LEMMA CallKeeps ==
    ASSUME Placed, WorkConserving, NEW c \in Callers, NEW request \in Requests, Calls(c, request)
    PROVE  StillPlaced
<1>1. /\ TypeOK /\ PoolFits /\ MailFits /\ WorkersFit /\ HeldFits /\ TasksFit /\ OrphansFit
      /\ EndFits
  BY DEF Placed
<1> DEFINE m == [type |-> request, caller |-> c]
<1>2. m \in Messages /\ m.type = request /\ request \notin {"result", "down"}
  BY MessageForms DEF Requests
<1> HIDE DEF m
<1>3. /\ phase # "gone" /\ Adds1(m)
      /\ UNCHANGED <<directories, worker, orphans, kills>> /\ UNCHANGED coordinator
  BY DEF Calls, m, store
<1>4. Quiet({})
  BY <1>1, <1>3 DEF Quiet, TypeOK
<1>5. Receives1
  <2>1. Receivable(m)
    BY <1>2, <1>3 DEF Receivable, Fits, InOrder, FromWorker
  <2> QED BY <2>1 DEF Receives1
<1>6. MailFits'
  BY <1>1, <1>4, <1>5, QuietMail
<1>7. WorkersFit'
  <2>1. ASSUME NEW v \in Workers PROVE WorkerFits(v)'
    BY <1>1, <1>4, QuietWorkers
  <2> QED BY <2>1 DEF WorkersFit
<1>8. HeldFits'
  BY <1>1, <1>4, <1>5, QuietHeld
<1>9. OrphansFit'
  <2>1. \E n : Adds1(n) /\ (n.type = "result" => n.worker \in {})
    BY <1>2, <1>3
  <2> QED BY <1>1, <1>3, <1>4, <2>1, QuietOrphans
<1>10. TasksFit'
  BY <1>1, <1>3 DEF TasksFit, Counting, Running, Ended, Assigned, In, coordinator
<1>11. PoolFits' /\ EndFits' /\ WorkConserving'
  <2>1. kills' = 0 => orphans' = {}
    BY <1>1, <1>3 DEF PoolFits
  <2> QED BY <1>3, <1>4, <2>1, QuietRest
<1> QED BY <1>6, <1>7, <1>8, <1>9, <1>10, <1>11 DEF StillPlaced

\* After the coordinator is gone only its workers still move.
LEMMA GoneStays ==
    ASSUME Placed, phase = "gone", phase' = "gone", UNCHANGED <<mailbox, root_open, ending>>,
           UNCHANGED <<outcome, worker_references, in_flight, awaited>>,
           \A v \in Workers : ~ Alive(v) => ~ Alive(v)',
           \A v \in Workers : worker'[v].stage = "scanning" => worker'[v].task \in Dirs,
           kills' = 0 => orphans' = {}
    PROVE  StillPlaced
<1>1. PoolFits /\ EndFits
  BY DEF Placed
<1>2. MailFits' /\ WorkersFit' /\ HeldFits' /\ OrphansFit' /\ TasksFit' /\ WorkConserving'
  BY DEF MailFits, WorkersFit, HeldFits, OrphansFit, TasksFit, Counting, Running, WorkConserving
<1>3. PoolFits'
  BY <1>1 DEF PoolFits
<1>4. EndFits'
  BY <1>1 DEF EndFits, Ended
<1> QED BY <1>2, <1>3, <1>4 DEF StillPlaced

LEMMA WorkKeeps ==
    ASSUME Placed, WorkConserving, NEW w \in Workers, Work(w) \/ Falls(w), TypeOK'
    PROVE  StillPlaced
<1>1. TypeOK /\ PoolFits
  BY DEF Placed
<1>2. \/ \E d : TakesTask(w, d) \/ Publishes(w, d)
      \/ Obeys(w) \/ Falls(w)
      \/ \E d, r : Errs(w, d, r) \/ Answers(w, d, r)
  BY <1>1, WorkDoes
<1>3. CASE phase # "gone"
  <2>1. ASSUME NEW d, TakesTask(w, d) PROVE StillPlaced
    BY <1>3, <2>1, TakesKeeps
  <2>2. ASSUME NEW d, Publishes(w, d) PROVE StillPlaced
    <3>1. Completed(directories, directories', d, Children[d], "published")
      BY <1>1, <2>2, PublishDoes
    <3>2. Returns(w, d, "ok")
      BY <2>2 DEF Publishes
    <3> QED BY <1>3, <3>1, <3>2, ReturnsKeeps
  <2>3. ASSUME NEW d, NEW r, Errs(w, d, r) PROVE StillPlaced
    <3>1. Returns(w, d, r) /\ r # "ok" /\ directories' = directories
      BY <2>3 DEF Errs, store
    <3> QED BY <1>3, <3>1, ReturnsKeeps
  <2>4. ASSUME NEW d, NEW r, Answers(w, d, r) PROVE StillPlaced
    BY <1>3, <2>4, AnswersKeeps
  <2>5. CASE Obeys(w)
    BY <1>3, <2>5, ObeysKeeps
  <2>6. CASE Falls(w)
    BY <1>3, <2>6, FallsKeeps
  <2> QED BY <1>2, <2>1, <2>2, <2>3, <2>4, <2>5, <2>6
<1>4. CASE phase = "gone"
  <2>1. /\ phase' = "gone" /\ UNCHANGED <<root_open, ending>>
        /\ UNCHANGED <<outcome, worker_references, in_flight, awaited>>
    BY <1>2, <1>4 DEF TakesTask, Publishes, Returns, Obeys, Falls, Errs, Answers, coordinator
  <2>2. UNCHANGED mailbox
    BY <1>2, <1>4 DEF TakesTask, Publishes, Returns, Obeys, Falls, Errs, Answers, Deliver
  <2>3. Alive(w) /\ OnlyWorker(w)
    BY <1>2 DEF TakesTask, Publishes, Returns, Obeys, Falls, Errs, Answers, Alive
  <2>4. \A v \in Workers : ~ Alive(v) => ~ Alive(v)'
    BY <2>3 DEF OnlyWorker, Alive
  <2>5. worker'[w].stage = "scanning" => worker'[w].task \in Dirs
    BY <1>2, ExitedForm DEF TakesTask, Publishes, Returns, Obeys, Falls, Errs, Answers
  <2>6. \A v \in Workers : worker'[v].stage = "scanning" => worker'[v].task \in Dirs
    BY <1>1, <2>3, <2>5 DEF OnlyWorker, PoolFits
  <2>7. kills' = 0 => orphans' = {}
    <3>1. CASE UNCHANGED <<kills, orphans>>
      BY <1>1, <3>1 DEF PoolFits
    <3>2. CASE kills' = kills + 1
      BY <1>1, <3>2 DEF TypeOK
    <3> QED BY <1>2, <3>1, <3>2 DEF TakesTask, Publishes, Returns, Obeys, Falls, Errs, Answers, others
  <2> QED BY <1>4, <2>1, <2>2, <2>4, <2>6, <2>7, GoneStays
<1> QED BY <1>3, <1>4

LEMMA PlacedKept ==
    ASSUME Placed, WorkConserving, [Next]_vars, TypeOK'
    PROVE  StillPlaced
<1>1. TypeOK /\ PoolFits
  BY DEF Placed
<1>2. CASE StartWorkers
  BY <1>2, StartKeeps
<1>3. CASE HandleResult
  BY <1>3, ResultProceeds, ProceedsKeeps
<1>4. CASE HandleDown
  BY <1>4, DownKeeps
<1>5. CASE HandleAwait
  BY <1>5, AwaitKeeps
<1>6. CASE HandlePutRankData
  BY <1>6, RankKeeps
<1>7. CASE HandleTerminate
  BY <1>7, TerminateKeeps
<1>8. CASE AwaitWorkerShutdown
  BY <1>8, ShutdownKeeps
<1>9. CASE Finalize
  BY <1>9, FinalizeKeeps
<1>10. CASE Terminated \/ KillCoordinator
  BY <1>10, GoneKeeps
<1>11. ASSUME NEW w \in Workers, Work(w) \/ KillWorker(w) PROVE StillPlaced
  <2>1. Work(w) \/ Falls(w)
    BY <1>1, <1>11, KillDoes
  <2> QED BY <2>1, WorkKeeps
<1>12. ASSUME NEW d \in Dirs, OrphanScans(d) PROVE StillPlaced
  <2>1. CASE phase # "gone"
    BY <1>12, <2>1, OrphanKeeps
  <2>2. CASE phase = "gone"
    <3>1. /\ d \in orphans /\ UNCHANGED <<mailbox, worker, kills>> /\ UNCHANGED coordinator
      BY <1>1, <1>12, OrphanDoes
    <3>2. kills' # 0
      BY <1>1, <3>1 DEF PoolFits
    <3>3. /\ phase' = "gone" /\ UNCHANGED <<root_open, ending>>
          /\ UNCHANGED <<outcome, worker_references, in_flight, awaited>>
      BY <2>2, <3>1 DEF coordinator
    <3>4. \A v \in Workers : ~ Alive(v) => ~ Alive(v)'
      BY <3>1 DEF Alive
    <3>5. \A v \in Workers : worker'[v].stage = "scanning" => worker'[v].task \in Dirs
      BY <1>1, <3>1 DEF PoolFits
    <3> QED BY <2>2, <3>1, <3>2, <3>3, <3>4, <3>5, GoneStays
  <2> QED BY <2>1, <2>2
<1>13. ASSUME NEW c \in Callers, Call(c, "await") \/ Call(c, "put_rank_data") \/ Stop(c)
       PROVE  StillPlaced
  <2>1. PICK request \in Requests : Calls(c, request)
    BY <1>1, <1>13, CallDoes
  <2> QED BY <2>1, CallKeeps
<1>14. CASE UNCHANGED vars
  <2>1. UNCHANGED <<directories, mailbox, worker, orphans, kills>> /\ UNCHANGED coordinator
    BY <1>14 DEF vars, store, others
  <2>2. /\ PoolFits /\ MailFits /\ WorkersFit /\ HeldFits /\ TasksFit /\ OrphansFit /\ EndFits
    BY DEF Placed
  <2>3. UNCHANGED <<queued, in_flight, idle_workers, worker_references, counters, outcome,
                    phase, ending, awaited, root_open>>
    BY <2>1 DEF coordinator
  <2>4. MailFits'
    BY <2>1, <2>2, <2>3 DEF MailFits, Fits, InOrder, FromWorker, Expecting, Alive
  <2>5. WorkersFit' /\ HeldFits' /\ OrphansFit'
    BY <2>1, <2>2, <2>3 DEF WorkersFit, WorkerFits, HeldFits, OrphansFit, Alive, Ended
  <2>6. PoolFits' /\ EndFits' /\ WorkConserving'
    BY <2>1, <2>2, <2>3 DEF PoolFits, EndFits, WorkConserving, Alive, Ended
  <2>7. TasksFit'
    BY <2>1, <2>2, <2>3 DEF TasksFit, Counting, Running, Ended, Assigned, In
  <2> QED BY <2>4, <2>5, <2>6, <2>7 DEF StillPlaced
<1> QED BY <1>2, <1>3, <1>4, <1>5, <1>6, <1>7, <1>8, <1>9, <1>10, <1>11, <1>12, <1>13,
           <1>14 DEF Next, Coordinate

-----------------------------------------------------------------------------
\* The store is part of the tree, and failures are counted.

StoreStep ==
    \/ directories' = directories /\ counters'.failures = counters.failures
    \/ \E d \in Dirs : /\ Store!Complete(d, {}, "failed")
                       /\ counters'.failures = counters.failures + 1
    \/ \E d \in Dirs : /\ Store!Complete(d, Children[d], "published")
                       /\ counters'.failures = counters.failures

LEMMA AccountsSteps ==
    ASSUME TypeOK, NEW d \in Dirs, NEW r, Accounts(d, r)
    PROVE  StoreStep
<1>1. /\ Merged(counters, d).failures = counters.failures
      /\ FailureRecorded(counters).failures = counters.failures + 1
  BY CountersTyped
<1> QED BY <1>1 DEF Accounts, StoreStep

LEMMA StoreSteps ==
    ASSUME Placed, [Next]_vars, TypeOK'
    PROVE  StoreStep
<1>1. TypeOK
  BY DEF Placed
<1>2. CASE UNCHANGED <<store, counters>>
  BY <1>2 DEF StoreStep, store
<1>3. CASE HandleResult
  <2>1. PICK w, d, r : Replied(w, d, r) /\ Accounts(d, r)
    BY <1>3, ResultProceeds
  <2> QED BY <1>1, <2>1, AccountsSteps DEF Replied
<1>4. CASE AwaitWorkerShutdown
  <2>1. ASSUME NEW i, NEW w, NEW d, NEW r, Settled(i, w, d, r) PROVE StoreStep
    <3>1. /\ d \in Dirs
          /\ \/ counters' = Merged(counters, d) /\ UNCHANGED store
             \/ Store!Complete(d, {}, "failed") /\ counters' = FailureRecorded(counters)
             \/ UNCHANGED <<store, counters>>
      BY <2>1 DEF Settled
    <3>2. /\ Merged(counters, d).failures = counters.failures
          /\ FailureRecorded(counters).failures = counters.failures + 1
      BY <1>1, <3>1, CountersTyped
    <3> QED BY <1>2, <3>1, <3>2 DEF StoreStep, store
  <2>2. ASSUME NEW i, NEW w, Leaves(i, w) PROVE UNCHANGED <<store, counters>>
    BY <2>2 DEF Leaves
  <2> QED BY <1>2, <1>4, <2>1, <2>2, ShutdownReceived
<1>5. ASSUME NEW w \in Workers, Work(w) PROVE StoreStep
  <2>1. CASE \E d : Publishes(w, d)
    <3>1. PICK d : Publishes(w, d)
      BY <2>1
    <3>2. d \in Dirs /\ Store!Complete(d, Children[d], "published") /\ counters' = counters
      BY <1>1, <3>1, PublishDoes DEF Publishes, Returns, coordinator
    <3> QED BY <3>2 DEF StoreStep
  <2>2. CASE UNCHANGED <<store, counters>>
    BY <1>2, <2>2
  <2> QED BY <1>1, <1>5, <2>1, <2>2, WorkDoes
          DEF TakesTask, Obeys, Errs, Returns, Answers, coordinator
<1>6. ASSUME NEW d \in Dirs, OrphanScans(d) PROVE StoreStep
  <2>1. CASE Store!Complete(d, Children[d], "published")
    BY <1>6, <2>1 DEF OrphanScans, coordinator, StoreStep
  <2> QED BY <1>2, <1>6, <2>1 DEF OrphanScans, coordinator
<1>7. CASE StartWorkers \/ HandleDown \/ HandleAwait \/ HandlePutRankData \/ HandleTerminate
  BY <1>2, <1>7 DEF StartWorkers, HandleDown, HandleAwait, HandlePutRankData, HandleTerminate
<1>8. CASE Finalize \/ Terminated \/ KillCoordinator
  BY <1>2, <1>8 DEF Finalize, Terminated, KillCoordinator
<1>9. ASSUME NEW w \in Workers, KillWorker(w) PROVE StoreStep
  BY <1>2, <1>9 DEF KillWorker, coordinator
<1>10. ASSUME NEW c \in Callers, Call(c, "await") \/ Call(c, "put_rank_data") \/ Stop(c)
       PROVE  StoreStep
  BY <1>2, <1>10 DEF Call, Stop, coordinator
<1>11. CASE UNCHANGED vars
  BY <1>2, <1>11 DEF vars, coordinator
<1> QED BY <1>3, <1>4, <1>5, <1>6, <1>7, <1>8, <1>9, <1>10, <1>11 DEF Next, Coordinate

LEMMA TreeKept ==
    ASSUME Placed, [Next]_vars, TypeOK'
    PROVE  TreeFits'
<1>1. /\ TypeOK
      /\ DOMAIN directories = {Root} \cup UNION {Children[d] : d \in In("published")}
      /\ IsFiniteSet(In("published")) /\ IsFiniteSet(In("failed"))
      /\ counters.failures = Cardinality(In("failed"))
  BY DEF Placed, TreeFits
<1>2. CASE directories' = directories /\ counters'.failures = counters.failures
  <2>1. In("published")' = In("published") /\ In("failed")' = In("failed")
    BY <1>2 DEF In
  <2> QED BY <1>1, <1>2, <2>1 DEF TreeFits
<1>3. ASSUME NEW d \in Dirs, Store!Complete(d, {}, "failed"),
             counters'.failures = counters.failures + 1
      PROVE  TreeFits'
  <2>1. {} \in SUBSET Dirs /\ "failed" \in {"published", "failed"} /\ "failed" \in States
    BY DEF States
  <2>2. DOMAIN directories' = DOMAIN directories \cup {}
    BY <1>1, <1>3, <2>1, CompleteDoes DEF Completed
  <2>3. /\ d \notin In("failed") /\ In("published")' = In("published")
        /\ In("failed")' = In("failed") \cup {d}
    BY <1>1, <1>3, <2>1, CompletedSets
  <2>4. /\ IsFiniteSet(In("failed") \cup {d})
        /\ Cardinality(In("failed") \cup {d}) = Cardinality(In("failed")) + 1
    BY <1>1, <2>3, FS_AddElement
  <2> QED BY <1>1, <1>3, <2>2, <2>3, <2>4 DEF TreeFits
<1>4. ASSUME NEW d \in Dirs, Store!Complete(d, Children[d], "published"),
             counters'.failures = counters.failures
      PROVE  TreeFits'
  <2>1. /\ Children[d] \in SUBSET Dirs /\ "published" \in {"published", "failed"}
        /\ "published" \in States
    BY TreeAssumption DEF States
  <2>2. DOMAIN directories' = DOMAIN directories \cup Children[d]
    <3>1. Completed(directories, directories', d, Children[d], "published")
      BY <1>1, <1>4, <2>1, CompleteDoes
    <3> QED BY <3>1 DEF Completed
  <2>3. /\ In("published")' = In("published") \cup {d}
        /\ In("failed")' = In("failed")
    BY <1>1, <1>4, <2>1, CompletedSets
  <2>4. IsFiniteSet(In("published") \cup {d})
    BY <1>1, FS_AddElement
  <2>5. DOMAIN directories' = {Root} \cup UNION {Children[e] : e \in In("published")'}
    BY <1>1, <2>2, <2>3
  <2> QED BY <1>1, <1>4, <2>3, <2>4, <2>5 DEF TreeFits
<1> QED BY <1>2, <1>3, <1>4, StoreSteps DEF StoreStep

-----------------------------------------------------------------------------
\* The counters count what is published and not in a result on its way.

\* The coordinator's tasks and the counters do not change, the store may.
LEMMA CountsStay ==
    ASSUME Placed, CountersFit, Counting, UNCHANGED <<counters, in_flight>>,
           In("published") \subseteq In("published")',
           Accountable' => Accountable /\ In("published")' \subseteq In("published") \cup Assigned
    PROVE  CountersFit'
<1>1. PICK C \in SUBSET Dirs : Counts(C)
  BY DEF CountersFit
<1>2. Counts(C)'
  BY <1>1 DEF Counts, Assigned
<1> QED BY <1>2 DEF CountersFit

\* A result counts once: its directory was in flight, and is no more.
LEMMA CountsMore ==
    ASSUME Placed, NEW C \in SUBSET Dirs, Counts(C), NEW d \in Dirs, d \in In("published"),
           d \in Assigned, counters' = Merged(counters, d)
    PROVE  /\ counters'.entries = RowsOf(C \cup {d})
           /\ counters'.metadata_errors = 0 => (C \cup {d}) \cap Flawed = {}
<1>1. TypeOK /\ IsFiniteSet(In("published"))
  BY DEF Placed, TreeFits
<1>2. /\ counters'.entries = counters.entries + Rows[d] /\ Rows[d] \in Nat
      /\ counters'.metadata_errors = counters.metadata_errors + (IF d \in Flawed THEN 1 ELSE 0)
      /\ counters.metadata_errors \in Nat /\ counters.entries \in Nat
  BY <1>1, CountersTyped DEF TypeOK, Counters
<1>3. IsFiniteSet(C) /\ d \notin C
  BY <1>1, FS_Subset DEF Counts
<1>4. \A e \in C \cup {d} : Rows[e] \in Nat
  BY RowsAssumption
<1>5. RowsOf(C \cup {d}) = Rows[d] + RowsOf(C)
  BY <1>3, <1>4, SumAdds DEF RowsOf
<1>6. counters.entries = RowsOf(C) /\ (counters.metadata_errors = 0 => C \cap Flawed = {})
  BY DEF Counts
<1>7. counters'.entries = RowsOf(C \cup {d})
  BY <1>2, <1>5, <1>6
<1>8. counters'.metadata_errors = 0 => counters.metadata_errors = 0 /\ d \notin Flawed
  BY <1>2
<1> QED BY <1>6, <1>7, <1>8

\* The coordinator handles a result, before or in the shutdown.
LEMMA ResultCounts ==
    ASSUME Placed, CountersFit, Counting, NEW w, NEW d \in Dirs, NEW r, NEW busy,
           w \in DOMAIN in_flight, in_flight[w] = d, Others(in_flight, w, busy),
           r = "ok" => directories[d] = "published",
           kills = 0 /\ r # "ok" => directories[d] = "pending",
           Accounts(d, r), Moves(busy), Accountable' => Accountable
    PROVE  CountersFit'
<1>1. PICK C \in SUBSET Dirs : Counts(C)
  BY DEF CountersFit
<1>2. TypeOK /\ Apart(directories, in_flight)
  BY DEF Placed, TasksFit
<1>3. Ranging(in_flight) = Ranging(busy) \cup {d} /\ d \notin Ranging(busy)
  BY <1>2, OthersRange
<1>4. /\ C \subseteq In("published") /\ counters.entries = RowsOf(C)
      /\ C \cap Ranging(busy) = {} /\ d \notin C
      /\ counters.metadata_errors = 0 => C \cap Flawed = {}
      /\ Accountable' => In("published") \subseteq C \cup Ranging(busy) \cup {d}
  BY SMTT(30), ZenonT(30), <1>1, <1>3 DEF Counts, Assigned
<1>5. /\ Ranging(busy) \subseteq Assigned' /\ UNCHANGED kills
      /\ \A e \in Assigned' : e \in Ranging(busy) \/ directories'[e] = "pending"
  <2>1. /\ UNCHANGED kills /\ DOMAIN in_flight' = DOMAIN busy \cup New(busy)
        /\ \A v \in DOMAIN busy : in_flight'[v] = busy[v]
        /\ \A v \in New(busy) : directories'[in_flight'[v]] = "pending"
    BY DEF Moves
  <2>2. Assigned' = {in_flight'[v] : v \in DOMAIN in_flight'}
    BY DEF Assigned, Ranging
  <2>3. Ranging(busy) = {busy[v] : v \in DOMAIN busy}
    BY DEF Ranging
  <2> HIDE DEF New
  <2> QED BY SMTT(30), ZenonT(30), <2>1, <2>2, <2>3
<1>6. ASSUME NEW D \in SUBSET Dirs, D \subseteq In("published")', counters'.entries = RowsOf(D),
             D \cap Ranging(busy) = {}, counters'.metadata_errors = 0 => D \cap Flawed = {},
             Accountable' => In("published")' \subseteq D \cup Ranging(busy)
      PROVE  CountersFit'
  <2>1. D \cap Assigned' = {}
    BY <1>5, <1>6 DEF In
  <2>2. Accountable' => In("published")' \subseteq D \cup Assigned'
    BY <1>5, <1>6
  <2>3. Counts(D)'
    BY <1>6, <2>1, <2>2 DEF Counts
  <2> QED BY <2>3 DEF CountersFit
<1>7. CASE r = "ok" /\ counters' = Merged(counters, d) /\ directories' = directories
  <2>1. d \in In("published") /\ In("published")' = In("published") /\ d \in Assigned
    BY <1>2, <1>3, <1>7 DEF In, Assigned, Apart
  <2>2. /\ counters'.entries = RowsOf(C \cup {d})
        /\ counters'.metadata_errors = 0 => (C \cup {d}) \cap Flawed = {}
    BY <1>1, <1>7, <2>1, CountsMore
  <2>3. (C \cup {d}) \in SUBSET Dirs /\ (C \cup {d}) \cap Ranging(busy) = {}
    BY <1>3, <1>4
  <2> QED BY <1>4, <1>6, <2>1, <2>2, <2>3
<1>8. CASE Store!Complete(d, {}, "failed") /\ counters' = FailureRecorded(counters)
  <2>1. {} \in SUBSET Dirs /\ "failed" \in {"published", "failed"}
    OBVIOUS
  <2>2. In("published")' = In("published") /\ d \notin In("published")
    BY <1>2, <1>8, <2>1, CompletedSets
  <2>3. counters'.entries = counters.entries /\ counters'.metadata_errors = counters.metadata_errors
    BY <1>2, <1>8, CountersTyped
  <2> QED BY <1>4, <1>6, <2>2, <2>3
<1>9. CASE /\ r # "ok" /\ directories' = directories /\ counters' = counters
           /\ phase' = "stopping" /\ ending' # "success"
  <2>1. In("published")' = In("published")
    BY <1>9 DEF In
  <2>2. Accountable' => d \notin In("published")
    BY <1>5, <1>9 DEF Accountable, Running, In
  <2> QED BY <1>4, <1>6, <1>9, <2>1, <2>2
<1> QED BY <1>7, <1>8, <1>9 DEF Accounts

LEMMA CountersKept ==
    ASSUME Placed, CountersFit, [Next]_vars, TypeOK'
    PROVE  CountersFit'
<1>1. /\ TypeOK /\ PoolFits /\ TasksFit /\ EndFits /\ MailFits
  BY DEF Placed
<1>2. CASE ~ Counting'
  BY <1>2 DEF CountersFit
<1>3. ASSUME Counting, UNCHANGED <<directories, counters, in_flight, ending, kills>>,
             Running' => Running
      PROVE  CountersFit'
  <2>1. In("published")' = In("published") /\ (Accountable' => Accountable)
    BY <1>3 DEF In, Accountable
  <2> QED BY <1>3, <2>1, CountsStay
<1>4. CASE StartWorkers
  <2>1. /\ phase = "starting" /\ Counting /\ Running /\ ~ Ended
        /\ directories = [e \in {Root} |-> "pending"] /\ directories' = directories
        /\ counters' = counters
    BY <1>1, <1>4 DEF PoolFits, StartWorkers, Counting, Running, store
  <2>2. In("published") = {} /\ In("published")' = {}
    BY <2>1 DEF In
  <2>3. PICK C \in SUBSET Dirs : Counts(C)
    BY <2>1 DEF CountersFit
  <2>4. Counts(C)'
    BY <2>1, <2>2, <2>3 DEF Counts
  <2> QED BY <2>4 DEF CountersFit
<1>5. CASE HandleResult
  <2>1. PICK w, d, r : Replied(w, d, r) /\ Accounts(d, r) /\ Proceeds(1, {w}, Without(in_flight, w))
    BY <1>5, ResultProceeds
  <2> DEFINE busy == Without(in_flight, w)
  <2>2. /\ w \in DOMAIN in_flight /\ in_flight[w] = d /\ d \in Dirs /\ Running /\ Counting
        /\ r = "ok" => directories[d] = "published"
        /\ kills = 0 /\ r # "ok" => directories[d] = "pending"
        /\ w \in Workers
    BY <2>1 DEF Replied, Running, Counting
  <2>3. Moves(busy) /\ Others(in_flight, w, busy)
    BY <1>1, <2>1, <2>2, WithoutDoes DEF Proceeds, Others
  <2>4. Accountable
    BY <2>2 DEF Accountable
  <2> HIDE DEF busy
  <2> QED BY <2>1, <2>2, <2>3, <2>4, ResultCounts
<1>6. CASE HandleDown
  <2>1. PICK w :
          /\ Dies(w)
          /\ FinishFatal(queued, idle_workers \ {w}, Without(in_flight, w),
                         worker_references \ {w}, "worker")
          /\ UNCHANGED <<store, counters, waiters, outcome, root_open, orphans, kills, caller>>
    BY <1>6, DownReceived
  <2>2. /\ Counting /\ kills' # 0 /\ directories' = directories /\ counters' = counters
        /\ in_flight' = Without(in_flight, w) /\ phase' = "stopping" /\ ending' = "worker"
    BY <2>1 DEF Dies, Running, Counting, FinishFatal, StopWorkerPool, store
  <2>3. ~ Accountable' /\ Assigned' \subseteq Assigned
    BY <2>2 DEF Accountable, Running, Assigned, Ranging, Without
  <2>4. PICK C \in SUBSET Dirs : Counts(C)
    BY <2>2 DEF CountersFit
  <2>5. Counts(C)'
    <3>1. C \subseteq In("published")'
      BY <2>2, <2>4 DEF Counts, In
    <3> QED BY <2>2, <2>3, <2>4, <3>1 DEF Counts
  <2> QED BY <2>5 DEF CountersFit
<1>7. CASE HandleAwait
  <2>1. UNCHANGED <<directories, counters, in_flight, ending, kills, phase, outcome>>
    BY <1>7 DEF HandleAwait, store
  <2> QED BY <1>2, <1>3, <2>1 DEF Counting, Running, Ended
<1>8. CASE HandlePutRankData
  <2>1. UNCHANGED <<directories, counters, kills, outcome>> /\ phase = "receiving"
    BY <1>8 DEF HandlePutRankData, Receives, store
  <2>2. CASE Ended
    BY <1>2, <2>1, <2>2 DEF Ended, Counting
  <2>3. CASE ~ Ended
    <3>1. /\ Running /\ Counting /\ worker_references = Workers
          /\ idle_workers = Workers \ DOMAIN in_flight
          /\ DispatchAndFinish(queued, idle_workers, in_flight)
      BY <1>1, <1>8, <2>1, <2>3 DEF Running, Counting, Ended, PoolFits, HandlePutRankData
    <3>2. /\ queued \in SUBSET Dirs /\ idle_workers \in SUBSET Workers
          /\ DOMAIN in_flight \subseteq Workers /\ in_flight \in [DOMAIN in_flight -> Dirs]
          /\ worker_references \subseteq Workers
      BY <1>1 DEF TypeOK
    <3>3. HandsOut(queued, idle_workers, in_flight)
      BY <1>1, <3>1, <3>2, DispatchDoes
    <3>4. \A e \in queued : directories[e] = "pending"
      BY <1>1, <3>1 DEF TasksFit, Divided
    <3>5. Assigned \subseteq Assigned' /\ \A e \in Assigned' : e \in Assigned \/ e \in queued
      BY <3>3 DEF Assigned, Ranging, HandsOut
    <3>6. PICK C \in SUBSET Dirs : Counts(C)
      BY <3>1 DEF CountersFit
    <3>7. In("published")' = In("published") /\ Accountable
      BY <2>1, <3>1 DEF In, Accountable
    <3>8. C \cap Assigned' = {}
      BY <3>4, <3>5, <3>6 DEF Counts, In
    <3>9. Counts(C)'
      BY <2>1, <3>5, <3>6, <3>7, <3>8 DEF Counts
    <3> QED BY <3>9 DEF CountersFit
  <2> QED BY <2>2, <2>3
<1>9. CASE HandleTerminate
  <2>1. /\ UNCHANGED <<directories, counters, in_flight, kills, outcome>>
        /\ phase = "receiving" /\ phase' = "stopping" /\ ending' = "terminate"
    BY <1>9 DEF HandleTerminate, Receives, StopWorkerPool, store, others
  <2>2. In("published")' = In("published") /\ (Accountable' => Accountable)
    BY <2>1 DEF In, Accountable, Running
  <2>3. Counting' => Counting
    BY <2>1 DEF Counting, Ended
  <2> QED BY <1>2, <2>1, <2>2, <2>3, CountsStay
<1>10. CASE AwaitWorkerShutdown
  <2>1. UNCHANGED <<outcome, phase, ending, kills, worker, root_open, orphans>>
    BY <1>10, ShutdownReceived
  <2>2. ASSUME NEW i, NEW w, NEW d, NEW r, Settled(i, w, d, r) PROVE CountersFit'
    <3> DEFINE busy == Without(in_flight, w)
    <3>1. /\ w \in DOMAIN in_flight /\ in_flight[w] = d /\ d \in Dirs /\ w \in Workers
          /\ Counting /\ phase = "stopping"
          /\ r = "ok" => directories[d] = "published"
          /\ kills = 0 /\ r # "ok" => directories[d] = "pending"
          /\ in_flight' = busy
      BY <2>2 DEF Settled, Counting
    <3>2. ending # "success"
      <4>1. DOMAIN <<>> = {}
        OBVIOUS
      <4> QED BY <1>1, <3>1, <4>1 DEF PoolFits
    <3>3. Others(in_flight, w, busy) /\ DOMAIN busy \subseteq Workers
      BY <1>1, <3>1, WithoutDoes DEF Others
    <3>4. Accounts(d, r)
      BY <2>1, <2>2, <3>1, <3>2 DEF Settled, Accounts, store
    <3> HIDE DEF busy
    <3>5. New(busy) = {}
      BY <3>1 DEF New
    <3>6. Moves(busy)
      BY <1>1, <2>1, <3>1, <3>3, <3>5 DEF Moves, TypeOK
    <3>7. Accountable' => Accountable
      BY <2>1 DEF Accountable, Running, Ended
    <3> QED BY <3>1, <3>3, <3>4, <3>6, <3>7, ResultCounts
  <2>3. ASSUME NEW i, NEW w, Leaves(i, w) PROVE CountersFit'
    <3>1. UNCHANGED <<directories, counters, in_flight>>
      BY <2>3 DEF Leaves, store
    <3> QED BY <1>2, <1>3, <2>1, <3>1 DEF Counting, Running, Ended
  <2> QED BY <1>10, <2>2, <2>3, ShutdownReceived
<1>11. CASE Finalize
  BY <1>1, <1>2, <1>11, FinalizeTypes DEF Counting, Ended
<1>12. CASE Terminated \/ KillCoordinator
  BY <1>2, <1>12 DEF Terminated, KillCoordinator, Gone, Counting
<1>13. ASSUME NEW w \in Workers, Work(w) PROVE CountersFit'
  <2>1. UNCHANGED <<counters, in_flight, ending, kills, phase, outcome>>
    BY SMTT(10), ZenonT(60), <1>1, <1>13, WorkDoes
       DEF TakesTask, Publishes, Obeys, Errs, Returns, Answers, coordinator, others
  <2>2. CASE directories' = directories
    BY <1>2, <1>3, <2>1, <2>2 DEF Counting, Running, Ended
  <2>3. ASSUME NEW d, Publishes(w, d), Counting PROVE CountersFit'
    <3>1. /\ worker[w].stage = "scanning" /\ worker[w].task = d
          /\ Store!Complete(d, Children[d], "published")
      BY <2>3 DEF Publishes, Returns
    <3>2. WorkerFits(w)
      BY <2>3 DEF Placed, WorkersFit, Counting
    <3>3. d \in Assigned
      BY <3>1, <3>2 DEF WorkerFits, Assigned, Ranging
    <3>4. Children[d] \in SUBSET Dirs /\ "published" \in {"published", "failed"}
      BY <1>1, <2>3, PublishDoes
    <3>5. In("published")' = In("published") \cup {d}
      BY <1>1, <3>1, <3>4, CompletedSets
    <3>6. Accountable' => Accountable
      BY <2>1 DEF Accountable, Running, Ended
    <3> QED BY <2>1, <2>3, <3>3, <3>5, <3>6, CountsStay
  <2>4. directories' = directories \/ \E d : Publishes(w, d)
    BY <1>1, <1>13, WorkDoes DEF TakesTask, Obeys, Errs, Answers, store
  <2>5. Counting' => Counting
    BY <2>1 DEF Counting, Ended
  <2> QED BY <1>2, <2>2, <2>3, <2>4, <2>5
<1>14. ASSUME NEW w \in Workers, KillWorker(w) PROVE CountersFit'
  <2>1. UNCHANGED <<directories, counters, in_flight, ending, phase, outcome>> /\ kills' # 0
    BY <1>1, <1>14 DEF KillWorker, coordinator, store, TypeOK
  <2>2. In("published")' = In("published") /\ (Accountable' => Accountable)
    BY <2>1 DEF In, Accountable, Running, Ended
  <2>3. Counting' => Counting
    BY <2>1 DEF Counting, Ended
  <2> QED BY <1>2, <2>1, <2>2, <2>3, CountsStay
<1>15. ASSUME NEW d \in Dirs, OrphanScans(d) PROVE CountersFit'
  <2>1. /\ UNCHANGED <<counters, in_flight, ending, phase, outcome, kills>> /\ d \in orphans
        /\ directories' = directories \/ Store!Complete(d, Children[d], "published")
    BY <1>15 DEF OrphanScans, coordinator, store
  <2>2. CASE directories' = directories
    BY <1>2, <1>3, <2>1, <2>2 DEF Counting, Running, Ended
  <2>3. CASE Counting /\ Store!Complete(d, Children[d], "published")
    <3>1. Children[d] \in SUBSET Dirs /\ "published" \in {"published", "failed"}
      BY TreeAssumption
    <3>2. In("published")' = In("published") \cup {d}
      BY <1>1, <2>3, <3>1, CompletedSets
    <3>3. kills # 0
      BY <1>1, <2>1 DEF PoolFits
    <3>4. ending # "success"
      BY <1>1, <2>1, <2>3 DEF PoolFits, TasksFit, Counting, TypeOK, Phases
    <3>5. Accountable' => Running
      BY <2>1, <3>3, <3>4 DEF Accountable, Running, Ended
    <3>6. Running => d \in Assigned
      BY <1>1, <2>1 DEF TasksFit
    <3>7. Accountable' => Accountable /\ In("published")' \subseteq In("published") \cup Assigned
      BY <3>2, <3>5, <3>6 DEF Accountable
    <3> QED BY <2>1, <2>3, <3>2, <3>7, CountsStay
  <2>4. Counting' => Counting
    BY <2>1 DEF Counting, Ended
  <2> QED BY <1>2, <2>1, <2>2, <2>3, <2>4
<1>16. ASSUME NEW c \in Callers, Call(c, "await") \/ Call(c, "put_rank_data") \/ Stop(c)
       PROVE  CountersFit'
  <2>1. UNCHANGED <<directories, counters, in_flight, ending, kills, phase, outcome>>
    BY <1>16 DEF Call, Stop, coordinator, store
  <2> QED BY <1>2, <1>3, <2>1 DEF Counting, Running, Ended
<1>17. CASE UNCHANGED vars
  <2>1. UNCHANGED <<directories, counters, in_flight, ending, kills, phase, outcome>>
    BY <1>17 DEF vars, coordinator, store, others
  <2> QED BY <1>2, <1>3, <2>1 DEF Counting, Running, Ended
<1> QED BY <1>4, <1>5, <1>6, <1>7, <1>8, <1>9, <1>10, <1>11, <1>12, <1>13, <1>14, <1>15, <1>16,
           <1>17 DEF Next, Coordinate

-----------------------------------------------------------------------------
\* The report.

\* After the outcome only the scan of a dead worker changes the store.
LateScan ==
    kills # 0 /\ \E d \in Dirs : Store!Complete(d, Children[d], "published")

LEMMA EndedSteps ==
    ASSUME Placed, Ended, [Next]_vars
    PROVE  /\ outcome' = outcome /\ (kills' = 0 => kills = 0)
           /\ directories' = directories \/ LateScan
<1>1. /\ TypeOK /\ PoolFits
      /\ phase # "starting" /\ (phase = "stopping" => ending = "terminate")
      /\ \A w \in Workers : ~ Alive(w)
  BY DEF Placed, EndFits
<1>2. CASE HandleResult
  BY <1>2, ResultReceived DEF Replied, Running
<1>3. CASE HandleDown
  BY <1>3, DownReceived DEF Dies, Running
<1>4. CASE AwaitWorkerShutdown
  BY <1>4, ShutdownReceived DEF Settled, Leaves
<1>5. CASE StartWorkers \/ Finalize
  BY <1>1, <1>5 DEF StartWorkers, Finalize
<1>6. CASE HandleAwait \/ HandlePutRankData \/ HandleTerminate
  BY <1>6 DEF HandleAwait, HandlePutRankData, HandleTerminate, store, others
<1>7. CASE Terminated \/ KillCoordinator
  BY <1>1, <1>7 DEF Terminated, KillCoordinator, store, TypeOK
<1>8. ASSUME NEW w \in Workers, Work(w) \/ KillWorker(w) PROVE FALSE
  BY <1>1, <1>8 DEF Work, WorkerReceives, WorkerScans, WorkerSends, KillWorker, Alive
<1>9. ASSUME NEW d \in Dirs, OrphanScans(d)
      PROVE  /\ outcome' = outcome /\ kills' = kills
             /\ directories' = directories \/ LateScan
  BY <1>1, <1>9 DEF OrphanScans, PoolFits, coordinator, store, LateScan
<1>10. ASSUME NEW c \in Callers, Call(c, "await") \/ Call(c, "put_rank_data") \/ Stop(c)
       PROVE  outcome' = outcome /\ kills' = kills /\ directories' = directories
  BY <1>10 DEF Call, Stop, coordinator, store
<1>11. CASE UNCHANGED vars
  BY <1>11 DEF vars, coordinator, store, others
<1> QED BY <1>2, <1>3, <1>4, <1>5, <1>6, <1>7, <1>8, <1>9, <1>10, <1>11 DEF Next, Coordinate

ReportFits == SuccessIsComplete /\ ReportCountsTheStore /\ StoreStaysAsReported

LEMMA ReportStays ==
    ASSUME Placed, ReportFits, Ended, [Next]_vars
    PROVE  ReportFits'
<1>1. /\ outcome' = outcome /\ (kills' = 0 => kills = 0) /\ TypeOK
      /\ directories' = directories \/ LateScan
  BY EndedSteps DEF Placed
<1>2. CASE directories' = directories
  <2>1. /\ In("pending")' = In("pending") /\ In("published")' = In("published")
        /\ In("failed")' = In("failed")
    BY <1>2 DEF In
  <2> QED BY <1>1, <2>1 DEF ReportFits, SuccessIsComplete, ReportCountsTheStore,
                            StoreStaysAsReported, Ended
<1>3. CASE LateScan
  <2>1. PICK d \in Dirs : kills # 0 /\ Store!Complete(d, Children[d], "published")
    BY <1>3 DEF LateScan
  <2>2. Children[d] \in SUBSET Dirs /\ "published" \in {"published", "failed"}
    BY TreeAssumption
  <2>3. /\ In("published")' = In("published") \cup {d} /\ In("failed")' = In("failed")
        /\ d \in In("pending")
    BY <1>1, <2>1, <2>2, CompletedSets
  <2>4. kills' # 0
    BY <1>1, <2>1
  <2> QED BY <1>1, <2>3, <2>4 DEF ReportFits, SuccessIsComplete, ReportCountsTheStore,
                                  StoreStaysAsReported, Ended
<1> QED BY <1>1, <1>2, <1>3

\* The outcome is made of what the store and the counters hold.
LEMMA ReportIsMade ==
    ASSUME Placed, CountersFit, Finalize
    PROVE  ReportFits'
<1>1. /\ TypeOK /\ PoolFits /\ TasksFit /\ TreeFits
      /\ phase = "stopping" /\ awaited = {} /\ ending # "terminate"
      /\ outcome' = [kind |-> ending, report |-> Report(ending = "success")]
      /\ directories' = directories /\ kills' = kills
  BY DEF Placed, Finalize, store
<1>2. Counting /\ Ended' /\ (kills = 0 => in_flight = <<>>)
  BY <1>1, FinalizeKeeps DEF Counting
<1>3. /\ outcome'.kind = ending
      /\ outcome'.report.complete = /\ ending = "success"
                                    /\ In("pending") = {} /\ In("failed") = {}
                                    /\ counters.metadata_errors = 0
      /\ outcome'.report.entries = counters.entries
      /\ outcome'.report.failures = counters.failures
      /\ outcome'.report.published = In("published") /\ outcome'.report.failed = In("failed")
  BY <1>1 DEF Report
<1>4. /\ In("pending")' = In("pending") /\ In("published")' = In("published")
      /\ In("failed")' = In("failed")
  BY <1>1 DEF In
<1>5. PICK C \in SUBSET Dirs : Counts(C)
  BY <1>2 DEF CountersFit
<1>6. in_flight = <<>> => Assigned = {}
  <2>1. SUFFICES ASSUME in_flight = <<>> PROVE Assigned = {}
    OBVIOUS
  <2>2. DOMAIN in_flight = {}
    BY <2>1
  <2> QED BY <2>2 DEF Assigned, Ranging
<1>7. SuccessIsComplete'
  <2>1. SUFFICES ASSUME ending = "success"
        PROVE  /\ In("pending") = {}
               /\ outcome'.report.complete =>
                    In("published") = {Root} \cup UNION {Children[d] : d \in In("published")}
               /\ outcome'.report.complete => In("published") \cap Flawed = {}
    BY <1>3, <1>4 DEF SuccessIsComplete
  <2>2. In("pending") = {} /\ in_flight = <<>>
    BY <1>1, <2>1 DEF TasksFit, PoolFits
  <2>3. In("failed") = {} => In("published") = DOMAIN directories
    BY <1>1, <2>2 DEF In, TypeOK, States
  <2>4. In("published") \subseteq C
    BY <1>5, <1>6, <2>1, <2>2 DEF Counts, Accountable
  <2> QED BY <1>1, <1>3, <1>5, <2>2, <2>3, <2>4 DEF TreeFits, Counts
<1>8. ReportCountsTheStore'
  <2>1. /\ IsFiniteSet(In("published")) /\ C \subseteq In("published")
        /\ \A d \in In("published") : Rows[d] \in Nat
    BY <1>1, <1>5, RowsAssumption DEF TreeFits, Counts, In, TypeOK
  <2>2. RowsOf(C) <= RowsOf(In("published"))
    BY <2>1, SumOfPart DEF RowsOf
  <2>3. kills = 0 => C = In("published")
    BY <1>2, <1>5, <1>6 DEF Counts, Accountable
  <2> QED BY <1>1, <1>3, <1>4, <1>5, <2>2, <2>3 DEF ReportCountsTheStore, TreeFits, Counts
<1>9. StoreStaysAsReported'
  BY SMTT(30), ZenonT(30), <1>3, <1>4 DEF StoreStaysAsReported
<1> QED BY <1>7, <1>8, <1>9 DEF ReportFits

LEMMA OutcomeSteps ==
    ASSUME ~ Ended, [Next]_vars
    PROVE  Finalize \/ ~ Ended'
BY DEF Next, Coordinate, StartWorkers, HandleResult, HandleDown, HandleAwait, HandlePutRankData,
       HandleTerminate, AwaitWorkerShutdown, Terminated, KillCoordinator, Work, WorkerReceives,
       WorkerScans, WorkerSends, KillWorker, OrphanScans, Call, Stop, coordinator, vars, Ended

LEMMA ReportKept ==
    ASSUME Placed, CountersFit, ReportFits, [Next]_vars
    PROVE  ReportFits'
<1>1. CASE Ended
  BY <1>1, ReportStays
<1>2. CASE Finalize
  BY <1>2, ReportIsMade
<1>3. CASE ~ Ended'
  BY <1>3 DEF ReportFits, SuccessIsComplete, ReportCountsTheStore, StoreStaysAsReported
<1> QED BY <1>1, <1>2, <1>3, OutcomeSteps

-----------------------------------------------------------------------------
\* The invariant, and what it says.

LEMMA InitInv == Init => Inv
<1> SUFFICES ASSUME Init PROVE Inv
  OBVIOUS
<1>1. /\ directories = [d \in {Root} |-> "pending"] /\ Root \in Dirs
      /\ root_open = TRUE
      /\ queued = {Root} /\ in_flight = <<>> /\ idle_workers = {} /\ worker_references = {}
      /\ counters = NoCounters /\ waiters = {} /\ outcome = NULL
      /\ phase = "starting" /\ ending = "none" /\ awaited = {} /\ mailbox = <<>>
      /\ worker = [w \in Workers |-> Process("unborn", NULL, "none", <<>>)]
      /\ orphans = {} /\ kills = 0 /\ caller = [c \in Callers |-> "idle"]
  BY TreeAssumption DEF Init, Store!Init
<1>2. ~ Ended /\ DOMAIN in_flight = {} /\ Ranging(in_flight) = {} /\ Len(mailbox) = 0
  BY <1>1 DEF Ended, Ranging
<1>3. ASSUME NEW w \in Workers
      PROVE  /\ worker[w] \in Processes /\ worker[w].stage = "unborn"
             /\ worker[w].inbox = <<>>
  <2>1. /\ "unborn" \in Stages /\ NULL \in Dirs \cup {NULL} /\ "none" \in Results \cup {"none"}
        /\ <<>> \in Seq(Orders)
    BY EmptySeq DEF Stages
  <2>2. Process("unborn", NULL, "none", <<>>) \in Processes
    BY <2>1 DEF Process, Processes
  <2> QED BY <1>1, <2>2 DEF Process
<1>4. In("published") = {} /\ In("failed") = {} /\ In("pending") = {Root}
  BY <1>1 DEF In
<1>5. TypeOK
  <2>1. mailbox \in Seq(Messages) /\ counters \in Counters /\ caller \in [Callers -> Replies]
    BY <1>1, EmptySeq DEF Counters, NoCounters, Replies
  <2>2. worker \in [Workers -> Processes]
    BY <1>1, <1>3
  <2>3. directories \in [DOMAIN directories -> States] /\ DOMAIN directories \subseteq Dirs
    BY <1>1 DEF States
  <2> QED BY <1>1, <2>1, <2>2, <2>3 DEF TypeOK, Phases
<1>6. PoolFits
  BY <1>1, <1>2, <1>3 DEF PoolFits
<1>7. MailFits
  <2>1. \A i \in 1 .. Len(mailbox) : FALSE
    BY <1>2
  <2> QED BY <1>3, <2>1 DEF MailFits, Alive
<1>8. WorkersFit
  <2> SUFFICES ASSUME NEW w \in Workers PROVE WorkerFits(w)
    BY DEF WorkersFit
  <2>1. \A k \in 1 .. Len(worker[w].inbox) : FALSE
    BY <1>3
  <2> QED BY <1>1, <1>3, <2>1 DEF WorkerFits
<1>9. HeldFits /\ OrphansFit /\ EndFits /\ WorkConserving
  BY <1>1, <1>2 DEF HeldFits, OrphansFit, EndFits, WorkConserving
<1>10. TasksFit
  <2>1. Announced(directories, in_flight) = {}
    BY <1>2 DEF Announced
  <2>2. Divided(directories, queued, in_flight)
    BY <1>1, <1>2, <2>1 DEF Divided
  <2>3. Apart(directories, in_flight)
    BY <1>2 DEF Apart
  <2> QED BY <1>1, <2>2, <2>3 DEF TasksFit
<1>11. TreeFits
  <2>1. IsFiniteSet({}) /\ Cardinality({}) = 0
    BY FS_EmptySet
  <2> QED BY <1>1, <1>4, <2>1 DEF TreeFits, NoCounters
<1>12. CountersFit
  <2>1. RowsOf({}) = 0
    BY FS_EmptySet, SumStep DEF RowsOf
  <2>2. Counts({})
    BY <1>1, <1>4, <2>1 DEF Counts, NoCounters
  <2> QED BY <2>2 DEF CountersFit
<1>13. SuccessIsComplete /\ ReportCountsTheStore /\ StoreStaysAsReported
  BY <1>2 DEF SuccessIsComplete, ReportCountsTheStore, StoreStaysAsReported
<1> QED BY <1>5, <1>6, <1>7, <1>8, <1>9, <1>10, <1>11, <1>12, <1>13 DEF Inv

LEMMA InvKept == Inv /\ [Next]_vars => Inv'
<1> SUFFICES ASSUME Inv, [Next]_vars PROVE Inv'
  OBVIOUS
<1>1. Placed /\ WorkConserving /\ CountersFit /\ ReportFits
  BY DEF Inv, Placed, ReportFits
<1>2. TypeOK'
  BY <1>1, TypesKept
<1>3. StillPlaced
  BY <1>1, <1>2, PlacedKept
<1>4. TreeFits' /\ CountersFit' /\ ReportFits'
  BY <1>1, <1>2, TreeKept, CountersKept, ReportKept
<1> QED BY <1>2, <1>3, <1>4 DEF Inv, StillPlaced, ReportFits

LEMMA InvHolds == Spec => []Inv
BY InitInv, InvKept, PTL DEF Spec

LEMMA InvLosesNoTask == Inv => NoTaskIsLost
<1> SUFFICES ASSUME Inv PROVE NoTaskIsLost
  OBVIOUS
<1>1. /\ TypeOK /\ PoolFits /\ MailFits /\ TasksFit /\ EndFits /\ WorkConserving
  BY DEF Inv
<1>2. TasksAreSomewhere
  <2>1. SUFFICES ASSUME Running
        PROVE  LET assigned == Ranging(in_flight)
                   announced ==
                     UNION {Children[d] : d \in {e \in assigned : directories[e] = "published"}}
               IN /\ In("pending") = queued \cup announced
                                       \cup {d \in assigned : directories[d] = "pending"}
                  /\ queued \cap assigned = {}
                  /\ \A v, w \in DOMAIN in_flight : in_flight[v] = in_flight[w] => v = w
    BY DEF TasksAreSomewhere, Running
  <2>2. Divided(directories, queued, in_flight) /\ Apart(directories, in_flight)
    BY <1>1, <2>1 DEF TasksFit, Running, Counting
  <2> QED BY <2>2 DEF Divided, Apart, Announced, In
<1>3. MessagesAreExpected
  <2>1. ending # "mismatch"
    BY <1>1 DEF PoolFits
  <2>2. ASSUME NEW i \in DOMAIN mailbox
        PROVE  /\ mailbox[i].type = "result" =>
                    /\ mailbox[i].worker \in DOMAIN in_flight
                    /\ in_flight[mailbox[i].worker] = mailbox[i].task
               /\ mailbox[i].type = "down" => mailbox[i].worker \in worker_references
    <3>1. /\ i \in 1 .. Len(mailbox) /\ mailbox[i] \in Messages /\ phase # "gone"
      <4>1. mailbox \in Seq(Messages) /\ DOMAIN mailbox = 1 .. Len(mailbox)
        BY <1>1, LenProperties DEF TypeOK
      <4>2. DOMAIN <<>> = {}
        OBVIOUS
      <4> QED BY <1>1, <2>2, <4>1, <4>2, ElementOfSeq DEF PoolFits
    <3>2. Fits(mailbox[i])
      BY <1>1, <3>1 DEF MailFits
    <3>3. ASSUME mailbox[i].type = "down" PROVE mailbox[i].worker \in worker_references
      <4>1. mailbox[i].worker \in Workers
        BY <3>1, <3>3, MessageFields
      <4>2. mailbox[i].worker \in Expecting
        BY <1>1, <3>1, <3>3, <4>1 DEF MailFits, FromWorker
      <4> QED BY <1>1, <4>2 DEF Expecting, PoolFits
    <3> QED BY <3>2, <3>3 DEF Fits
  <2> QED BY <2>1, <2>2 DEF MessagesAreExpected
<1> QED BY <1>1, <1>2, <1>3 DEF NoTaskIsLost

\* No task is lost, handed out twice or left with an idle worker, and every
\* message of a worker is one that indexer.ex expects, whatever the tree, the
\* size of the pool, the order of the messages and the processes killed.
THEOREM TasksStaySomewhere == Spec => []NoTaskIsLost
BY InvHolds, InvLosesNoTask, PTL

LEMMA InvReports == Inv => ReportStaysTrue
<1> SUFFICES ASSUME Inv PROVE ReportStaysTrue
  OBVIOUS
<1>1. PoolStopsBeforeOutcome
  BY DEF Inv, EndFits, PoolFits, PoolStopsBeforeOutcome, Alive
<1> QED BY <1>1 DEF Inv, ReportStaysTrue

\* The report is true of the store when finalize announces it and from then on,
\* and no worker lives that could make it wrong: finish_success, finish_fatal and
\* the shutdown of the pool settle every result first.
THEOREM ReportRemainsTrue == Spec => []ReportStaysTrue
BY InvHolds, InvReports, PTL

=============================================================================
