------------------------------- MODULE Session -------------------------------
(***************************************************************************)
(* A Rust client (rust_client/src/client.rs) and the BEAM it has spawned,  *)
(* where the bridge (findex_rust/bridge.ex) serves one request after       *)
(* another and pushes an event when a traversal has ended.  Two pipes join *)
(* them, each a first-in first-out sequence of frames.  A traversal is a   *)
(* coordinator, which Indexer specifies, and a waiter: a task that calls   *)
(* await on it and sends the outcome to the bridge.                        *)
(***************************************************************************)
EXTENDS Integers, Sequences, FiniteSets, SequencesExt

CONSTANTS MaxIndexId,      \* @maximum_request_id, as a bound on index ids
          MaxRequestId,    \* u64::MAX, as a bound on request ids
          Requests,        \* the operations the client asks for
          MaxCrashes,      \* bound on coordinators that crash
          MaxKills         \* bound on BEAM processes killed from outside

AllRequests == {"ping", "start_scan", "index_status", "read", "await_scan",
                "release_index", "shutdown"}

ASSUME IndexIdAssumption == MaxIndexId \in Nat
ASSUME RequestIdAssumption == MaxRequestId \in Nat
ASSUME RequestsAssumption == Requests \subseteq AllRequests
ASSUME BoundsAssumption == MaxCrashes \in Nat /\ MaxKills \in Nat

VARIABLES
    indexes,          \* the bridge: [handle -> [waiter, outcome, emitted]]
    next_index_id,
    bridge,           \* what its process is doing
    coordinator,      \* [Ids -> state of the traversal's GenServer]
    waiter,           \* [Ids -> state of the task, with its message to the bridge]
    requests,         \* the stdin pipe
    input_open,       \* the client holds its end of it
    frames,           \* the stdout pipe: responses and events
    client,           \* what the client is doing
    next_request_id,
    events,           \* completions the client has read and not yet used
    held,             \* handles the client has and has not released
    awaited,          \* indexes whose completion it has used
    released,
    result,           \* of the last call
    crashes, kills

beam == <<indexes, next_index_id, bridge, coordinator, waiter>>
user == <<client, next_request_id, events, held, awaited, released, result>>
faults == <<crashes, kills>>
vars == <<beam, requests, input_open, frames, user, faults>>

Ids == 0 .. MaxIndexId
NoId == -1

Running(i) == coordinator[i] \in {"running", "finished"}
NewIndex == [waiter |-> TRUE, outcome |-> "none", emitted |-> FALSE]

Response(id, status, i) == [type |-> "response", id |-> id, status |-> status, index |-> i]
Event(i, outcome) == [type |-> "event", id |-> NoId, status |-> outcome, index |-> i]

Idle == [stage |-> "idle", op |-> "none", index |-> NoId, id |-> NoId]
Loop == [at |-> "loop", index |-> NoId, id |-> NoId]
Exiting == [Loop EXCEPT !.at = "exiting"]
Gone == [Loop EXCEPT !.at = "gone"]
-----------------------------------------------------------------------------
Init ==
    /\ indexes = <<>> /\ next_index_id = 0 /\ bridge = Loop
    /\ coordinator = [i \in Ids |-> "none"] /\ waiter = [i \in Ids |-> "none"]
    /\ requests = <<>> /\ input_open = TRUE /\ frames = <<>>
    /\ client = Idle /\ next_request_id = 0 /\ events = <<>>
    /\ held = {} /\ awaited = {} /\ released = {} /\ result = "none"
    /\ crashes = 0 /\ kills = 0

\* event_loop receives the next request frame.
Asked(op) == bridge.at = "loop" /\ requests # <<>> /\ Head(requests).op = op
Take == requests' = Tail(requests)
\* What is written for a client that is gone is lost.
Emit(fs) == frames' = IF client.stage = "gone" THEN frames ELSE frames \o fs
Answer(status, i) == Emit(<<Response(Head(requests).id, status, i)>>)

HandlePing ==
    /\ Asked("ping") /\ Answer("ok", NoId) /\ Take
    /\ UNCHANGED <<beam, input_open, user, faults>>

HandlesLeft == next_index_id <= MaxIndexId

\* start_scan: a coordinator linked to the bridge and a waiter; or the options
\* are refused, or the start fails, or the handles are used up.
HandleStartScan ==
    /\ Asked("start_scan") /\ Take
    /\ \/ /\ HandlesLeft
          /\ indexes' = [i \in DOMAIN indexes \cup {next_index_id} |->
                           IF i = next_index_id THEN NewIndex ELSE indexes[i]]
          /\ next_index_id' = next_index_id + 1
          /\ coordinator' = [coordinator EXCEPT ![next_index_id] = "running"]
          /\ waiter' = [waiter EXCEPT ![next_index_id] = "waiting"]
          /\ Answer("ok", next_index_id)
       \/ /\ Answer("error", NoId)
          /\ UNCHANGED <<indexes, next_index_id, coordinator, waiter>>
    /\ UNCHANGED <<bridge, input_open, user, faults>>

\* index_status calls the coordinator, which may be gone, or busy for longer
\* than the call's timeout.
HandleIndexStatus ==
    /\ Asked("index_status") /\ Take
    /\ LET i == Head(requests).index
       IN \/ i \in DOMAIN indexes /\ Running(i) /\ Answer("ok", i)
          \/ Answer("error", i)
    /\ UNCHANGED <<beam, input_open, user, faults>>

\* completed_directories, fetch_directory and summarize_directories only read
\* the store, which outlives the coordinator.
HandleRead ==
    /\ Asked("read") /\ Take
    /\ LET i == Head(requests).index
       IN \/ i \in DOMAIN indexes /\ Answer("ok", i)
          \/ Answer("error", i)
    /\ UNCHANGED <<beam, input_open, user, faults>>

CompletionBug(index, i) == <<Event(i, index.outcome)>>

\* emit_scan_finished_once.
Completion(index, i) == IF index.emitted THEN <<>> ELSE <<Event(i, index.outcome)>>

\* The index after its waiter has been heard; finish_index_by_waiter and
\* await_index record the same.
Heard(outcome) == [waiter |-> FALSE, outcome |-> outcome, emitted |-> TRUE]

\* The await_scan operation: at once when the outcome is known, or else the
\* bridge waits for this waiter alone.
HandleAwaitScan ==
    /\ Asked("await_scan") /\ Take
    /\ LET i == Head(requests).index
           id == Head(requests).id
       IN \/ /\ i \notin DOMAIN indexes
             /\ Answer("error", i)
             /\ UNCHANGED <<indexes, bridge>>
          \/ /\ i \in DOMAIN indexes /\ ~ indexes[i].waiter
             /\ Emit(Completion(indexes[i], i) \o <<Response(id, indexes[i].outcome, i)>>)
             /\ indexes' = [indexes EXCEPT ![i].emitted = TRUE]
             /\ UNCHANGED bridge
          \/ /\ i \in DOMAIN indexes /\ indexes[i].waiter
             /\ bridge' = [at |-> "awaiting", index |-> i, id |-> id]
             /\ UNCHANGED <<indexes, frames>>
    /\ UNCHANGED <<next_index_id, coordinator, waiter, input_open, user, faults>>

\* Task.yield returns: a reply, or the exit of the task.
AwaitReturned ==
    /\ bridge.at = "awaiting"
    /\ LET i == bridge.index
           outcome == IF waiter[i] = "answered" THEN "ok" ELSE "error"
       IN /\ waiter[i] \in {"answered", "down"}
          /\ Emit(Completion([indexes[i] EXCEPT !.outcome = outcome], i)
                    \o <<Response(bridge.id, outcome, i)>>)
          /\ indexes' = [indexes EXCEPT ![i] = Heard(outcome)]
          /\ waiter' = [waiter EXCEPT ![i] = "none"]
    /\ bridge' = Loop
    /\ UNCHANGED <<next_index_id, coordinator, requests, input_open, user, faults>>

WaiterReplyBug(i) ==
    /\ bridge.at = "loop" /\ waiter[i] = "answered"
    /\ Emit(Completion(Heard("ok"), i))
    /\ indexes' = [indexes EXCEPT ![i] = Heard("ok")]
    /\ waiter' = [waiter EXCEPT ![i] = "none"]
    /\ UNCHANGED <<next_index_id, bridge, coordinator, requests, input_open, user, faults>>

\* finish_index_by_waiter.
WaiterReply(i) ==
    /\ bridge.at = "loop" /\ waiter[i] = "answered"
    /\ Emit(Completion([indexes[i] EXCEPT !.outcome = "ok"], i))
    /\ indexes' = [indexes EXCEPT ![i] = Heard("ok")]
    /\ waiter' = [waiter EXCEPT ![i] = "none"]
    /\ UNCHANGED <<next_index_id, bridge, coordinator, requests, input_open, user, faults>>

\* The exit of a waiter is received by a clause that ignores it.
WaiterDown(i) ==
    /\ bridge.at = "loop" /\ waiter[i] = "down"
    /\ waiter' = [waiter EXCEPT ![i] = "unheard"]
    /\ UNCHANGED <<indexes, next_index_id, bridge, coordinator, requests, input_open, frames,
                   user, faults>>

\* cleanup_index up to its wait: the waiter is killed and its messages flushed,
\* then the coordinator is asked to stop.
BeginCleanup(i) ==
    /\ waiter' = [waiter EXCEPT ![i] = "none"]
    /\ coordinator' = [coordinator EXCEPT ![i] = IF Running(i) THEN "stopping" ELSE @]

\* release_index: the bridge waits for the coordinator before it answers.
HandleReleaseIndex ==
    /\ Asked("release_index") /\ Take
    /\ LET i == Head(requests).index
       IN \/ /\ i \in DOMAIN indexes
             /\ BeginCleanup(i)
             /\ bridge' = [at |-> "releasing", index |-> i, id |-> Head(requests).id]
             /\ UNCHANGED frames
          \/ /\ i \notin DOMAIN indexes
             /\ Answer("error", i)
             /\ UNCHANGED <<bridge, coordinator, waiter>>
    /\ UNCHANGED <<indexes, next_index_id, input_open, user, faults>>

\* GenServer.stop returns: the coordinator is gone, or still stopping after five
\* seconds.
Released ==
    /\ bridge.at = "releasing"
    /\ Emit(<<Response(bridge.id, "ok", bridge.index)>>)
    /\ indexes' = [i \in DOMAIN indexes \ {bridge.index} |-> indexes[i]]
    /\ bridge' = Loop
    /\ UNCHANGED <<next_index_id, coordinator, waiter, requests, input_open, user, faults>>

HandleShutdown ==
    /\ Asked("shutdown") /\ Answer("ok", NoId) /\ Take
    /\ bridge' = Exiting
    /\ UNCHANGED <<indexes, next_index_id, coordinator, waiter, input_open, user, faults>>

EndOfInputBug ==
    /\ bridge.at = "loop" /\ ~ input_open
    /\ requests = <<>> \/ client.stage = "gone"
    /\ UNCHANGED vars

\* End of file on stdin, after the requests before it; or the client is gone and
\* an answer cannot be written.
EndOfInput ==
    /\ bridge.at = "loop" /\ ~ input_open
    /\ requests = <<>> \/ client.stage = "gone"
    /\ bridge' = Exiting
    /\ UNCHANGED <<indexes, next_index_id, coordinator, waiter, requests, input_open, frames,
                   user, faults>>

\* cleanup_all, one index after the other.
CleanUp(i) ==
    /\ bridge.at = "exiting" /\ i \in DOMAIN indexes
    /\ BeginCleanup(i)
    /\ indexes' = [j \in DOMAIN indexes \ {i} |-> indexes[j]]
    /\ UNCHANGED <<next_index_id, bridge, requests, input_open, frames, user, faults>>

\* The virtual machine halts, and every process in it with it.
Halt ==
    /\ bridge' = Gone /\ indexes' = <<>>
    /\ coordinator' = [i \in Ids |-> IF coordinator[i] = "none" THEN "none" ELSE "gone"]
    /\ waiter' = [i \in Ids |-> "none"]
    /\ UNCHANGED next_index_id

Exit ==
    /\ bridge.at = "exiting" /\ indexes = <<>>
    /\ Halt
    /\ UNCHANGED <<requests, input_open, frames, user, faults>>

KillBeam ==
    /\ bridge.at # "gone" /\ kills < MaxKills
    /\ Halt /\ kills' = kills + 1
    /\ UNCHANGED <<requests, input_open, frames, user, crashes>>
-----------------------------------------------------------------------------
\* A traversal ends: with success, or with a fatal failure that it reports.
Finish(i) ==
    /\ coordinator[i] = "running"
    /\ coordinator' = [coordinator EXCEPT ![i] = "finished"]
    /\ UNCHANGED <<indexes, next_index_id, bridge, waiter, requests, input_open, frames,
                   user, faults>>

\* terminate returns.
Terminate(i) ==
    /\ coordinator[i] = "stopping"
    /\ coordinator' = [coordinator EXCEPT ![i] = "gone"]
    /\ UNCHANGED <<indexes, next_index_id, bridge, waiter, requests, input_open, frames,
                   user, faults>>

Crash(i) ==
    /\ Running(i) /\ crashes < MaxCrashes
    /\ coordinator' = [coordinator EXCEPT ![i] = "gone"]
    /\ crashes' = crashes + 1
    /\ UNCHANGED <<indexes, next_index_id, bridge, waiter, requests, input_open, frames, user,
                   kills>>

\* await returns to the waiter, or exits because the coordinator is gone.
WaiterReturns(i) ==
    /\ waiter[i] = "waiting"
    /\ \/ coordinator[i] = "finished" /\ waiter' = [waiter EXCEPT ![i] = "answered"]
       \/ coordinator[i] = "gone" /\ waiter' = [waiter EXCEPT ![i] = "down"]
    /\ UNCHANGED <<indexes, next_index_id, bridge, coordinator, requests, input_open, frames,
                   user, faults>>
-----------------------------------------------------------------------------
\* A method that sends a request.  Handles come from start_scan, and the
\* library does not stop a caller from using one that it has released.
Request(op, i) ==
    /\ client.stage = "idle" /\ op \in Requests
    /\ i \in (IF op \in {"ping", "start_scan", "shutdown"} THEN {NoId} ELSE held \cup released)
    /\ next_request_id < MaxRequestId
    /\ next_request_id' = next_request_id + 1
    /\ requests' = Append(requests, [op |-> op, index |-> i, id |-> next_request_id])
    /\ client' = [stage |-> "requesting", op |-> op, index |-> i, id |-> next_request_id]
    /\ result' = "none"
    /\ UNCHANGED <<beam, input_open, frames, events, held, awaited, released, faults>>

\* await_scan of the client sends nothing.  It consumes the completion, so it is
\* called once for an index.
Await(i) ==
    /\ client.stage = "idle" /\ i \in held \ awaited
    /\ client' = [stage |-> "awaiting", op |-> "await", index |-> i, id |-> NoId]
    /\ result' = "none"
    /\ UNCHANGED <<beam, requests, input_open, frames, next_request_id, events, held, awaited,
                   released, faults>>

Return(r) == client' = Idle /\ result' = r
ReadFrame == frames' = Tail(frames)

\* request_value and read_event keep an event for a later await_scan.
ReadEvent ==
    /\ frames # <<>> /\ Head(frames).type = "event"
    /\ \/ client.stage = "requesting"
       \/ client.stage = "awaiting" /\ Head(frames).index # client.index
    /\ ReadFrame
    /\ events' = Append(events, Head(frames))
    /\ UNCHANGED <<beam, requests, input_open, client, next_request_id, held, awaited, released,
                   result, faults>>

\* release_index drops completions of the index that were read before.
WithoutEventsOf(i) ==
    FlattenSeq([k \in DOMAIN events |-> IF events[k].index = i THEN <<>> ELSE <<events[k]>>])

\* The response that request_value waits for.
ReadResponse ==
    /\ frames # <<>> /\ Head(frames).type = "response"
    /\ client.stage = "requesting" /\ client.op # "shutdown"
    /\ ReadFrame
    /\ LET m == Head(frames)
       IN IF m.id # client.id
            THEN /\ Return("protocol")
                 /\ UNCHANGED <<events, held, released>>
            ELSE /\ Return(m.status)
                 /\ held' = CASE m.status = "ok" /\ client.op = "start_scan" -> held \cup {m.index}
                              [] m.status = "ok" /\ client.op = "release_index" -> held \ {m.index}
                              [] OTHER -> held
                 /\ IF m.status = "ok" /\ client.op = "release_index"
                      THEN /\ events' = WithoutEventsOf(m.index)
                           /\ released' = released \cup {m.index}
                      ELSE UNCHANGED <<events, released>>
    /\ UNCHANGED <<beam, requests, input_open, next_request_id, awaited, faults>>

\* take_index_event: await_scan looks at the kept events first.
TakeEvent ==
    /\ client.stage = "awaiting"
    /\ \E k \in DOMAIN events :
         /\ events[k].index = client.index
         /\ events' = RemoveAt(events, k)
         /\ awaited' = awaited \cup {client.index}
         /\ Return(events[k].status)
    /\ UNCHANGED <<beam, requests, input_open, frames, next_request_id, held, released, faults>>

\* Then it reads frames until its event comes; a response is an error.
ReadAwaited ==
    /\ client.stage = "awaiting" /\ frames # <<>>
    /\ \A k \in DOMAIN events : events[k].index # client.index
    /\ Head(frames).type = "event" => Head(frames).index = client.index
    /\ IF Head(frames).type = "event"
         THEN awaited' = awaited \cup {client.index} /\ Return(Head(frames).status)
         ELSE UNCHANGED awaited /\ Return("protocol")
    /\ ReadFrame
    /\ UNCHANGED <<beam, requests, input_open, next_request_id, events, held, released, faults>>

\* End of file: the backend has exited.
ReadEnd ==
    /\ client.stage \in {"requesting", "awaiting"} /\ client.op # "shutdown"
    /\ frames = <<>> /\ bridge.at = "gone"
    /\ client.stage = "awaiting" => \A k \in DOMAIN events : events[k].index # client.index
    /\ Return("exited")
    /\ UNCHANGED <<beam, requests, input_open, frames, next_request_id, events, held, awaited,
                   released, faults>>

\* shutdown has its response: it closes stdin and waits for the child.
ReadShutdown ==
    /\ client.stage = "requesting" /\ client.op = "shutdown"
    /\ frames # <<>> /\ Head(frames).type = "response"
    /\ Head(frames).id = client.id /\ Head(frames).status = "ok"
    /\ ReadFrame
    /\ client' = [client EXCEPT !.stage = "closing"]
    /\ input_open' = FALSE
    /\ UNCHANGED <<beam, requests, next_request_id, events, held, awaited, released, result,
                   faults>>

Leave(r) == client' = [Idle EXCEPT !.stage = "gone"] /\ result' = r

ChildExited ==
    /\ client.stage = "closing" /\ bridge.at = "gone"
    /\ Leave("ok")
    /\ UNCHANGED <<beam, requests, input_open, frames, next_request_id, events, held, awaited,
                   released, faults>>

\* Drop: stdin is closed and a child that has not exited is killed.
Drop ==
    /\ client.stage = "idle"
    /\ input_open' = FALSE
    /\ Leave("dropped")
    /\ Halt
    /\ UNCHANGED <<requests, frames, next_request_id, events, held, awaited, released, faults>>

\* shutdown finds that the backend has exited; the client it owns is dropped.
ShutdownFails ==
    /\ client.stage = "requesting" /\ client.op = "shutdown"
    /\ frames = <<>> /\ bridge.at = "gone"
    /\ input_open' = FALSE
    /\ Leave("exited")
    /\ UNCHANGED <<beam, requests, frames, next_request_id, events, held, awaited, released,
                   faults>>

\* The process of the client dies, whatever it does; the system closes its pipes.
ClientDies ==
    /\ client.stage # "gone"
    /\ input_open' = FALSE /\ frames' = <<>>
    /\ Leave("died")
    /\ UNCHANGED <<beam, requests, next_request_id, events, held, awaited, released, faults>>

Serve ==
    \/ HandlePing \/ HandleStartScan \/ HandleIndexStatus \/ HandleRead \/ HandleAwaitScan
    \/ HandleReleaseIndex \/ HandleShutdown
    \/ AwaitReturned \/ Released \/ EndOfInput \/ Exit
    \/ \E i \in Ids : CleanUp(i)

Traverse(i) == Finish(i) \/ Terminate(i)

Read == ReadEvent \/ ReadResponse \/ TakeEvent \/ ReadAwaited \/ ReadEnd \/ ReadShutdown
        \/ ChildExited \/ ShutdownFails

Next ==
    \/ Serve
    \/ Read
    \/ KillBeam \/ Drop \/ ClientDies
    \/ \E i \in Ids : WaiterReply(i) \/ WaiterDown(i) \/ Traverse(i) \/ Crash(i) \/ WaiterReturns(i)
    \/ \E op \in Requests, i \in Ids \cup {NoId} : Request(op, i)
    \/ \E i \in Ids : Await(i)

Spec == Init /\ [][Next]_vars

\* The bridge handles what reaches it, traversals end (TraversalEnds of Indexer)
\* and the client reads.  Nothing obliges a caller to call.
FairSpec ==
    /\ Spec
    /\ WF_vars(Serve) /\ WF_vars(Read)
    /\ \A i \in Ids : /\ WF_vars(WaiterReply(i)) /\ WF_vars(WaiterDown(i))
                      /\ WF_vars(WaiterReturns(i))
                      /\ WF_vars(Traverse(i))
-----------------------------------------------------------------------------
EventsOf(i, s) == Cardinality({k \in DOMAIN s : s[k].type = "event" /\ s[k].index = i})
Answers(s) == Cardinality({k \in DOMAIN s : s[k].type = "response"})
Up == bridge.at # "gone" /\ client.stage # "gone"

\* Exactly one answer is on its way for each request, however events mix with
\* responses, so the client never sees an id it does not expect.
OneAnswerPerRequest ==
    /\ result # "protocol"
    /\ Up => Len(requests) + Answers(frames)
                + (IF bridge.at \in {"awaiting", "releasing"} THEN 1 ELSE 0)
               = IF client.stage = "requesting" THEN 1 ELSE 0

\* The completion of an index is pushed at most once, and never before the
\* client has been told its handle.
CompletionIsPushedOnce ==
    \A i \in Ids :
       /\ EventsOf(i, frames) + EventsOf(i, events) + (IF i \in awaited THEN 1 ELSE 0) <= 1
       /\ \A k \in DOMAIN frames : frames[k].type = "event" /\ frames[k].index = i =>
             \/ i \in held
             \/ \E j \in 1 .. k - 1 : frames[j].type = "response" /\ frames[j].index = i

\* After release_index has returned nothing of the index is left: no handle in
\* the bridge, no event in the pipe or with the client, no running traversal.
ReleasedIsForgotten ==
    \A i \in released :
       /\ i \notin DOMAIN indexes /\ ~ Running(i)
       /\ EventsOf(i, frames) + EventsOf(i, events) = 0

\* While both sides are up, the bridge keeps what the client holds, and keeps
\* nothing alive that the client does not know of or is not about to be told.
HandlesAgree ==
    Up /\ bridge.at # "exiting" =>
      /\ \A i \in held : i \in DOMAIN indexes
                          \/ \E m \in Range(frames) : m.type = "response" /\ m.index = i
      /\ \A i \in DOMAIN indexes : i \in held
                          \/ \E m \in Range(frames) : m.type = "response" /\ m.index = i
      /\ \A i \in Ids : Running(i) => i \in DOMAIN indexes

\* A handle means the same on both sides, until it is released on both.
HandlesStayInStep == HandlesAgree /\ ReleasedIsForgotten

\* A completion that says ok comes from a traversal that has ended, and it says
\* so to the caller that awaits this very index.
CompletionIsTrue ==
    /\ \A m \in Range(frames) \cup Range(events) :
          m.type = "event" => /\ m.status = "ok" => coordinator[m.index] # "running"
                              /\ m.status = "error" => crashes > 0
    /\ \A i \in awaited : coordinator[i] # "running"

\* A client hears of the end of a traversal once, and what it hears is right.
CompletionIsExact == CompletionIsPushedOnce /\ CompletionIsTrue

\* Client and bridge have the same conversation: of requests, of handles and of
\* completions each side has what the other side, or the pipe, says it has.
BothSidesAgree == OneAnswerPerRequest /\ HandlesStayInStep /\ CompletionIsExact

\* await_scan returns.
AwaitReturns == client.stage = "awaiting" ~> client.stage # "awaiting"

\* An await of a traversal whose coordinator has crashed, after the bridge has
\* ignored the exit of its waiter: nothing is left that could end it.
ForsakenCall ==
    client.op \in {"await", "await_scan"} /\ waiter[client.index] = "unheard"
ForsakenBridge == bridge.at = "awaiting" /\ waiter[bridge.index] = "unheard"

\* Every call of the client returns, whether it waits for a response or an event,
\* unless it is forsaken, which AwaitReturns shows to happen.
EveryCallReturns ==
    client.stage \in {"requesting", "awaiting"}
      ~> client.stage \in {"idle", "gone"} \/ ForsakenCall

\* When the client goes, in whatever way and whatever the bridge is doing then,
\* the BEAM goes too, unless the bridge is itself in a forsaken await_scan.
BackendFollowsClient == client.stage = "gone" ~> bridge.at = "gone" \/ ForsakenBridge
=============================================================================
