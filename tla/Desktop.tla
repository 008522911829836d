------------------------------- MODULE Desktop -------------------------------
(***************************************************************************)
(* The desktop's backend thread (desktop/src/backend.rs), the bounded      *)
(* channel to the view, and what the view takes over from each event       *)
(* (apply_event in app.rs).  The thread follows the completion journal     *)
(* page by page until the traversal has finished and the journal is        *)
(* drained.  The store is the CompletionLog that FindexStore implements.   *)
(***************************************************************************)
EXTENDS Integers, Sequences, FiniteSets, SequencesExt

CONSTANTS Dirs, Root,
          Bytes,         \* [Dirs -> size of the immediate files]
          BatchSize,     \* COMPLETION_BATCH_SIZE
          Capacity       \* EVENT_CHANNEL_CAPACITY

ASSUME BytesAssumption == Bytes \in [Dirs -> Nat]
ASSUME RootAssumption == Root \in Dirs
ASSUME BatchAssumption == BatchSize \in Nat \ {0}
ASSUME CapacityAssumption == Capacity \in Nat

VARIABLES
    directories, journal,   \* the store
    traversal,              \* "running" or "finished"
    reported,               \* completions in the store when the traversal finished
    backend,                \* the BEAM: "none", "up", "dead", "down"
    stage,                  \* of the backend thread
    cursor, page,           \* into the journal; the page that was read last
    buffered, allocated,    \* summaries not yet sent; bytes of all summaries
    due,                    \* now >= next_progress_at
    event,                  \* what send_event is sending
    drained,                \* journal_drained
    failed,                 \* a result of the session, release or shutdown is an error
    channel, receiver_open,
    view                    \* the model the view draws

store == <<directories, journal>>
world == <<store, traversal, reported>>
loop == <<cursor, page, buffered, allocated, due>>
sending == <<event, drained>>
pipe == <<channel, receiver_open>>
vars == <<world, backend, stage, loop, sending, failed, pipe, view>>

Store == INSTANCE CompletionLog WITH
    Ids <- Dirs, Readers <- {}, outcome <- directories, log <- journal, delivered <- <<>>

None == [type |-> "none", dirs |-> <<>>, bytes |-> 0]
Started == [None EXCEPT !.type = "started"]
Update(dirs, bytes) == [type |-> "update", dirs |-> dirs, bytes |-> bytes]
Finished(bytes) == [None EXCEPT !.type = "finished", !.bytes = bytes]
Failure == [None EXCEPT !.type = "error"]

BytesOf(dirs) == SumFunction([k \in DOMAIN dirs |-> Bytes[dirs[k]]])
-----------------------------------------------------------------------------
Init ==
    /\ Store!Init /\ traversal = "running" /\ reported = 0
    /\ backend = "none" /\ stage = "starting"
    /\ cursor = 0 /\ page = <<>> /\ buffered = <<>> /\ allocated = 0 /\ due = TRUE
    /\ event = None /\ drained = FALSE /\ failed = FALSE
    /\ channel = <<>> /\ receiver_open = TRUE
    /\ view = [dirs |-> <<>>, bytes |-> 0, phase |-> "starting", finished |-> FALSE]

Send(e) == stage' = "sending" /\ event' = e

\* A call on the client returns a value only while the BEAM is up; it may fail
\* at any time, and its error ends the session.
Answered == backend = "up"
SessionFails == stage' = "releasing" /\ failed' = TRUE

\* Client::spawn and start_scan; a failure is reported at once.
Start ==
    /\ stage = "starting"
    /\ \/ backend' = "up" /\ Send(Started) /\ UNCHANGED failed
       \/ backend' = "down" /\ Send(Failure) /\ failed' = TRUE
    /\ UNCHANGED <<world, loop, drained, pipe, view>>

\* send_event waits for room: a channel takes one message more than its
\* capacity from its one sender.
Sent ==
    /\ stage = "sending" /\ receiver_open /\ Len(channel) <= Capacity
    /\ channel' = Append(channel, event)
    /\ stage' = CASE event.type = "error" -> "done"
                  [] event.type = "finished" -> "releasing"
                  [] OTHER -> IF drained THEN "awaiting" ELSE "polling"
    /\ event' = None
    /\ UNCHANGED <<world, backend, loop, drained, failed, receiver_open, view>>

\* The view's receiver is closed: the session is over.
SendFails ==
    /\ stage = "sending" /\ ~ receiver_open
    /\ failed' = TRUE
    /\ stage' = IF event.type = "error" THEN "done" ELSE "releasing"
    /\ event' = None
    /\ UNCHANGED <<world, backend, loop, drained, pipe, view>>

\* Where the page that completed_directories returns ends.
PageEnd == IF Len(journal) < cursor + BatchSize THEN Len(journal) ELSE cursor + BatchSize

\* completed_directories.
Poll ==
    /\ stage = "polling"
    /\ \/ /\ Answered
          /\ page' = SubSeq(journal, cursor + 1, PageEnd)
          /\ cursor' = PageEnd
          /\ stage' = "summarizing" /\ UNCHANGED failed
       \/ SessionFails /\ UNCHANGED <<cursor, page>>
    /\ UNCHANGED <<world, backend, buffered, allocated, due, sending, pipe, view>>

\* summarize_directories of a page that is not empty.
Summarize ==
    /\ stage = "summarizing"
    /\ \/ /\ page = <<>> \/ Answered
          /\ buffered' = buffered \o page
          /\ allocated' = allocated + BytesOf(page)
          /\ page' = <<>>
          /\ stage' = "deciding" /\ UNCHANGED failed
       \/ page # <<>> /\ SessionFails /\ UNCHANGED <<buffered, allocated, page>>
    /\ UNCHANGED <<world, backend, cursor, due, sending, pipe, view>>

\* Nothing to publish yet: back to the journal, after a sleep if it was empty.
Wait ==
    /\ stage = "deciding" /\ ~ due /\ Len(buffered) < BatchSize
    /\ stage' = "polling"
    /\ UNCHANGED <<world, backend, loop, sending, failed, pipe, view>>

OffByOneBug == traversal = "finished" /\ cursor > Len(journal)
DrainedBug == traversal = "finished" /\ buffered = <<>>

\* The journal holds nothing the loop has not read, and the traversal is over,
\* both as one index_status says.
Drained == traversal = "finished" /\ cursor >= Len(journal)

\* An update: the status first, then all that is buffered.
Publish ==
    /\ stage = "deciding" /\ (due \/ Len(buffered) >= BatchSize)
    /\ \/ /\ Answered
          /\ drained' = Drained
          /\ Send(Update(buffered, allocated))
          /\ buffered' = <<>> /\ due' = FALSE /\ UNCHANGED failed
       \/ SessionFails /\ UNCHANGED <<buffered, due, sending>>
    /\ UNCHANGED <<world, backend, cursor, page, allocated, pipe, view>>

\* await_scan.
AwaitScan ==
    /\ stage = "awaiting"
    /\ \/ Answered /\ Send(Finished(allocated)) /\ UNCHANGED failed
       \/ SessionFails /\ UNCHANGED event
    /\ UNCHANGED <<world, backend, loop, drained, pipe, view>>

\* release_index and then shutdown, whatever the session came to; a shutdown
\* that fails drops the client, which kills the BEAM.
Release ==
    /\ stage = "releasing"
    /\ stage' = "stopping"
    /\ \/ Answered /\ UNCHANGED failed
       \/ failed' = TRUE
    /\ UNCHANGED <<world, backend, loop, sending, pipe, view>>

SilentBug ==
    /\ stage = "stopping"
    /\ backend' = "down"
    /\ stage' = "done"
    /\ UNCHANGED <<world, loop, sending, failed, pipe, view>>

Shutdown ==
    /\ stage = "stopping"
    /\ backend' = "down"
    /\ \/ Answered /\ ~ failed /\ stage' = "done" /\ UNCHANGED <<event, failed>>
       \/ failed' = TRUE /\ Send(Failure)
    /\ UNCHANGED <<world, loop, drained, pipe, view>>

\* The progress interval passes.
Tick ==
    /\ ~ due /\ due' = TRUE
    /\ UNCHANGED <<world, backend, stage, cursor, page, buffered, allocated, sending, failed,
                   pipe, view>>
-----------------------------------------------------------------------------
\* apply_event.
Applied(e) ==
    CASE e.type = "started"  -> [view EXCEPT !.phase = "running"]
      [] e.type = "update"   -> [view EXCEPT !.dirs = @ \o e.dirs, !.bytes = e.bytes]
      [] e.type = "finished" -> [view EXCEPT !.finished = TRUE, !.phase = "ended", !.bytes = e.bytes]
      [] e.type = "error"    -> IF view.finished THEN view
                                                 ELSE [view EXCEPT !.phase = "disconnected"]

\* The view takes the next event.
Receive ==
    /\ receiver_open /\ channel # <<>>
    /\ view' = Applied(Head(channel))
    /\ channel' = Tail(channel)
    /\ UNCHANGED <<world, backend, stage, loop, sending, failed, receiver_open>>

\* NewScan, or the window is closed: the stream is dropped with its events.
CloseReceiver ==
    /\ receiver_open
    /\ receiver_open' = FALSE /\ channel' = <<>>
    /\ UNCHANGED <<world, backend, stage, loop, sending, failed, view>>

\* A worker publishes or fails a directory.  After the traversal has finished
\* only the scan of a killed worker may still do so.
Complete ==
    /\ backend = "up"
    /\ \E d \in Dirs, children \in SUBSET Dirs, result \in {"published", "failed"} :
          Store!Complete(d, children, result)
    /\ UNCHANGED <<traversal, reported, backend, stage, loop, sending, failed, pipe, view>>

FinishTraversal ==
    /\ backend = "up" /\ traversal = "running"
    /\ traversal' = "finished" /\ reported' = Len(journal)
    /\ UNCHANGED <<store, backend, stage, loop, sending, failed, pipe, view>>

BackendDies ==
    /\ backend = "up" /\ backend' = "dead"
    /\ UNCHANGED <<world, stage, loop, sending, failed, pipe, view>>

Drive == Start \/ Sent \/ SendFails \/ Poll \/ Summarize \/ Wait \/ Publish \/ AwaitScan
         \/ Release \/ Shutdown

Next ==
    \/ Drive \/ Tick
    \/ Receive \/ CloseReceiver
    \/ Complete \/ FinishTraversal \/ BackendDies

Spec == Init /\ [][Next]_vars

\* The thread runs, time passes, the view handles its events and the traversal
\* ends (TraversalEnds of Indexer).
FairSpec == Spec /\ WF_vars(Drive) /\ WF_vars(Tick) /\ WF_vars(Receive) /\ WF_vars(FinishTraversal)
-----------------------------------------------------------------------------
\* Directories in the updates on their way to the view.
OnTheWay == FlattenSeq([k \in 1 .. Len(channel) |-> channel[k].dirs]) \o event.dirs

\* Every directory of the journal reaches the view once and in journal order:
\* what it has, what is on its way and what the thread holds make up exactly
\* the journal up to the cursor, until the view goes away.  The byte total that
\* it shows is that of these directories.
NothingIsSkipped ==
    /\ view.bytes = BytesOf(view.dirs)
    /\ receiver_open =>
      view.dirs \o OnTheWay \o buffered \o page = SubSeq(journal, 1, cursor)

\* When the view says that the scan has ended, it shows every directory that was
\* complete when the traversal finished, although journal and state were read
\* at different times.
FinishedShowsEverything ==
    view.finished => traversal = "finished" /\ Len(view.dirs) >= reported

\* Neither the channel nor the buffer grows with the size of the scan, however
\* slow the view is.
BacklogIsBounded ==
    /\ Len(channel) <= Capacity + 1
    /\ Len(buffered) < 2 * BatchSize

\* The view gets the whole scan, through little memory.
ViewGetsEverything == NothingIsSkipped /\ FinishedShowsEverything /\ BacklogIsBounded

\* The thread ends with the BEAM stopped, and leaves the view with a last word.
\* A scan shown as ended stays so, whatever fails in the release and the shutdown
\* after it.
EndIsReported ==
    /\ stage = "done" =>
         /\ backend = "down"
         /\ receiver_open /\ channel = <<>> => view.phase \in {"ended", "disconnected"}
    /\ view.finished => view.phase = "ended"

\* The thread ends and the BEAM with it, wherever the thread is when the view
\* closes or the BEAM dies.
ThreadEnds == <>[](stage = "done" /\ backend = "down")
=============================================================================
