---------------------------- MODULE FrameWriter ----------------------------
(***************************************************************************)
(* The writer of recorded frames (desktop/src/recording.rs): the user      *)
(* interface pushes frames into a bounded channel and never waits; a       *)
(* worker thread saves each as a picture and adds a line to the manifest.  *)
(***************************************************************************)
EXTENDS Integers, Sequences, SequencesExt

CONSTANTS
    FrameCapacity,     \* of sync_channel
    BufferedLines      \* most lines that fit in the buffer of frames.jsonl
ASSUME FrameCapacityAssumption == FrameCapacity \in Nat \ {0}
ASSUME BufferedLinesAssumption == BufferedLines \in Nat \ {0}

VARIABLES
    open,              \* sender is Some
    queue,             \* indices of the frames in the channel
    frames, dropped,   \* accepted and refused by the channel
    worker,            \* "starting", "receiving", "done" or "failed"
    pictures,          \* indices of the pictures save_png reported saved
    cut,               \* the file of some of them lost its end without a word
    lines,             \* indices in the lines of which the BufWriter holds an end
    manifest           \* indices in the whole lines of the file frames.jsonl

files == <<pictures, cut, lines, manifest>>
writer == <<open, queue, frames, dropped, worker, files>>

\* FrameWriter::new, when frames are to be recorded.
InitWriter(recorded) ==
    /\ open = recorded /\ worker = (IF recorded THEN "starting" ELSE "done")
    /\ queue = <<>> /\ frames = 0 /\ dropped = 0
    /\ pictures = <<>> /\ cut = FALSE /\ lines = <<>> /\ manifest = <<>>

WorkerEnded == worker \in {"done", "failed"}

\* FrameWriter::push: a frame that finds the channel full is dropped and
\* takes no index.  A worker that has gone is joined, which cannot block,
\* and its error returned.
Push(ok, error) ==
    \/ ~ open /\ error /\ UNCHANGED writer
    \/ /\ open /\ WorkerEnded /\ error
       /\ open' = FALSE /\ UNCHANGED <<queue, frames, dropped, worker, files>>
    \/ /\ open /\ ~ WorkerEnded /\ Len(queue) < FrameCapacity /\ ok
       /\ queue' = Append(queue, frames) /\ frames' = frames + 1
       /\ UNCHANGED <<open, dropped, worker, files>>
    \/ /\ open /\ ~ WorkerEnded /\ Len(queue) = FrameCapacity /\ ok
       /\ dropped' = dropped + 1 /\ UNCHANGED <<open, queue, frames, worker, files>>

\* FrameWriter::finish closes the channel; it then waits for WorkerEnded.
Finish == open' = FALSE /\ UNCHANGED <<queue, frames, dropped, worker, files>>

-----------------------------------------------------------------------------
(* The worker thread.  A line is written to the buffer; the buffer reaches *)
(* the file when a line does not fit, and at the end.                      *)

\* Every picture saved has its line, in the file or in the buffer.
Listed == Len(pictures) = Len(manifest) + Len(lines)

\* Creating the directory and a new manifest.
OpenManifest ==
    /\ worker = "starting" /\ worker' = "receiving"
    /\ UNCHANGED <<open, queue, frames, dropped, files>>

\* save_png.  What its dropped buffers could not write nobody hears of.
SavePicture ==
    /\ worker = "receiving" /\ Listed /\ queue # <<>>
    /\ pictures' = Append(pictures, Head(queue)) /\ queue' = Tail(queue)
    /\ cut' \in {cut, TRUE}
    /\ UNCHANGED <<open, frames, dropped, worker, lines, manifest>>

WriteLine ==
    /\ worker = "receiving" /\ ~ Listed
    /\ \/ /\ Len(lines) < BufferedLines
          /\ lines' = Append(lines, Last(pictures)) /\ UNCHANGED manifest
       \/ /\ lines # <<>>                  \* lines differ in length
          /\ manifest' = manifest \o lines /\ lines' = <<Last(pictures)>>
    /\ UNCHANGED <<open, queue, frames, dropped, worker, pictures, cut>>

WorkerStopsEarlyBug ==
    /\ worker = "receiving" /\ Listed /\ ~ open
    /\ worker' = "done" /\ queue' = <<>>
    /\ manifest' = manifest \o lines /\ lines' = <<>>
    /\ UNCHANGED <<open, frames, dropped, pictures, cut>>

\* The loop over the receiver ends when the channel is closed and drained.
FlushManifest ==
    /\ worker = "receiving" /\ Listed /\ ~ open /\ queue = <<>>
    /\ worker' = "done"
    /\ manifest' = manifest \o lines /\ lines' = <<>>
    /\ UNCHANGED <<open, queue, frames, dropped, pictures, cut>>

\* Where the worker may return an error: opening the manifest, saving a
\* picture, a line that needs the buffer written, the last flush.  The
\* receiver is dropped, with the frames that wait, and the buffer of the
\* manifest, which tries once more and keeps its error to itself.
MayFail ==
    \/ worker = "starting"
    \/ worker = "receiving" /\ Listed /\ (queue # <<>> \/ ~ open)
    \/ worker = "receiving" /\ ~ Listed /\ lines # <<>>
WorkerFails ==
    /\ MayFail /\ worker' = "failed" /\ queue' = <<>>
    /\ \E written \in 0 .. Len(lines) : manifest' = manifest \o SubSeq(lines, 1, written)
    /\ lines' = <<>>
    /\ UNCHANGED <<open, frames, dropped, pictures, cut>>

Worker == OpenManifest \/ SavePicture \/ WriteLine \/ FlushManifest
=============================================================================
