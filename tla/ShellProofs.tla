---------------------------- MODULE ShellProofs ----------------------------
(***************************************************************************)
(* Theorems about Shell and FrameWriter for every form, tour, capacity and *)
(* bound, and about CommandLine for every line of words, checked by TLAPS. *)
(***************************************************************************)
EXTENDS Shell, CommandLine, FoldLemmas

-----------------------------------------------------------------------------
(* The writer.                                                             *)

\* What the writer's variables are.
WriterTypes ==
    /\ open \in BOOLEAN /\ frames \in Nat
    /\ queue \in Seq(Nat) /\ pictures \in Seq(Nat) /\ lines \in Seq(Nat) /\ manifest \in Seq(Nat)
    /\ worker \in {"starting", "receiving", "done", "failed"}

\* The frames in the channel follow the pictures, which follow the lines; those
\* of the buffer follow those of the file, which are missed by no more than the
\* buffer holds and the line that is being written.
FramesFollow ==
    /\ \A k \in 1 .. Len(pictures) : pictures[k] = k - 1
    /\ \A k \in 1 .. Len(manifest) : manifest[k] = k - 1
    /\ \A k \in 1 .. Len(lines) : lines[k] = Len(manifest) + k - 1
    /\ Len(lines) <= BufferedLines
    /\ Len(manifest) + Len(lines) <= Len(pictures)
    /\ Len(pictures) <= Len(manifest) + BufferedLines + 1
    /\ worker # "failed" =>
          /\ Len(pictures) <= Len(manifest) + Len(lines) + 1
          /\ Len(pictures) + Len(queue) = frames
          /\ \A k \in 1 .. Len(queue) : queue[k] = Len(pictures) + k - 1

\* A worker that ended well has emptied a channel that is closed.
WorkIsDone == worker = "done" => Len(manifest) = Len(pictures) /\ queue = <<>>

WriterInv == WriterTypes /\ FramesFollow /\ WorkIsDone

\* What a step of the program can do to the writer.
Opens == /\ open' \in BOOLEAN
         /\ UNCHANGED <<queue, frames, worker, pictures, lines, manifest>>
Queues == /\ ~ WorkerEnded /\ queue' = Append(queue, frames) /\ frames' = frames + 1
          /\ UNCHANGED <<open, worker, pictures, lines, manifest>>
WriterMoves == Opens \/ Queues \/ WorkerFails \/ Worker

LEMMA WriterInitially == Init => WriterInv
<1> SUFFICES ASSUME Init PROVE WriterInv
  OBVIOUS
<1>1. open \in BOOLEAN /\ worker \in {"starting", "done"} /\ frames = 0
  BY DEF Init, InitWriter
<1>2. queue = <<>> /\ pictures = <<>> /\ lines = <<>> /\ manifest = <<>>
  BY DEF Init, InitWriter
<1>3. WriterTypes
  BY <1>1, <1>2, EmptySeq DEF WriterTypes
<1> QED
  BY <1>1, <1>2, <1>3, BufferedLinesAssumption DEF WriterInv, FramesFollow, WorkIsDone

\* Every step of the program is one of these for the writer.
LEMMA StepsMoveTheWriter == WriterTypes /\ [Next]_vars => WriterMoves
<1> SUFFICES ASSUME WriterTypes, [Next]_vars PROVE WriterMoves
  OBVIOUS
<1> USE DEF WriterMoves, Opens, WriterTypes, files
<1>1. CASE UNCHANGED writer
  BY <1>1 DEF writer
<1>2. CASE UNCHANGED vars
  BY <1>2, <1>1 DEF vars
<1>3. CASE Launch
  BY <1>3, <1>1 DEF Launch
<1>4. CASE User
  BY <1>4, <1>1 DEF User, RootChanged, PressStart, NewScan, TabSelected, ThemeToggled, FocusDirectory,
                    CloseWindow, UserIdle
<1>5. CASE MetronomeTicks \/ StreamForwards \/ TakeScreenshot
  BY <1>5, <1>1 DEF MetronomeTicks, StreamForwards, TakeScreenshot, RuntimeOnly
<1>6. CASE ApplyBackend \/ RecordingTick \/ AutoshotTick \/ AutoshotStore
  BY <1>6, <1>1 DEF ApplyBackend, RecordingTick, AutoshotTick, AutoshotStore
<1>7. CASE RecordingStore
  BY <1>7, <1>1 DEF RecordingStore, Push, Queues
<1>8. CASE CloseWriter \/ Leave
  BY <1>8 DEF CloseWriter, Leave, Finish
<1>9. CASE JoinWriter
  BY <1>9, <1>1 DEF JoinWriter
<1>10. CASE WorkerSteps
  BY <1>10 DEF WorkerSteps
<1> QED
  BY <1>2, <1>3, <1>4, <1>5, <1>6, <1>7, <1>8, <1>9, <1>10 DEF Next, Update

\* Sequences of Nat, one element more or less.
LEMMA Appended ==
  ASSUME NEW s \in Seq(Nat), NEW n \in Nat
  PROVE  /\ Append(s, n) \in Seq(Nat) /\ Len(Append(s, n)) = Len(s) + 1
         /\ \A k \in 1 .. Len(s) : Append(s, n)[k] = s[k]
         /\ Append(s, n)[Len(s) + 1] = n
BY AppendProperties, LenProperties

\* Two sequences that count from 0 are equal if they are as long as each other.
LEMMA Counting ==
  ASSUME NEW s \in Seq(Nat), NEW t \in Seq(Nat), Len(s) = Len(t),
         \A k \in 1 .. Len(s) : s[k] = k - 1, \A k \in 1 .. Len(t) : t[k] = k - 1
  PROVE  s = t
BY SeqEqual, LenProperties

\* A sequence that counts from 0 counts on with its length.
LEMMA CountsOn ==
  ASSUME NEW s \in Seq(Nat), NEW t, Len(t) = Len(s) + 1,
         \A k \in 1 .. Len(s) : s[k] = k - 1, \A k \in 1 .. Len(s) : t[k] = s[k],
         t[Len(s) + 1] = Len(s)
  PROVE  \A k \in 1 .. Len(t) : t[k] = k - 1
<1>1. Len(s) \in Nat
  BY LenProperties
<1> TAKE k \in 1 .. Len(t)
<1>2. k \in 1 .. Len(s) \/ k = Len(s) + 1
  BY <1>1
<1>3. CASE k \in 1 .. Len(s)
  BY <1>3
<1>4. CASE k = Len(s) + 1
  <2>1. t[k] = Len(s)
    BY <1>4
  <2> QED
    BY <1>1, <1>4, <2>1
<1> QED
  BY <1>2, <1>3, <1>4

\* A sequence that counts from 0, followed by one that counts on.
LEMMA CountsThrough ==
  ASSUME NEW s \in Seq(Nat), NEW t \in Seq(Nat),
         \A k \in 1 .. Len(s) : s[k] = k - 1,
         \A k \in 1 .. Len(t) : t[k] = Len(s) + k - 1
  PROVE  /\ s \o t \in Seq(Nat) /\ Len(s \o t) = Len(s) + Len(t)
         /\ \A k \in 1 .. Len(s) + Len(t) : (s \o t)[k] = k - 1
<1> DEFINE all == s \o t
<1>1. Len(s) \in Nat /\ Len(t) \in Nat
  BY LenProperties
<1>2. /\ all \in Seq(Nat) /\ Len(all) = Len(s) + Len(t)
      /\ \A k \in 1 .. Len(s) + Len(t) : all[k] = IF k <= Len(s) THEN s[k] ELSE t[k - Len(s)]
  BY ConcatProperties
<1> HIDE DEF all
<1>3. ASSUME NEW k \in 1 .. Len(s) + Len(t) PROVE all[k] = k - 1
  <2>1. CASE k <= Len(s)
    <3>1. k \in 1 .. Len(s) /\ all[k] = s[k]
      BY <1>1, <1>2, <1>3, <2>1
    <3> QED
      BY <3>1
  <2>2. CASE ~ k <= Len(s)
    <3>1. k - Len(s) \in 1 .. Len(t) /\ all[k] = t[k - Len(s)]
      BY <1>1, <1>2, <1>3, <2>2
    <3>2. t[k - Len(s)] = Len(s) + (k - Len(s)) - 1
      BY <3>1
    <3> QED
      BY <1>1, <1>3, <3>1, <3>2
  <2> QED
    BY <2>1, <2>2
<1> QED
  BY <1>2, <1>3 DEF all

\* Some of the lines of the buffer, from the first on, reach the file.
LEMMA LinesReachTheFile ==
  ASSUME WriterTypes, FramesFollow, NEW n \in 0 .. Len(lines)
  PROVE  LET t == manifest \o SubSeq(lines, 1, n)
         IN t \in Seq(Nat) /\ Len(t) = Len(manifest) + n /\ \A k \in 1 .. Len(manifest) + n : t[k] = k - 1
<1> DEFINE r == SubSeq(lines, 1, n)
<1>1. lines \in Seq(Nat) /\ manifest \in Seq(Nat) /\ Len(lines) \in Nat /\ Len(manifest) \in Nat
  BY LenProperties DEF WriterTypes
<1>2. \A k \in 1 .. n : k \in 1 .. Len(lines) /\ lines[k] \in Nat
  BY <1>1, ElementOfSeq
<1>3. /\ r \in Seq(Nat) /\ Len(r) = (IF 1 <= n THEN n - 1 + 1 ELSE 0)
      /\ \A k \in 1 .. n - 1 + 1 : r[k] = lines[1 + k - 1]
  BY <1>1, <1>2, SubSeqProperties
<1> HIDE DEF r
<1>4. r \in Seq(Nat) /\ Len(r) = n /\ \A k \in 1 .. n : r[k] = lines[k]
  BY <1>1, <1>3
<1>5. \A k \in 1 .. Len(r) : r[k] = Len(manifest) + k - 1
  BY <1>2, <1>4 DEF FramesFollow
<1>6. \A k \in 1 .. Len(manifest) : manifest[k] = k - 1
  BY DEF FramesFollow
<1>7. /\ manifest \o r \in Seq(Nat) /\ Len(manifest \o r) = Len(manifest) + Len(r)
      /\ \A k \in 1 .. Len(manifest) + Len(r) : (manifest \o r)[k] = k - 1
  BY <1>1, <1>4, <1>5, <1>6, CountsThrough
<1> QED
  BY <1>4, <1>7 DEF r

\* The buffer is written whole.
LEMMA BufferIsWritten ==
  ASSUME WriterTypes, FramesFollow
  PROVE  /\ manifest \o lines \in Seq(Nat) /\ Len(manifest \o lines) = Len(manifest) + Len(lines)
         /\ \A k \in 1 .. Len(manifest) + Len(lines) : (manifest \o lines)[k] = k - 1
<1>1. lines \in Seq(Nat) /\ manifest \in Seq(Nat)
  BY DEF WriterTypes
<1>2. \A k \in 1 .. Len(manifest) : manifest[k] = k - 1
  BY DEF FramesFollow
<1>3. \A k \in 1 .. Len(lines) : lines[k] = Len(manifest) + k - 1
  BY DEF FramesFollow
<1> QED
  BY <1>1, <1>2, <1>3, CountsThrough

LEMMA SavePictureStep == WriterInv /\ SavePicture => WriterInv'
<1> SUFFICES ASSUME WriterInv, SavePicture PROVE WriterInv'
  OBVIOUS
<1>1. /\ worker = "receiving" /\ Len(pictures) = Len(manifest) + Len(lines) /\ queue # <<>>
      /\ pictures' = Append(pictures, Head(queue)) /\ queue' = Tail(queue)
      /\ UNCHANGED <<open, frames, worker, lines, manifest>>
  BY DEF SavePicture, Listed
<1>2. WriterTypes /\ FramesFollow
  BY DEF WriterInv
<1>3. /\ queue \in Seq(Nat) /\ pictures \in Seq(Nat) /\ Len(pictures) \in Nat /\ Len(queue) \in Nat
      /\ Len(manifest) \in Nat /\ Len(lines) \in Nat
  BY <1>2, LenProperties DEF WriterTypes
<1>4. /\ Head(queue) = queue[1] /\ Head(queue) \in Nat /\ queue' \in Seq(Nat)
      /\ Len(queue') = Len(queue) - 1 /\ \A k \in 1 .. Len(queue') : queue'[k] = queue[k + 1]
  BY <1>1, <1>3, HeadTailProperties
<1>5. Len(queue) >= 1
  BY <1>1, <1>3, EmptySeq
<1>6. Head(queue) = Len(pictures)
  <2>1. 1 \in 1 .. Len(queue) /\ worker # "failed"
    BY <1>1, <1>3, <1>5
  <2>2. queue[1] = Len(pictures) + 1 - 1
    BY <1>2, <2>1 DEF FramesFollow
  <2> QED
    BY <1>3, <1>4, <2>2
<1>7. /\ pictures' \in Seq(Nat) /\ Len(pictures') = Len(pictures) + 1
      /\ \A k \in 1 .. Len(pictures) : pictures'[k] = pictures[k]
      /\ pictures'[Len(pictures) + 1] = Len(pictures)
  BY <1>1, <1>3, <1>4, <1>6, Appended
<1>8. WriterTypes'
  BY <1>1, <1>2, <1>4, <1>7 DEF WriterTypes
<1>9. \A k \in 1 .. Len(pictures') : pictures'[k] = k - 1
  <2>1. \A k \in 1 .. Len(pictures) : pictures[k] = k - 1
    BY <1>2 DEF FramesFollow
  <2> QED
    BY <1>3, <1>7, <2>1, CountsOn
<1>10. \A k \in 1 .. Len(queue') : queue'[k] = Len(pictures') + k - 1
  <2> SUFFICES ASSUME NEW k \in 1 .. Len(queue') PROVE queue'[k] = Len(pictures') + k - 1
    OBVIOUS
  <2>1. k + 1 \in 1 .. Len(queue)
    BY <1>3, <1>4
  <2>2. queue[k + 1] = Len(pictures) + (k + 1) - 1
    BY <1>1, <1>2, <2>1 DEF FramesFollow
  <2>3. queue'[k] = queue[k + 1] /\ k \in Nat
    BY SMTT(30), ZenonT(30), <1>4
  <2>4. Len(pictures') = Len(pictures) + 1 /\ Len(pictures) \in Nat
    BY <1>3, <1>7
  <2> QED
    BY <2>2, <2>3, <2>4
<1>11. /\ Len(pictures) + Len(queue) = frames /\ frames \in Nat
       /\ Len(lines) <= BufferedLines /\ BufferedLines \in Nat
  BY <1>1, <1>2, BufferedLinesAssumption DEF FramesFollow, WriterTypes
<1>12. /\ Len(manifest) + Len(lines) <= Len(pictures') /\ Len(pictures') <= Len(manifest) + Len(lines) + 1
       /\ Len(pictures') <= Len(manifest) + BufferedLines + 1 /\ Len(pictures') + Len(queue') = frames
  <2>1. Len(pictures') = Len(pictures) + 1
    BY <1>7
  <2>2. Len(queue') = Len(queue) - 1
    BY <1>4
  <2>3. Len(pictures) = Len(manifest) + Len(lines)
    BY <1>1
  <2>4. Len(manifest) \in Nat /\ Len(lines) \in Nat /\ Len(queue) \in Nat
    BY <1>3
  <2>5. /\ Len(manifest) + Len(lines) <= Len(manifest) + Len(lines) + 1
        /\ Len(manifest) + Len(lines) + 1 <= Len(manifest) + BufferedLines + 1
    BY <1>11, <2>4
  <2>6. Len(manifest) + Len(lines) + 1 + (Len(queue) - 1) = Len(manifest) + Len(lines) + Len(queue)
    BY <2>4
  <2> QED
    BY <1>11, <2>1, <2>2, <2>3, <2>5, <2>6
<1>13. FramesFollow'
  BY <1>1, <1>2, <1>9, <1>10, <1>12 DEF FramesFollow
<1> QED
  BY <1>1, <1>8, <1>13 DEF WriterInv, WorkIsDone

LEMMA WriteLineStep == WriterInv /\ WriteLine => WriterInv'
<1> SUFFICES ASSUME WriterInv, WriteLine PROVE WriterInv'
  OBVIOUS
<1>1. /\ worker = "receiving" /\ Len(pictures) # Len(manifest) + Len(lines)
      /\ UNCHANGED <<open, queue, frames, worker, pictures>>
  BY DEF WriteLine, Listed
<1>2. WriterTypes /\ FramesFollow /\ BufferedLines \in Nat \ {0}
  BY BufferedLinesAssumption DEF WriterInv
<1>3. /\ manifest \in Seq(Nat) /\ lines \in Seq(Nat) /\ pictures \in Seq(Nat)
      /\ Len(pictures) \in Nat /\ Len(manifest) \in Nat /\ Len(lines) \in Nat
  BY <1>2, LenProperties DEF WriterTypes
<1>4. Len(pictures) = Len(manifest) + Len(lines) + 1 /\ Len(lines) <= BufferedLines
  BY <1>1, <1>2, <1>3 DEF FramesFollow
<1>5. Last(pictures) = Len(manifest) + Len(lines)
  <2>1. Len(pictures) \in 1 .. Len(pictures)
    BY <1>3, <1>4
  <2>2. pictures[Len(pictures)] = Len(pictures) - 1
    BY <1>2, <2>1 DEF FramesFollow
  <2> QED
    BY <1>3, <1>4, <2>2 DEF Last
<1>6. CASE Len(lines) < BufferedLines /\ lines' = Append(lines, Last(pictures)) /\ manifest' = manifest
  <2>1. /\ lines' \in Seq(Nat) /\ Len(lines') = Len(lines) + 1
        /\ \A k \in 1 .. Len(lines) : lines'[k] = lines[k]
        /\ lines'[Len(lines) + 1] = Len(manifest) + Len(lines)
    BY <1>3, <1>5, <1>6, Appended
  <2>2. \A k \in 1 .. Len(lines') : lines'[k] = Len(manifest) + k - 1
    <3> SUFFICES ASSUME NEW k \in 1 .. Len(lines') PROVE lines'[k] = Len(manifest) + k - 1
      OBVIOUS
    <3>1. k \in 1 .. Len(lines) \/ k = Len(lines) + 1
      BY <1>3, <2>1
    <3>2. CASE k \in 1 .. Len(lines)
      BY <1>2, <2>1, <3>2 DEF FramesFollow
    <3>3. CASE k = Len(lines) + 1
      BY <1>3, <2>1, <3>3
    <3> QED
      BY <3>1, <3>2, <3>3
  <2>3. Len(lines') <= BufferedLines /\ Len(manifest) + Len(lines') = Len(pictures)
    BY <1>2, <1>3, <1>4, <1>6, <2>1
  <2>4. WriterTypes'
    BY <1>1, <1>2, <1>6, <2>1 DEF WriterTypes
  <2>5. FramesFollow'
    BY SMTT(30), <1>1, <1>2, <1>3, <1>6, <2>1, <2>2, <2>3 DEF FramesFollow
  <2> QED
    BY <1>1, <2>4, <2>5 DEF WriterInv, WorkIsDone
<1>7. CASE manifest' = manifest \o lines /\ lines' = <<Last(pictures)>>
  <2>1. /\ manifest' \in Seq(Nat) /\ Len(manifest') = Len(manifest) + Len(lines)
        /\ \A k \in 1 .. Len(manifest') : manifest'[k] = k - 1
    BY <1>2, <1>7, BufferIsWritten
  <2>2. /\ lines' \in Seq(Nat) /\ Len(lines') = 1
        /\ \A k \in 1 .. Len(lines') : lines'[k] = Len(manifest') + k - 1
    BY <1>3, <1>5, <1>7, <2>1
  <2>3. /\ Len(lines') <= BufferedLines /\ Len(manifest') + Len(lines') = Len(pictures)
        /\ Len(pictures) <= Len(manifest') + BufferedLines + 1
    BY <1>2, <1>3, <1>4, <2>1, <2>2
  <2>4. WriterTypes'
    BY <1>1, <1>2, <2>1, <2>2 DEF WriterTypes
  <2>5. FramesFollow'
    BY <1>1, <1>2, <1>3, <2>1, <2>2, <2>3 DEF FramesFollow
  <2> QED
    BY <1>1, <2>4, <2>5 DEF WriterInv, WorkIsDone
<1> QED
  BY <1>6, <1>7 DEF WriteLine

LEMMA FlushStep == WriterInv /\ FlushManifest => WriterInv'
<1> SUFFICES ASSUME WriterInv, FlushManifest PROVE WriterInv'
  OBVIOUS
<1>1. /\ worker = "receiving" /\ worker' = "done" /\ Len(pictures) = Len(manifest) + Len(lines)
      /\ manifest' = manifest \o lines /\ lines' = <<>> /\ queue = <<>>
      /\ UNCHANGED <<open, queue, frames, pictures>>
  BY DEF FlushManifest, Listed
<1>2. WriterTypes /\ FramesFollow /\ BufferedLines \in Nat
  BY BufferedLinesAssumption DEF WriterInv
<1>3. Len(pictures) \in Nat /\ Len(manifest) \in Nat /\ Len(lines) \in Nat
  BY <1>2, LenProperties DEF WriterTypes
<1>4. /\ manifest' \in Seq(Nat) /\ Len(manifest') = Len(pictures)
      /\ \A k \in 1 .. Len(manifest') : manifest'[k] = k - 1
  BY <1>1, <1>2, BufferIsWritten
<1>5. lines' \in Seq(Nat) /\ Len(lines') = 0
  BY <1>1, EmptySeq
<1>6. WriterTypes'
  BY <1>1, <1>2, <1>4, <1>5 DEF WriterTypes
<1>7. FramesFollow'
  BY <1>1, <1>2, <1>3, <1>4, <1>5 DEF FramesFollow
<1> QED
  BY <1>1, <1>4, <1>6, <1>7 DEF WriterInv, WorkIsDone

LEMMA FailStep == WriterInv /\ WorkerFails => WriterInv'
<1> SUFFICES ASSUME WriterInv, WorkerFails PROVE WriterInv'
  OBVIOUS
<1>1. PICK n \in 0 .. Len(lines) : manifest' = manifest \o SubSeq(lines, 1, n)
  BY DEF WorkerFails
<1>2. /\ worker' = "failed" /\ queue' = <<>> /\ lines' = <<>> /\ UNCHANGED <<open, frames, pictures>>
      /\ worker # "failed"
  BY DEF WorkerFails, MayFail
<1>3. WriterTypes /\ FramesFollow /\ BufferedLines \in Nat
  BY BufferedLinesAssumption DEF WriterInv
<1>4. Len(pictures) \in Nat /\ Len(manifest) \in Nat /\ Len(lines) \in Nat
  BY <1>3, LenProperties DEF WriterTypes
<1>5. /\ manifest' \in Seq(Nat) /\ Len(manifest') = Len(manifest) + n
      /\ \A k \in 1 .. Len(manifest') : manifest'[k] = k - 1
  BY <1>1, <1>3, LinesReachTheFile
<1>6. lines' \in Seq(Nat) /\ Len(lines') = 0 /\ queue' \in Seq(Nat)
  BY <1>2, EmptySeq
<1>7. /\ Len(manifest') + Len(lines') <= Len(pictures) /\ Len(lines') <= BufferedLines
      /\ Len(pictures) <= Len(manifest') + BufferedLines + 1
  BY <1>2, <1>3, <1>4, <1>5, <1>6 DEF FramesFollow
<1>8. WriterTypes'
  BY <1>2, <1>3, <1>5, <1>6 DEF WriterTypes
<1>9. FramesFollow'
  BY <1>2, <1>3, <1>5, <1>6, <1>7 DEF FramesFollow
<1> QED
  BY <1>2, <1>8, <1>9 DEF WriterInv, WorkIsDone

LEMMA QueuesStep == WriterInv /\ Queues => WriterInv'
<1> SUFFICES ASSUME WriterInv, Queues PROVE WriterInv'
  OBVIOUS
<1>1. /\ worker \notin {"done", "failed"} /\ queue' = Append(queue, frames) /\ frames' = frames + 1
      /\ UNCHANGED <<open, worker, pictures, lines, manifest>>
  BY DEF Queues, WorkerEnded
<1>2. WriterTypes /\ FramesFollow
  BY DEF WriterInv
<1>3. queue \in Seq(Nat) /\ frames \in Nat /\ Len(queue) \in Nat /\ Len(pictures) \in Nat
  BY <1>2, LenProperties DEF WriterTypes
<1>4. /\ queue' \in Seq(Nat) /\ Len(queue') = Len(queue) + 1
      /\ \A k \in 1 .. Len(queue) : queue'[k] = queue[k]
      /\ queue'[Len(queue) + 1] = frames
  BY <1>1, <1>3, Appended
<1>5. frames = Len(pictures) + Len(queue)
  BY <1>1, <1>2 DEF FramesFollow
<1>6. \A k \in 1 .. Len(queue') : queue'[k] = Len(pictures) + k - 1
  BY SMTT(30), ZenonT(30), <1>1, <1>2, <1>3, <1>4, <1>5 DEF FramesFollow
<1>7. WriterTypes' /\ FramesFollow'
  BY SMTT(30), ZenonT(30), <1>1, <1>2, <1>3, <1>4, <1>5, <1>6 DEF WriterTypes, FramesFollow
<1> QED
  BY <1>1, <1>7 DEF WriterInv, WorkIsDone

LEMMA WriterStep == WriterInv /\ WriterMoves => WriterInv'
<1> SUFFICES ASSUME WriterInv, WriterMoves PROVE WriterInv'
  OBVIOUS
<1> USE DEF WriterInv, WriterTypes, FramesFollow, WorkIsDone
<1>1. CASE Opens
  BY <1>1 DEF Opens
<1>2. CASE OpenManifest
  BY <1>2 DEF OpenManifest, files
<1> QED
  BY <1>1, <1>2, SavePictureStep, WriteLineStep, FlushStep, FailStep, QueuesStep DEF WriterMoves, Worker

LEMMA WriterHolds == Spec => []WriterInv
<1>1. WriterInv /\ [Next]_vars => WriterInv'
  BY StepsMoveTheWriter, WriterStep DEF WriterInv
<1> QED
  BY WriterInitially, <1>1, PTL DEF Spec

\* A recording keeps every accepted frame, once and in order: pictures and lines
\* are numbered without gaps, lines never run ahead of pictures, a worker that
\* ends well leaves none behind, and one that fails leaves no more out of the file
\* than its buffer holds and the picture at hand, whatever the user, the tour and
\* the scan do.
THEOREM FramesStayWhole == Spec => []FramesAreWhole
<1>1. ASSUME WriterInv PROVE FramesAreWhole
  <2>1. WriterTypes /\ FramesFollow /\ WorkIsDone
    BY <1>1 DEF WriterInv
  <2>2. /\ pictures \in Seq(Nat) /\ queue \in Seq(Nat) /\ frames \in Nat
        /\ Len(pictures) \in Nat /\ Len(manifest) \in Nat /\ Len(lines) \in Nat /\ Len(queue) \in Nat
    BY <2>1, LenProperties DEF WriterTypes
  <2>3. IsPrefix(manifest \o lines, pictures)
    <3> DEFINE m == manifest \o lines
               t == SubSeq(pictures, 1, Len(m))
    <3>1. m \in Seq(Nat) /\ Len(m) = Len(manifest) + Len(lines) /\ \A k \in 1 .. Len(m) : m[k] = k - 1
      BY <2>1, BufferIsWritten
    <3> HIDE DEF m
    <3>2. Len(m) \in Nat /\ Len(m) <= Len(pictures)
      BY <2>1, <2>2, <3>1 DEF FramesFollow
    <3>3. SubSeq(m, 1, Len(m)) = m
      BY <3>1, SubSeqFull
    <3>4. \A k \in 1 .. Len(m) : k \in 1 .. Len(pictures) /\ pictures[k] \in Nat /\ pictures[k] = k - 1
      <4> SUFFICES ASSUME NEW k \in 1 .. Len(m)
                   PROVE  k \in 1 .. Len(pictures) /\ pictures[k] \in Nat /\ pictures[k] = k - 1
        OBVIOUS
      <4>1. k \in 1 .. Len(pictures)
        BY <2>2, <3>2
      <4> QED
        BY <2>1, <4>1 DEF FramesFollow
    <3>5. /\ t \in Seq(Nat) /\ Len(t) = Len(m)
          /\ \A k \in 1 .. Len(m) : t[k] = pictures[k]
      <4>1. /\ t \in Seq(Nat)
            /\ Len(t) = IF 1 <= Len(m) THEN Len(m) - 1 + 1 ELSE 0
            /\ \A k \in 1 .. Len(m) - 1 + 1 : t[k] = pictures[1 + k - 1]
        BY <2>2, <3>2, <3>4, SubSeqProperties
      <4> HIDE DEF t
      <4> QED
        BY <3>2, <4>1
    <3>6. t = m
      <4> HIDE DEF t
      <4> QED
        BY <3>1, <3>4, <3>5, Counting
    <3> QED
      BY <3>2, <3>3, <3>6 DEF IsPrefix, m
  <2>4. ASSUME worker # "failed" PROVE pictures \o queue = [k \in 1 .. frames |-> k - 1]
    <3> DEFINE all == pictures \o queue
               count == [k \in 1 .. frames |-> k - 1]
    <3>1. /\ Len(pictures) + Len(queue) = frames
          /\ \A k \in 1 .. Len(pictures) : pictures[k] = k - 1
          /\ \A k \in 1 .. Len(queue) : queue[k] = Len(pictures) + k - 1
      BY <2>1, <2>4 DEF FramesFollow
    <3>2. all \in Seq(Nat) /\ Len(all) = frames /\ \A k \in 1 .. frames : all[k] = k - 1
      BY <2>2, <3>1, CountsThrough
    <3>3. count \in Seq(Nat) /\ Len(count) = frames /\ \A k \in 1 .. frames : count[k] = k - 1
      BY <2>2
    <3>4. all = count
      <4> HIDE DEF all, count
      <4> QED
        BY <3>2, <3>3, Counting
    <3> QED
      BY <3>4
  <2>5. pictures = [k \in DOMAIN pictures |-> k - 1]
    <3>1. pictures \in [1 .. Len(pictures) -> Nat] /\ DOMAIN pictures = 1 .. Len(pictures)
      BY <2>2, LenProperties
    <3> QED
      BY <2>1, <3>1 DEF FramesFollow
  <2>6. worker = "done" => Len(manifest) = frames
    BY <2>1, <2>2, EmptySeq DEF FramesFollow, WorkIsDone
  <2> QED
    BY <2>1, <2>3, <2>4, <2>5, <2>6 DEF FramesAreWhole, FramesFollow
<1> QED
  BY WriterHolds, <1>1, PTL

-----------------------------------------------------------------------------
(* The messages of the runtime.                                            *)

Phases == {"starting", "running", "complete", "incomplete", "fatal", "disconnected"}
Windows == [tab : Tabs \cup {"Setup"}, dark : BOOLEAN, deep : BOOLEAN]
PictureRecords == [window : Windows, scanned : BOOLEAN, arranged : Nat, kept : BOOLEAN]
Stops == [tab : Tabs, dark : BOOLEAN, deep : BOOLEAN]
Tours == [arranged : Nat, kept : BOOLEAN, moved : BOOLEAN, surplus : Nat, touches : Nat]
Models == [shown : Nat, phase : Phases, tab : Tabs, deep : BOOLEAN]
Plans == [step : Nat, armed : BOOLEAN, warmup : Nat]
Messages == [kind : {"tick"}] \cup [kind : {"shot"}, picture : PictureRecords]
              \cup [kind : {"backend"}, generation : Nat, phase : Phases]

\* What is in the queue and in the model; only the scan that runs has a stream.
MailTypes ==
    /\ mailbox \in Seq(Messages) /\ generation \in Nat
    /\ model \in Models /\ dark \in BOOLEAN
    /\ plan \in Plans /\ (plan # NoPlan => plan.step >= 1)
    /\ tour \in Tours /\ requests \in Nat
    /\ scan = NoScan \/ scan.generation = generation
    /\ streams \subseteq {generation}

\* The events that wait are in the order of their scans, none of them older
\* than the model shows nor newer than the last scan.
EventsInOrder ==
    /\ model.shown <= generation
    /\ \A k \in 1 .. Len(mailbox) : mailbox[k].kind = "backend" =>
          model.shown <= mailbox[k].generation /\ mailbox[k].generation <= generation
    /\ \A j, k \in 1 .. Len(mailbox) : j < k /\ mailbox[j].kind = "backend" /\ mailbox[k].kind = "backend" =>
          mailbox[j].generation <= mailbox[k].generation

MailInv == MailTypes /\ EventsInOrder

\* What a step can do to the queue, the model and the generation.
Keeps == UNCHANGED <<mailbox, generation>> /\ model'.shown = model.shown
Starts == mailbox' = mailbox /\ generation' = generation + 1 /\ model'.shown = 0
Posts == /\ generation' = generation /\ model'.shown = model.shown
         /\ \E message \in Messages :
               /\ mailbox' = Append(mailbox, message)
               /\ message.kind = "backend" => message.generation = generation
Handles == /\ generation' = generation /\ mailbox # <<>> /\ mailbox' = Tail(mailbox)
           /\ \/ model'.shown = model.shown
              \/ Head(mailbox).kind = "backend" /\ model'.shown = Head(mailbox).generation
Forgets == generation' = generation /\ mailbox' = <<>> /\ model'.shown = model.shown
MailMoves == Keeps \/ Starts \/ Posts \/ Handles \/ Forgets

LEMMA MailInitially == Init => MailInv
<1> SUFFICES ASSUME Init PROVE MailInv
  OBVIOUS
<1>1. /\ mailbox = <<>> /\ generation = 0 /\ model = NewModel /\ dark \in BOOLEAN
      /\ scan = NoScan /\ streams = {} /\ tour = NoTour /\ requests = 0
      /\ plan = NoPlan \/ plan = [step |-> 1, armed |-> FALSE, warmup |-> WARMUP]
  BY DarkAssumption DEF Init
<1>2. mailbox \in Seq(Messages) /\ model \in Models
  BY <1>1, EmptySeq DEF NewModel, Models, Phases, Tabs
<1>3. plan \in Plans /\ (plan # NoPlan => plan.step >= 1)
  <2>1. CASE plan = NoPlan
    BY <2>1 DEF NoPlan, Plans
  <2>2. CASE plan = [step |-> 1, armed |-> FALSE, warmup |-> WARMUP]
    BY <2>2, WarmupAssumption DEF Plans
  <2> QED
    BY <1>1, <2>1, <2>2
<1>4. MailTypes
  BY <1>1, <1>2, <1>3 DEF MailTypes, NoTour, Tours
<1>5. EventsInOrder
  BY <1>1 DEF EventsInOrder, NewModel
<1> QED
  BY <1>4, <1>5 DEF MailInv

\* Starting a scan, whether it succeeds or not, and what is tracked then.
LEMMA StartKeepsTypes ==
  ASSUME MailTypes, StartScan, Tracked, UNCHANGED <<mailbox, dark, plan, requests>>, tour' \in Tours
  PROVE  MailTypes' /\ (Keeps \/ Starts)
<1>1. CASE UNCHANGED <<scan, generation, model>>
  <2>1. streams' \subseteq {generation'}
    BY <1>1 DEF MailTypes, Tracked
  <2> QED
    BY <1>1, <2>1 DEF MailTypes, Keeps
<1>2. CASE generation' = generation + 1 /\ scan'.generation = generation + 1 /\ model' = NewModel
  <2>1. model' \in Models /\ model'.shown = 0
    BY <1>2 DEF NewModel, Models, Phases, Tabs
  <2> QED
    BY <1>2, <2>1 DEF MailTypes, Tracked, Starts
<1> QED
  BY <1>1, <1>2 DEF StartScan

LEMMA TailKeepsTypes ==
  ASSUME mailbox \in Seq(Messages), mailbox # <<>>, mailbox' = Tail(mailbox)
  PROVE  mailbox' \in Seq(Messages) /\ Head(mailbox) \in Messages
BY HeadTailProperties

\* The views of the tour, and nothing after it.
LEMMA TourTabs ==
  ASSUME NEW elapsed
  PROVE  recording_tour_tab(elapsed) \subseteq Tabs
BY DEF recording_tour_tab, Tabs

\* A message is posted, or the first one taken.
LEMMA AppendKeepsTypes ==
  ASSUME mailbox \in Seq(Messages), NEW message \in Messages, mailbox' = Append(mailbox, message)
  PROVE  mailbox' \in Seq(Messages)
BY AppendProperties

\* What a screenshot posts.
LEMMA PictureIsTyped ==
  ASSUME MailTypes
  PROVE  LET shot == Shot([window |-> View, scanned |-> scan # NoScan,
                           arranged |-> tour.arranged, kept |-> tour.kept])
         IN shot \in Messages /\ shot.kind = "shot" /\ shot.picture \in PictureRecords
<1>1. View \in Windows
  BY DEF MailTypes, View, Windows, Models
<1>2. tour.arranged \in Nat /\ tour.kept \in BOOLEAN /\ (scan # NoScan) \in BOOLEAN
  BY DEF MailTypes, Tours
<1> QED
  BY <1>1, <1>2 DEF Shot, Messages, PictureRecords

\* A user who changes the view.
LEMMA TouchIsTyped ==
  ASSUME MailTypes, NEW focus \in BOOLEAN, Touched(focus)
  PROVE  tour' \in Tours
<1>1. tour.touches + 1 \in Nat /\ (tour.moved \/ focus) \in BOOLEAN
  BY DEF MailTypes, Tours
<1> QED
  BY <1>1 DEF MailTypes, Tours, Touched

LEMMA UsersMoveTheMail == MailTypes /\ User => MailTypes' /\ MailMoves
<1> SUFFICES ASSUME MailTypes, User PROVE MailTypes' /\ MailMoves
  OBVIOUS
<1>1. CASE RootChanged
  BY <1>1 DEF RootChanged, UserIdle, capture, MailTypes, MailMoves, Keeps
<1>2. CASE PressStart
  <2>1. tour' \in Tours
    BY <1>2, TouchIsTyped DEF PressStart
  <2> QED
    BY <1>2, <2>1, StartKeepsTypes DEF PressStart, UserIdle, capture, MailMoves
<1>3. CASE NewScan
  <2>1. tour' \in Tours
    BY <1>3, TouchIsTyped DEF NewScan
  <2> QED
    BY <1>3, <2>1 DEF NewScan, UserIdle, capture, Tracked, MailTypes, MailMoves, Keeps
<1>4. CASE TabSelected \/ FocusDirectory
  <2>1. UNCHANGED <<mailbox, generation, dark, plan, scan, streams, requests>> /\ tour' \in Tours
    BY <1>4, TouchIsTyped DEF TabSelected, FocusDirectory, UserIdle, capture, form
  <2>2. model' \in Models /\ model'.shown = model.shown
    <3>1. \/ \E tab \in TABS : model' = [model EXCEPT !.tab = tab]
          \/ \E deep \in BOOLEAN : model' = [model EXCEPT !.deep = deep]
      BY <1>4 DEF TabSelected, FocusDirectory
    <3> QED
      BY <3>1, TabsAssumption DEF MailTypes, Models
  <2> QED
    BY <2>1, <2>2 DEF MailTypes, MailMoves, Keeps
<1>5. CASE ThemeToggled
  <2>1. tour' \in Tours /\ dark' \in BOOLEAN
    BY <1>5, TouchIsTyped DEF ThemeToggled
  <2>2. UNCHANGED <<mailbox, generation, model, plan, scan, streams, requests>>
    BY <1>5 DEF ThemeToggled, UserIdle, capture, form
  <2> QED
    BY <2>1, <2>2 DEF MailTypes, MailMoves, Keeps
<1>6. CASE CloseWindow
  BY <1>6 DEF CloseWindow, form, capture, runtime, MailTypes, MailMoves, Keeps
<1> QED
  BY <1>1, <1>2, <1>3, <1>4, <1>5, <1>6 DEF User

LEMMA StepsMoveTheMail == MailTypes /\ [Next]_vars => MailTypes' /\ MailMoves
<1> SUFFICES ASSUME MailTypes, [Next]_vars PROVE MailTypes' /\ MailMoves
  OBVIOUS
<1>1. CASE UNCHANGED <<mailbox, generation, model, dark, plan, tour, requests, scan, streams>>
  BY <1>1 DEF MailTypes, MailMoves, Keeps
<1>2. CASE UNCHANGED vars
  BY <1>2, <1>1 DEF vars, form, capture, runtime, window
<1>3. CASE Launch
  <2>1. UNCHANGED <<mailbox, dark, plan, tour, requests>> /\ Tracked
    BY <1>3 DEF Launch, capture
  <2>2. CASE StartScan
    BY <2>1, <2>2, StartKeepsTypes DEF MailMoves, MailTypes
  <2>3. CASE UNCHANGED <<form, model>>
    BY <2>1, <2>3 DEF form, MailTypes, Tracked, MailMoves, Keeps, NoScan
  <2> QED
    BY <1>3, <2>2, <2>3 DEF Launch
<1>4. CASE MetronomeTicks
  <2>1. mailbox' = Append(mailbox, Tick) /\ UNCHANGED <<generation, model, dark, plan, tour, requests, scan, streams>>
    BY <1>4 DEF MetronomeTicks, Post, RuntimeOnly, form, capture, window
  <2>2. Tick \in Messages /\ Tick.kind # "backend"
    BY DEF Tick, Messages
  <2>3. mailbox' \in Seq(Messages)
    BY <2>1, <2>2, AppendKeepsTypes DEF MailTypes
  <2> QED
    BY <2>1, <2>2, <2>3 DEF MailTypes, MailMoves, Posts
<1>5. CASE StreamForwards
  <2>1. PICK g \in streams, phase \in PHASES \cup {"running"} : mailbox' = Append(mailbox, Backend(g, phase))
    BY <1>5 DEF StreamForwards, Post
  <2>2. UNCHANGED <<generation, model, dark, plan, tour, requests, scan, streams>>
    BY <1>5 DEF StreamForwards, RuntimeOnly, form, capture, window
  <2>3. g = generation /\ g \in Nat
    BY DEF MailTypes
  <2>4. phase \in Phases
    BY PhasesAssumption DEF Phases
  <2>5. Backend(g, phase) \in Messages /\ Backend(g, phase).generation = generation
    BY <2>3, <2>4 DEF Backend, Messages
  <2>6. mailbox' \in Seq(Messages)
    BY <2>1, <2>5, AppendKeepsTypes DEF MailTypes
  <2> QED
    BY <2>1, <2>2, <2>5, <2>6 DEF MailTypes, MailMoves, Posts
<1>6. CASE TakeScreenshot
  <2> DEFINE shot == Shot([window |-> View, scanned |-> scan # NoScan,
                           arranged |-> tour.arranged, kept |-> tour.kept])
  <2>1. /\ requests > 0 /\ requests' = requests - 1 /\ mailbox' = Append(mailbox, shot)
        /\ UNCHANGED <<generation, model, dark, plan, tour, scan, streams>>
    BY <1>6 DEF TakeScreenshot, Post, RuntimeOnly, form, capture, window
  <2>2. shot \in Messages /\ shot.kind # "backend"
    BY PictureIsTyped
  <2> HIDE DEF shot
  <2>3. mailbox' \in Seq(Messages) /\ requests' \in Nat
    BY <2>1, <2>2, AppendKeepsTypes DEF MailTypes
  <2> QED
    BY <2>1, <2>2, <2>3 DEF MailTypes, MailMoves, Posts
<1>7. CASE ApplyBackend
  <2>1. /\ mailbox # <<>> /\ Head(mailbox).kind = "backend" /\ mailbox' = Tail(mailbox)
        /\ model' = [model EXCEPT !.shown = Head(mailbox).generation, !.phase = Head(mailbox).phase]
        /\ UNCHANGED <<generation, dark, plan, tour, requests, scan, streams>>
    BY <1>7 DEF ApplyBackend, Receive, Handled, form, capture, window
  <2>2. mailbox' \in Seq(Messages) /\ Head(mailbox) \in Messages
    BY <2>1, TailKeepsTypes DEF MailTypes
  <2>3. Head(mailbox).generation \in Nat /\ Head(mailbox).phase \in Phases
    BY <2>1, <2>2 DEF Messages
  <2>4. /\ model' \in Models
        /\ model'.shown = Head(mailbox).generation
    BY <2>1, <2>3 DEF MailTypes, Models
  <2> QED
    BY <2>1, <2>2, <2>4 DEF MailTypes, MailMoves, Handles
<1>8. CASE RecordingTick
  <2>1. /\ mailbox # <<>> /\ mailbox' = Tail(mailbox)
        /\ UNCHANGED <<generation, model, dark, plan, tour, scan, streams>>
        /\ requests' = requests \/ requests' = requests + 1
    <3>1. requests + 0 = requests
      BY DEF MailTypes
    <3> QED
      BY <1>8, <3>1 DEF RecordingTick, Receive, Handled, form, window
  <2>2. mailbox' \in Seq(Messages) /\ requests' \in Nat
    BY <2>1, TailKeepsTypes DEF MailTypes
  <2> QED
    BY <2>1, <2>2 DEF MailTypes, MailMoves, Handles
<1>9. CASE RecordingStore
  <2>1. /\ mailbox # <<>> /\ mailbox' = Tail(mailbox)
        /\ UNCHANGED <<generation, dark, plan, tour, requests, scan, streams>>
        /\ \/ UNCHANGED model
           \/ \E elapsed : \E tab \in recording_tour_tab(elapsed) : model' = [model EXCEPT !.tab = tab]
    BY <1>9 DEF RecordingStore, Receive, Handled, form, Push
  <2>2. mailbox' \in Seq(Messages)
    BY <2>1, TailKeepsTypes DEF MailTypes
  <2>3. /\ model' \in Models
        /\ model'.shown = model.shown
    <3>1. CASE UNCHANGED model
      BY <3>1 DEF MailTypes
    <3>2. ASSUME NEW elapsed, NEW tab \in recording_tour_tab(elapsed), model' = [model EXCEPT !.tab = tab]
          PROVE  /\ model' \in Models
                 /\ model'.shown = model.shown
      <4>1. tab \in Tabs
        BY <3>2, TourTabs
      <4> QED
        BY <3>2, <4>1 DEF MailTypes, Models
    <3> QED
      BY <2>1, <3>1, <3>2
  <2> QED
    BY <2>1, <2>2, <2>3 DEF MailTypes, MailMoves, Handles
<1>10. CASE AutoshotTick
  <2>1. /\ mailbox # <<>> /\ mailbox' = Tail(mailbox) /\ UNCHANGED <<generation, scan, streams>>
        /\ plan # NoPlan
    BY <1>10 DEF AutoshotTick, Receive, Handled, form
  <2>2. mailbox' \in Seq(Messages) /\ plan \in Plans /\ plan.step >= 1
    BY <2>1, TailKeepsTypes DEF MailTypes
  <2>3. plan' \in Plans /\ plan'.step >= 1
    <3>1. \/ UNCHANGED plan
          \/ plan.warmup > 0 /\ plan' = [plan EXCEPT !.warmup = @ - 1]
          \/ plan' = [plan EXCEPT !.armed = TRUE]
      BY <1>10 DEF AutoshotTick
    <3>2. plan.warmup > 0 => plan.warmup - 1 \in Nat
      BY <2>2 DEF Plans
    <3> QED
      BY <2>2, <3>1, <3>2 DEF Plans
  <2>4. tour' \in Tours /\ requests' \in Nat
    <3>1. \/ UNCHANGED <<tour, requests>>
          \/ tour' = [tour EXCEPT !.arranged = plan.step, !.kept = TRUE] /\ UNCHANGED requests
          \/ /\ tour' = [tour EXCEPT !.surplus = IF Pending > 0 THEN @ + 1 ELSE @]
             /\ requests' = requests + 1
      BY <1>10 DEF AutoshotTick, window
    <3>2. plan.step \in Nat /\ tour.surplus + 1 \in Nat /\ requests + 1 \in Nat
      BY <2>2 DEF MailTypes, Plans, Tours
    <3> QED
      BY <3>1, <3>2 DEF MailTypes, Tours
  <2>5. /\ model' \in Models /\ dark' \in BOOLEAN
        /\ model'.shown = model.shown
    <3>1. CASE UNCHANGED <<model, dark>>
      BY <3>1 DEF MailTypes
    <3>2. CASE /\ plan.step <= Len(AUTOSHOT_STEPS)
               /\ dark' = AUTOSHOT_STEPS[plan.step].dark
               /\ model' = [model EXCEPT !.tab = AUTOSHOT_STEPS[plan.step].tab,
                                         !.deep = @ \/ AUTOSHOT_STEPS[plan.step].deep]
      <4>1. plan.step \in 1 .. Len(AUTOSHOT_STEPS)
        BY <2>2, <3>2, StepsAssumption, LenProperties DEF Plans
      <4>2. AUTOSHOT_STEPS[plan.step] \in Stops
        BY <4>1, StepsAssumption, ElementOfSeq DEF Stops
      <4> QED
        BY <3>2, <4>2 DEF MailTypes, Stops, Models
    <3> QED
      BY <1>10, <3>1, <3>2 DEF AutoshotTick
  <2> QED
    BY <2>1, <2>2, <2>3, <2>4, <2>5 DEF MailTypes, MailMoves, Handles
<1>11. CASE AutoshotStore
  <2>1. /\ mailbox # <<>> /\ mailbox' = Tail(mailbox)
        /\ UNCHANGED <<generation, model, dark, tour, requests, scan, streams>> /\ plan # NoPlan
    BY <1>11 DEF AutoshotStore, Receive, Handled, form
  <2>2. mailbox' \in Seq(Messages)
    BY <2>1, TailKeepsTypes DEF MailTypes
  <2>3. plan' \in Plans /\ plan'.step >= 1
    <3>1. UNCHANGED plan \/ plan' = [plan EXCEPT !.step = @ + 1, !.armed = FALSE]
      BY <1>11 DEF AutoshotStore, Advanced
    <3>2. plan \in Plans /\ plan.step >= 1
      BY <2>1 DEF MailTypes
    <3>3. CASE plan' = [plan EXCEPT !.step = @ + 1, !.armed = FALSE]
      <4>1. plan.step + 1 \in Nat /\ plan.step + 1 >= 1
        BY <3>2 DEF Plans
      <4> QED
        BY <3>2, <3>3, <4>1 DEF Plans
    <3> QED
      BY <3>1, <3>2, <3>3
  <2> QED
    BY <2>1, <2>2, <2>3 DEF MailTypes, MailMoves, Handles
<1>12. CASE CloseWriter \/ JoinWriter \/ WorkerSteps
  BY <1>12, <1>1 DEF CloseWriter, JoinWriter, WorkerSteps, form, capture, runtime, window
<1>13. CASE Leave
  BY <1>13, EmptySeq DEF Leave, form, capture, MailTypes, MailMoves, Forgets
<1> QED
  BY <1>2, <1>3, <1>4, <1>5, <1>6, <1>7, <1>8, <1>9, <1>10, <1>11, <1>12, <1>13, UsersMoveTheMail
     DEF Next, Update

\* The order of the events survives every such step.
LEMMA OrderStep == MailInv /\ MailTypes' /\ MailMoves => EventsInOrder'
<1> SUFFICES ASSUME MailInv, MailTypes', MailMoves PROVE EventsInOrder'
  OBVIOUS
<1>1. /\ EventsInOrder /\ mailbox \in Seq(Messages) /\ Len(mailbox) \in Nat
      /\ generation \in Nat /\ model.shown \in Nat
  BY LenProperties DEF MailInv, MailTypes, Models
<1>2. \A k \in 1 .. Len(mailbox) : mailbox[k].kind = "backend" => mailbox[k].generation \in Nat
  <2> TAKE k \in 1 .. Len(mailbox)
  <2>1. mailbox[k] \in Messages
    BY <1>1, ElementOfSeq
  <2> QED
    BY <2>1 DEF Messages
<1>3. CASE Keeps
  BY <1>1, <1>3 DEF Keeps, EventsInOrder
<1>4. CASE Starts
  BY <1>1, <1>2, <1>4 DEF Starts, EventsInOrder
<1>5. CASE Posts
  <2>1. PICK message \in Messages : /\ mailbox' = Append(mailbox, message)
                                    /\ message.kind = "backend" => message.generation = generation
    BY <1>5 DEF Posts
  <2>2. /\ Len(mailbox') = Len(mailbox) + 1
        /\ \A k \in 1 .. Len(mailbox) : mailbox'[k] = mailbox[k]
        /\ mailbox'[Len(mailbox) + 1] = message
    BY <1>1, <2>1, AppendProperties
  <2>3. generation' = generation /\ model'.shown = model.shown
    BY <1>5 DEF Posts
  <2>4. \A k \in 1 .. Len(mailbox') : k \in 1 .. Len(mailbox) \/ k = Len(mailbox) + 1
    BY <1>1, <2>2
  <2>5. \A k \in 1 .. Len(mailbox') : mailbox'[k].kind = "backend" =>
           model.shown <= mailbox'[k].generation /\ mailbox'[k].generation <= generation
    <3> TAKE k \in 1 .. Len(mailbox')
    <3>1. CASE k \in 1 .. Len(mailbox)
      BY <1>1, <2>2, <3>1 DEF EventsInOrder
    <3>2. CASE k = Len(mailbox) + 1
      BY <1>1, <2>1, <2>2, <3>2 DEF EventsInOrder
    <3> QED
      BY <2>4, <3>1, <3>2
  <2>6. ASSUME NEW j \in 1 .. Len(mailbox'), NEW k \in 1 .. Len(mailbox'), j < k,
               mailbox'[j].kind = "backend", mailbox'[k].kind = "backend"
        PROVE  mailbox'[j].generation <= mailbox'[k].generation
    <3>1. j \in 1 .. Len(mailbox)
      BY <1>1, <2>2, <2>6
    <3>2. CASE k \in 1 .. Len(mailbox)
      BY <1>1, <2>2, <2>6, <3>1, <3>2 DEF EventsInOrder
    <3>3. CASE k = Len(mailbox) + 1
      BY <2>1, <2>2, <2>5, <2>6, <3>3
    <3> QED
      BY <2>4, <3>2, <3>3
  <2> QED
    BY <1>1, <2>3, <2>5, <2>6 DEF EventsInOrder
<1>6. CASE Handles
  <2>1. /\ mailbox # <<>> /\ mailbox' = Tail(mailbox) /\ generation' = generation
        /\ \/ model'.shown = model.shown
           \/ Head(mailbox).kind = "backend" /\ model'.shown = Head(mailbox).generation
    BY <1>6 DEF Handles
  <2>2. /\ Len(mailbox') = Len(mailbox) - 1
        /\ \A k \in 1 .. Len(mailbox') : mailbox'[k] = mailbox[k + 1]
    BY <1>1, <2>1, HeadTailProperties
  <2>3. Len(mailbox) >= 1 /\ Head(mailbox) = mailbox[1]
    BY <1>1, <2>1, EmptySeq
  <2>4. \A k \in 1 .. Len(mailbox') : k + 1 \in 1 .. Len(mailbox) /\ 1 < k + 1 /\ 1 \in 1 .. Len(mailbox)
    BY <1>1, <2>2, <2>3
  <2>5. model'.shown <= generation
    BY <1>1, <2>1, <2>3 DEF EventsInOrder
  <2>6. \A k \in 1 .. Len(mailbox') : mailbox'[k].kind = "backend" =>
           model'.shown <= mailbox'[k].generation /\ mailbox'[k].generation <= generation
    <3> SUFFICES ASSUME NEW k \in 1 .. Len(mailbox'), mailbox'[k].kind = "backend"
                 PROVE  model'.shown <= mailbox'[k].generation /\ mailbox'[k].generation <= generation
      OBVIOUS
    <3>1. /\ k + 1 \in 1 .. Len(mailbox) /\ 1 < k + 1 /\ 1 \in 1 .. Len(mailbox)
          /\ mailbox'[k] = mailbox[k + 1]
      BY <2>2, <2>4
    <3>2. model.shown <= mailbox[k + 1].generation /\ mailbox[k + 1].generation <= generation
      BY <1>1, <3>1 DEF EventsInOrder
    <3>3. mailbox[1].kind = "backend" => mailbox[1].generation <= mailbox[k + 1].generation
      BY <1>1, <3>1 DEF EventsInOrder
    <3> QED
      BY <2>1, <2>3, <3>1, <3>2, <3>3
  <2>7. ASSUME NEW j \in 1 .. Len(mailbox'), NEW k \in 1 .. Len(mailbox'), j < k,
               mailbox'[j].kind = "backend", mailbox'[k].kind = "backend"
        PROVE  mailbox'[j].generation <= mailbox'[k].generation
    <3>1. /\ j + 1 \in 1 .. Len(mailbox) /\ k + 1 \in 1 .. Len(mailbox) /\ j + 1 < k + 1
          /\ mailbox'[j] = mailbox[j + 1] /\ mailbox'[k] = mailbox[k + 1]
      BY SMTT(30), ZenonT(30), <1>1, <2>2, <2>4, <2>7
    <3> QED
      BY <1>1, <2>7, <3>1 DEF EventsInOrder
  <2> QED
    BY <2>1, <2>5, <2>6, <2>7 DEF EventsInOrder
<1>7. CASE Forgets
  BY <1>1, <1>7 DEF Forgets, EventsInOrder
<1> QED
  BY <1>3, <1>4, <1>5, <1>6, <1>7 DEF MailMoves

\* Once the model shows a scan, no event of an older one changes it: an event that
\* was still queued when its scan was replaced comes before the new scan's own.
THEOREM OldEventsStayBehind == Spec => OldEventsComeFirst
<1>1. MailInv /\ [Next]_vars => MailInv'
  BY StepsMoveTheMail, OrderStep DEF MailInv
<1>2. MailInv /\ [Next]_vars => [generation' = generation => model'.shown >= model.shown]_vars
  <2> SUFFICES ASSUME MailInv, [Next]_vars, generation' = generation PROVE model'.shown >= model.shown
    OBVIOUS
  <2>1. /\ EventsInOrder /\ mailbox \in Seq(Messages) /\ Len(mailbox) \in Nat
        /\ generation \in Nat /\ model.shown \in Nat /\ MailMoves
    BY StepsMoveTheMail, LenProperties DEF MailInv, MailTypes, Models
  <2>2. CASE model'.shown = model.shown
    BY <2>1, <2>2
  <2>3. CASE Starts
    BY <2>1, <2>3 DEF Starts
  <2>4. CASE mailbox # <<>> /\ Head(mailbox).kind = "backend" /\ model'.shown = Head(mailbox).generation
    <3>1. 1 \in 1 .. Len(mailbox) /\ Head(mailbox) = mailbox[1] /\ mailbox[1] \in Messages
      BY <2>1, <2>4, EmptySeq, ElementOfSeq
    <3>2. model.shown <= mailbox[1].generation /\ mailbox[1].generation \in Nat
      BY <2>1, <2>4, <3>1 DEF EventsInOrder, Messages
    <3> QED
      BY <2>1, <2>4, <3>1, <3>2
  <2> QED
    BY <2>1, <2>2, <2>3, <2>4 DEF MailMoves, Keeps, Posts, Handles, Forgets
<1> QED
  BY MailInitially, <1>1, <1>2, PTL DEF Spec, OldEventsComeFirst

-----------------------------------------------------------------------------
(* The screenshots on their way.                                           *)

\* A queue without a screenshot, and one with a single one, whose picture is in Q.
Shotless(s) == \A k \in 1 .. Len(s) : s[k].kind # "shot"
OneShotOf(s, Q) ==
    \E j \in 1 .. Len(s) :
       /\ s[j].kind = "shot" /\ s[j].picture \in Q
       /\ \A k \in 1 .. Len(s) : s[k].kind = "shot" => k = j

\* No screenshot is due, and one is: asked for, or taken and in the queue.
NoneDue == requests = 0 /\ Shotless(mailbox)
OneDue(Q) == \/ requests = 1 /\ Shotless(mailbox)
             \/ requests = 0 /\ OneShotOf(mailbox, Q)

\* Counting them.
LEMMA NonePending == MailTypes /\ NoneDue => Pending = 0
<1> SUFFICES ASSUME MailTypes, NoneDue PROVE Pending = 0
  OBVIOUS
<1>1. DOMAIN mailbox = 1 .. Len(mailbox)
  BY LenProperties DEF MailTypes
<1>2. {k \in DOMAIN mailbox : mailbox[k].kind = "shot"} = {}
  BY <1>1 DEF NoneDue, Shotless
<1> QED
  BY <1>2, FS_EmptySet DEF Pending, Posted, NoneDue

LEMMA OnePending ==
  ASSUME MailTypes, NEW Q, OneDue(Q)
  PROVE  Pending = 1
<1>1. DOMAIN mailbox = 1 .. Len(mailbox)
  BY LenProperties DEF MailTypes
<1>2. CASE requests = 1 /\ Shotless(mailbox)
  <2>1. {k \in DOMAIN mailbox : mailbox[k].kind = "shot"} = {}
    BY <1>1, <1>2 DEF Shotless
  <2> QED
    BY <1>2, <2>1, FS_EmptySet DEF Pending, Posted
<1>3. CASE requests = 0 /\ OneShotOf(mailbox, Q)
  <2>1. PICK j \in 1 .. Len(mailbox) :
          mailbox[j].kind = "shot" /\ \A k \in 1 .. Len(mailbox) : mailbox[k].kind = "shot" => k = j
    BY <1>3 DEF OneShotOf
  <2>2. {k \in DOMAIN mailbox : mailbox[k].kind = "shot"} = {j}
    BY <1>1, <2>1
  <2>3. Cardinality({j}) = 1
    BY FS_Singleton
  <2>4. Posted("shot") = 1
    BY <2>2, <2>3 DEF Posted
  <2> QED
    BY <1>3, <2>4 DEF Pending
<1> QED
  BY <1>2, <1>3 DEF OneDue

\* A message is posted.
LEMMA PostedKeepsShots ==
  ASSUME NEW s \in Seq(Messages), NEW message \in Messages, NEW Q
  PROVE  /\ message.kind # "shot" /\ Shotless(s) => Shotless(Append(s, message))
         /\ message.kind # "shot" /\ OneShotOf(s, Q) => OneShotOf(Append(s, message), Q)
         /\ message.kind = "shot" /\ message.picture \in Q /\ Shotless(s) => OneShotOf(Append(s, message), Q)
<1> DEFINE t == Append(s, message)
<1>1. /\ Len(t) = Len(s) + 1 /\ Len(s) \in Nat
      /\ \A k \in 1 .. Len(s) : t[k] = s[k]
      /\ t[Len(s) + 1] = message
  BY AppendProperties, LenProperties
<1> HIDE DEF t
<1>2. \A k \in 1 .. Len(t) : k \in 1 .. Len(s) \/ k = Len(s) + 1
  BY <1>1
<1>3. Len(s) + 1 \in 1 .. Len(t) /\ \A k \in 1 .. Len(s) : k \in 1 .. Len(t)
  BY <1>1
<1>4. ASSUME message.kind # "shot", Shotless(s) PROVE Shotless(t)
  BY <1>1, <1>2, <1>4 DEF Shotless
<1>5. ASSUME message.kind # "shot", OneShotOf(s, Q) PROVE OneShotOf(t, Q)
  <2>1. PICK j \in 1 .. Len(s) :
           /\ s[j].kind = "shot" /\ s[j].picture \in Q
           /\ \A k \in 1 .. Len(s) : s[k].kind = "shot" => k = j
    BY <1>5 DEF OneShotOf
  <2>2. j \in 1 .. Len(t) /\ t[j].kind = "shot" /\ t[j].picture \in Q
    BY <1>1, <1>3, <2>1
  <2>3. \A k \in 1 .. Len(t) : t[k].kind = "shot" => k = j
    BY <1>1, <1>2, <1>5, <2>1
  <2> QED
    BY <2>2, <2>3 DEF OneShotOf
<1>6. ASSUME message.kind = "shot", message.picture \in Q, Shotless(s) PROVE OneShotOf(t, Q)
  BY <1>1, <1>2, <1>3, <1>6 DEF OneShotOf, Shotless
<1> QED
  BY <1>4, <1>5, <1>6 DEF t

\* The first message is taken.
LEMMA HandledKeepsShots ==
  ASSUME NEW s \in Seq(Messages), s # <<>>, NEW Q
  PROVE  /\ Shotless(s) => Head(s).kind # "shot" /\ Shotless(Tail(s))
         /\ Head(s).kind # "shot" /\ OneShotOf(s, Q) => OneShotOf(Tail(s), Q)
         /\ Head(s).kind = "shot" /\ OneShotOf(s, Q) => Head(s).picture \in Q /\ Shotless(Tail(s))
<1> DEFINE t == Tail(s)
<1>1. /\ Len(t) = Len(s) - 1 /\ Len(s) \in Nat /\ Len(s) >= 1
      /\ \A k \in 1 .. Len(t) : t[k] = s[k + 1]
      /\ Head(s) = s[1]
  BY HeadTailProperties, LenProperties, EmptySeq
<1> HIDE DEF t
<1>2. 1 \in 1 .. Len(s) /\ \A k \in 1 .. Len(t) : k + 1 \in 1 .. Len(s) /\ k + 1 # 1
  BY <1>1
<1>3. ASSUME Shotless(s) PROVE Head(s).kind # "shot" /\ Shotless(t)
  BY <1>1, <1>2, <1>3 DEF Shotless
<1>4. ASSUME Head(s).kind # "shot", OneShotOf(s, Q) PROVE OneShotOf(t, Q)
  <2>1. PICK j \in 1 .. Len(s) :
           /\ s[j].kind = "shot" /\ s[j].picture \in Q
           /\ \A k \in 1 .. Len(s) : s[k].kind = "shot" => k = j
    BY <1>4 DEF OneShotOf
  <2>2. j # 1
    BY <1>1, <1>4, <2>1
  <2>3. j - 1 \in 1 .. Len(t) /\ (j - 1) + 1 = j
    BY <1>1, <2>1, <2>2
  <2>4. t[j - 1].kind = "shot" /\ t[j - 1].picture \in Q
    BY <1>1, <2>1, <2>3
  <2>5. \A k \in 1 .. Len(t) : t[k].kind = "shot" => k = j - 1
    <3> SUFFICES ASSUME NEW k \in 1 .. Len(t), t[k].kind = "shot" PROVE k = j - 1
      OBVIOUS
    <3>1. k + 1 = j
      BY <1>1, <1>2, <2>1
    <3> QED
      BY <3>1, <1>1
  <2> QED
    BY <2>3, <2>4, <2>5 DEF OneShotOf
<1>5. ASSUME Head(s).kind = "shot", OneShotOf(s, Q) PROVE Head(s).picture \in Q /\ Shotless(t)
  <2>1. PICK j \in 1 .. Len(s) :
           /\ s[j].kind = "shot" /\ s[j].picture \in Q
           /\ \A k \in 1 .. Len(s) : s[k].kind = "shot" => k = j
    BY <1>5 DEF OneShotOf
  <2>2. j = 1
    BY <1>1, <1>2, <1>5, <2>1
  <2> QED
    BY <1>1, <1>2, <2>1, <2>2 DEF Shotless
<1> QED
  BY <1>3, <1>4, <1>5 DEF t

-----------------------------------------------------------------------------
(* The recording.                                                          *)

\* A step that neither takes a screenshot nor handles one, and does not ask for one.
SparesShots ==
    \/ mailbox' = mailbox
    \/ \E message \in Messages : message.kind # "shot" /\ mailbox' = Append(mailbox, message)
    \/ mailbox # <<>> /\ Head(mailbox).kind # "shot" /\ mailbox' = Tail(mailbox)
LeavesShots == requests' = requests /\ SparesShots

LEMMA LeftAlone ==
  ASSUME MailTypes, LeavesShots, NEW Q
  PROVE  /\ NoneDue => NoneDue'
         /\ OneDue(Q) => \/ requests' = 1 /\ Shotless(mailbox')
                         \/ requests' = 0 /\ OneShotOf(mailbox', Q)
<1>1. mailbox \in Seq(Messages)
  BY DEF MailTypes
<1>2. (Shotless(mailbox) => Shotless(mailbox')) /\ (OneShotOf(mailbox, Q) => OneShotOf(mailbox', Q))
  <2>1. CASE mailbox' = mailbox
    BY <2>1
  <2>2. CASE \E message \in Messages : message.kind # "shot" /\ mailbox' = Append(mailbox, message)
    BY <1>1, <2>2, PostedKeepsShots
  <2>3. CASE mailbox # <<>> /\ Head(mailbox).kind # "shot" /\ mailbox' = Tail(mailbox)
    BY <1>1, <2>3, HandledKeepsShots
  <2> QED
    BY <2>1, <2>2, <2>3 DEF LeavesShots, SparesShots
<1> QED
  BY <1>2 DEF LeavesShots, SparesShots, NoneDue, OneDue

\* A capture is under way just when the recording says so.
OneCapture == IF recording.capturing THEN OneDue(PictureRecords) ELSE NoneDue

RecordingTypes ==
    /\ recording \in [capturing : BOOLEAN, since : -2 .. 16]
    /\ worker = "done" => ~ open
    /\ recording # NoRecording => recording.since >= -1

\* The channel is open while the recording goes on, which ends with its 16
\* seconds, with the writer or with the window.
RecordingEnds ==
    recording # NoRecording =>
       /\ status \in {"launching", "up"} => open
       /\ status \notin {"launching", "up"} => recording.since = 16 \/ worker = "failed" \/ closed

RecordingCaptures == recording # NoRecording /\ status # "gone" => OneCapture

RecordingInv == RecordingTypes /\ RecordingEnds /\ RecordingCaptures

LEMMA RecordingInitially == Init => RecordingInv
<1> SUFFICES ASSUME Init PROVE RecordingInv
  OBVIOUS
<1>1. status = "launching" /\ mailbox = <<>> /\ requests = 0
  BY DEF Init
<1>2. NoneDue
  BY <1>1 DEF NoneDue, Shotless
<1>3. CASE recording = NoRecording
  <2>1. ~ open
    BY <1>3 DEF Init, InitWriter
  <2>2. recording \in [capturing : BOOLEAN, since : -2 .. 16]
    BY <1>3 DEF NoRecording
  <2> QED
    BY <1>3, <2>1, <2>2 DEF RecordingInv, RecordingTypes, RecordingEnds, RecordingCaptures
<1>4. CASE recording = [capturing |-> FALSE, since |-> -1]
  <2>1. recording # NoRecording /\ recording.since = -1 /\ ~ recording.capturing
    BY <1>4 DEF NoRecording
  <2>2. open /\ worker = "starting"
    BY <2>1 DEF Init, InitWriter
  <2>3. recording \in [capturing : BOOLEAN, since : -2 .. 16]
    BY <1>4
  <2> QED
    BY <1>1, <1>2, <1>4, <2>1, <2>2, <2>3
       DEF RecordingInv, RecordingTypes, RecordingEnds, RecordingCaptures, OneCapture
<1> QED
  BY <1>3, <1>4 DEF Init

\* Steps that have nothing to do with the recording.
LEMMA RecordingUntouched ==
  ASSUME RecordingInv, MailTypes, LeavesShots, UNCHANGED <<recording, open, worker>>,
         \/ closed' = closed /\ status' = status
         \/ closed' = closed /\ status = "launching" /\ status' = "up"
         \/ closed' = closed /\ status = "finishing" /\ status' = "leaving"
         \/ closed' = TRUE /\ status = "up" /\ status' = "leaving"
  PROVE  RecordingInv'
<1>1. RecordingTypes'
  BY DEF RecordingInv, RecordingTypes
<1>2. RecordingEnds'
  BY DEF RecordingInv, RecordingEnds
<1>3. RecordingCaptures'
  <2> SUFFICES ASSUME recording # NoRecording, status' # "gone" PROVE OneCapture'
    BY DEF RecordingCaptures
  <2>1. OneCapture
    BY DEF RecordingInv, RecordingCaptures
  <2>2. CASE recording.capturing
    BY <2>1, <2>2, LeftAlone DEF OneCapture, OneDue
  <2>3. CASE ~ recording.capturing
    BY <2>1, <2>3, LeftAlone DEF OneCapture
  <2> QED
    BY <2>2, <2>3
<1> QED
  BY <1>1, <1>2, <1>3 DEF RecordingInv

\* What is the smaller of two integers.
LEMMA MinOfTwo ==
  ASSUME NEW a \in Int, NEW b \in Int
  PROVE  Min({a, b}) = IF a <= b THEN a ELSE b
BY DEF Min

\* The time of a frame.
LEMMA ElapsedIs ==
  ASSUME RecordingTypes, MailTypes, recording # NoRecording, NEW seconds \in Pauses
  PROVE  /\ Elapsed(seconds) \in -1 .. 16
         /\ model.phase \in Terminals /\ recording_tour_tab(Elapsed(seconds)) = {} => Elapsed(seconds) = 16
         /\ recording.since = 16 => Elapsed(seconds) = 16
<1>1. recording.since \in -1 .. 16 /\ seconds \in Nat
  BY SecondsAssumption DEF RecordingTypes, Pauses
<1>2. Elapsed(seconds) = IF recording.since = -1 THEN (IF model.phase \in Terminals THEN 0 ELSE -1)
                         ELSE Min({recording.since + seconds, 16})
  BY DEF Elapsed
<1>3. Min({recording.since + seconds, 16})
        = IF recording.since + seconds <= 16 THEN recording.since + seconds ELSE 16
  BY <1>1, MinOfTwo
<1>4. Elapsed(seconds) \in -1 .. 16 /\ (recording.since = 16 => Elapsed(seconds) = 16)
  BY <1>1, <1>2, <1>3
<1>5. model.phase \in Terminals => Elapsed(seconds) \in 0 .. 16
  BY <1>1, <1>2, <1>3
<1>6. ASSUME NEW e \in 0 .. 16, recording_tour_tab(e) = {} PROVE e = 16
  BY <1>6 DEF recording_tour_tab
<1> QED
  BY <1>4, <1>5, <1>6

LEMMA RecordingTickStep == RecordingInv /\ MailTypes /\ RecordingTick => RecordingInv'
<1> SUFFICES ASSUME RecordingInv, MailTypes, RecordingTick PROVE RecordingInv'
  OBVIOUS
<1>1. /\ mailbox # <<>> /\ Head(mailbox).kind = "tick" /\ mailbox' = Tail(mailbox)
      /\ status \in {"up", "leaving"} /\ recording # NoRecording
      /\ recording' = [recording EXCEPT !.capturing = TRUE]
      /\ requests' = requests + (IF recording.capturing THEN 0 ELSE 1)
      /\ UNCHANGED <<status, closed, open, worker>>
  BY DEF RecordingTick, Receive, Handled, writer, window
<1>2. recording \in [capturing : BOOLEAN, since : -2 .. 16] /\ recording.since >= -1
  BY <1>1 DEF RecordingInv, RecordingTypes
<1>3. /\ recording' \in [capturing : BOOLEAN, since : -2 .. 16] /\ recording'.since = recording.since
      /\ recording'.capturing
  BY <1>1, <1>2
<1>4. RecordingTypes' /\ RecordingEnds'
  BY <1>1, <1>2, <1>3 DEF RecordingInv, RecordingTypes, RecordingEnds
<1>5. OneCapture /\ mailbox \in Seq(Messages)
  BY <1>1 DEF RecordingInv, RecordingCaptures, MailTypes
<1>6. OneCapture'
  <2>1. /\ Shotless(mailbox) => Shotless(mailbox')
        /\ OneShotOf(mailbox, PictureRecords) => OneShotOf(mailbox', PictureRecords)
    BY <1>1, <1>5, HandledKeepsShots
  <2> QED
    BY <1>1, <1>3, <1>5, <2>1 DEF OneCapture, OneDue, NoneDue
<1> QED
  BY <1>4, <1>6 DEF RecordingInv, RecordingCaptures

LEMMA RecordingStoreStep == RecordingInv /\ WriterTypes /\ MailTypes /\ RecordingStore => RecordingInv'
<1> SUFFICES ASSUME RecordingInv, WriterTypes, MailTypes, RecordingStore PROVE RecordingInv'
  OBVIOUS
<1>1. /\ mailbox # <<>> /\ Head(mailbox).kind = "shot" /\ mailbox' = Tail(mailbox)
      /\ status \in {"up", "leaving"} /\ recording # NoRecording /\ UNCHANGED <<closed, requests>>
  BY DEF RecordingStore, Receive, Handled
<1>2. /\ recording \in [capturing : BOOLEAN, since : -2 .. 16] /\ recording.since >= -1
      /\ worker = "done" => ~ open
      /\ status = "up" => open
      /\ status = "leaving" => recording.since = 16 \/ worker = "failed" \/ closed
  BY <1>1 DEF RecordingInv, RecordingTypes, RecordingEnds
<1>3. PICK seconds \in Pauses :
        \/ /\ ~ (open /\ ~ WorkerEnded) /\ recording' = [recording EXCEPT !.capturing = FALSE]
           /\ status' = "leaving" /\ worker' = worker /\ (open' = open \/ open' = FALSE)
        \/ /\ open /\ ~ WorkerEnded /\ UNCHANGED <<open, worker>>
           /\ recording' = [capturing |-> FALSE, since |-> Elapsed(seconds)]
           /\ status' = IF model.phase \in Terminals /\ recording_tour_tab(Elapsed(seconds)) = {}
                        THEN "finishing" ELSE status
  BY DEF RecordingStore, Push, Quit, writer
<1>4. /\ Elapsed(seconds) \in -1 .. 16
      /\ model.phase \in Terminals /\ recording_tour_tab(Elapsed(seconds)) = {} => Elapsed(seconds) = 16
      /\ recording.since = 16 => Elapsed(seconds) = 16
  BY <1>1, ElapsedIs DEF RecordingInv
<1>5. /\ recording' \in [capturing : BOOLEAN, since : -2 .. 16] /\ recording'.since >= -1
      /\ ~ recording'.capturing
  <2>1. CASE recording' = [recording EXCEPT !.capturing = FALSE]
    BY <1>2, <2>1
  <2>2. CASE recording' = [capturing |-> FALSE, since |-> Elapsed(seconds)]
    <3> HIDE DEF Elapsed
    <3> QED
      BY <1>4, <2>2
  <2> QED
    BY <1>3, <2>1, <2>2
<1>6. RecordingTypes'
  BY <1>1, <1>2, <1>3, <1>5 DEF RecordingTypes
<1>7. RecordingEnds'
  <2>1. CASE /\ ~ (open /\ ~ WorkerEnded) /\ recording' = [recording EXCEPT !.capturing = FALSE]
             /\ status' = "leaving" /\ worker' = worker
    <3>1. recording'.since = recording.since
      BY <1>2, <2>1
    <3>2. recording.since = 16 \/ worker = "failed" \/ closed
      BY <1>1, <1>2, <2>1 DEF WorkerEnded
    <3> QED
      BY <1>1, <2>1, <3>1, <3>2 DEF RecordingEnds
  <2>2. CASE /\ open /\ ~ WorkerEnded /\ UNCHANGED <<open, worker>>
             /\ recording' = [capturing |-> FALSE, since |-> Elapsed(seconds)]
             /\ status' = IF model.phase \in Terminals /\ recording_tour_tab(Elapsed(seconds)) = {}
                          THEN "finishing" ELSE status
    BY <1>1, <1>2, <1>4, <2>2 DEF RecordingEnds, WorkerEnded
  <2> QED
    BY <1>3, <2>1, <2>2
<1>8. OneCapture'
  <2>1. OneCapture /\ mailbox \in Seq(Messages)
    BY <1>1 DEF RecordingInv, RecordingCaptures, MailTypes
  <2>2. ~ Shotless(mailbox) /\ (OneShotOf(mailbox, PictureRecords) => Shotless(mailbox'))
    BY <1>1, <2>1, HandledKeepsShots
  <2>3. requests = 0 /\ OneShotOf(mailbox, PictureRecords)
    BY <2>1, <2>2 DEF OneCapture, OneDue, NoneDue
  <2> QED
    BY <1>1, <1>5, <2>2, <2>3 DEF OneCapture, NoneDue
<1> QED
  BY <1>6, <1>7, <1>8 DEF RecordingInv, RecordingCaptures

LEMMA RecordingShotStep == RecordingInv /\ MailTypes /\ TakeScreenshot => RecordingInv'
<1> SUFFICES ASSUME RecordingInv, MailTypes, TakeScreenshot PROVE RecordingInv'
  OBVIOUS
<1> DEFINE shot == Shot([window |-> View, scanned |-> scan # NoScan,
                         arranged |-> tour.arranged, kept |-> tour.kept])
<1>1. /\ requests > 0 /\ requests' = requests - 1 /\ mailbox' = Append(mailbox, shot)
      /\ UNCHANGED <<recording, status, closed, open, worker>>
  BY DEF TakeScreenshot, Post, RuntimeOnly, capture, writer, window
<1>2. shot \in Messages /\ shot.kind = "shot" /\ shot.picture \in PictureRecords
  BY PictureIsTyped
<1> HIDE DEF shot
<1>3. RecordingTypes' /\ RecordingEnds'
  BY <1>1 DEF RecordingInv, RecordingTypes, RecordingEnds
<1>4. ASSUME recording # NoRecording, status # "gone" PROVE OneCapture'
  <2>1. OneCapture /\ mailbox \in Seq(Messages)
    BY <1>4 DEF RecordingInv, RecordingCaptures, MailTypes
  <2>2. requests = 1 /\ Shotless(mailbox) /\ recording.capturing
    BY <1>1, <2>1 DEF OneCapture, OneDue, NoneDue
  <2>3. OneShotOf(mailbox', PictureRecords)
    BY <1>1, <1>2, <2>1, <2>2, PostedKeepsShots
  <2> QED
    BY <1>1, <2>2, <2>3 DEF OneCapture, OneDue
<1> QED
  BY <1>1, <1>3, <1>4 DEF RecordingInv, RecordingCaptures

\* The steps that leave screenshots alone.
LEMMA StepsLeaveShots ==
  ASSUME MailTypes,
         \/ Launch \/ User \/ MetronomeTicks \/ StreamForwards \/ ApplyBackend
         \/ CloseWriter \/ JoinWriter \/ WorkerSteps \/ UNCHANGED vars
  PROVE  LeavesShots
<1>1. CASE Launch \/ User
  BY <1>1 DEF Launch, User, RootChanged, PressStart, NewScan, TabSelected, ThemeToggled, FocusDirectory,
              CloseWindow, runtime, UserIdle, LeavesShots, SparesShots
<1>2. CASE MetronomeTicks
  <2>1. requests' = requests /\ mailbox' = Append(mailbox, Tick)
    BY <1>2 DEF MetronomeTicks, Post
  <2>2. Tick \in Messages /\ Tick.kind # "shot"
    BY DEF Tick, Messages
  <2> QED
    BY <2>1, <2>2 DEF LeavesShots, SparesShots
<1>3. CASE StreamForwards
  <2>1. PICK g \in streams, phase \in PHASES \cup {"running"} : mailbox' = Append(mailbox, Backend(g, phase))
    BY <1>3 DEF StreamForwards, Post
  <2>2. g \in Nat /\ phase \in Phases
    BY PhasesAssumption DEF MailTypes, Phases
  <2>3. Backend(g, phase) \in Messages /\ Backend(g, phase).kind # "shot"
    BY <2>2 DEF Backend, Messages
  <2>4. requests' = requests
    BY <1>3 DEF StreamForwards
  <2> QED
    BY <2>1, <2>3, <2>4 DEF LeavesShots, SparesShots
<1>4. CASE ApplyBackend
  <2>1. /\ mailbox # <<>> /\ Head(mailbox).kind = "backend" /\ mailbox' = Tail(mailbox)
        /\ requests' = requests
    BY <1>4 DEF ApplyBackend, Receive, Handled
  <2> QED
    BY <2>1 DEF LeavesShots, SparesShots
<1>5. CASE CloseWriter \/ JoinWriter \/ WorkerSteps \/ UNCHANGED vars
  BY <1>5 DEF CloseWriter, JoinWriter, WorkerSteps, vars, runtime, LeavesShots, SparesShots
<1> QED
  BY <1>1, <1>2, <1>3, <1>4, <1>5

LEMMA RecordingStep == RecordingInv /\ WriterTypes /\ MailTypes /\ [Next]_vars => RecordingInv'
<1> SUFFICES ASSUME RecordingInv, WriterTypes, MailTypes, [Next]_vars PROVE RecordingInv'
  OBVIOUS
<1>1. CASE Launch
  BY <1>1, StepsLeaveShots, RecordingUntouched DEF Launch, capture, writer
<1>2. CASE User
  <2>1. /\ UNCHANGED <<recording, open, worker>>
        /\ \/ closed' = closed /\ status' = status
           \/ closed' = TRUE /\ status = "up" /\ status' = "leaving"
    <3>1. CASE CloseWindow
      BY <3>1 DEF CloseWindow, UserMay, capture, writer
    <3>2. CASE UserIdle
      BY <3>2 DEF UserIdle, capture, writer
    <3> QED
      BY <1>2, <3>1, <3>2 DEF User, RootChanged, PressStart, NewScan, TabSelected, ThemeToggled, FocusDirectory
  <2> QED
    BY <1>2, <2>1, StepsLeaveShots, RecordingUntouched
<1>3. CASE MetronomeTicks \/ StreamForwards \/ ApplyBackend
  <2>1. UNCHANGED <<recording, open, worker, closed, status>>
    BY <1>3 DEF MetronomeTicks, StreamForwards, ApplyBackend, RuntimeOnly, capture, writer, window
  <2> QED
    BY <1>3, <2>1, StepsLeaveShots, RecordingUntouched
<1>4. CASE AutoshotTick \/ AutoshotStore
  <2>1. recording = NoRecording /\ recording' = recording /\ UNCHANGED <<open, worker>>
    BY <1>4 DEF AutoshotTick, AutoshotStore, writer
  <2> QED
    BY <2>1 DEF RecordingInv, RecordingTypes, RecordingEnds, RecordingCaptures
<1>5. CASE CloseWriter
  <2>1. UNCHANGED <<recording, worker, status, closed>> /\ open' = FALSE /\ status = "finishing"
    BY <1>5 DEF CloseWriter, Finish, capture, window
  <2>2. RecordingTypes' /\ RecordingEnds'
    BY <2>1 DEF RecordingInv, RecordingTypes, RecordingEnds
  <2>3. NoneDue' = NoneDue /\ OneDue(PictureRecords)' = OneDue(PictureRecords)
    BY <1>5 DEF CloseWriter, runtime, NoneDue, OneDue
  <2>4. RecordingCaptures'
    BY <2>1, <2>3 DEF RecordingInv, RecordingCaptures, OneCapture
  <2> QED
    BY <2>2, <2>4 DEF RecordingInv
<1>6. CASE JoinWriter
  BY <1>6, StepsLeaveShots, RecordingUntouched DEF JoinWriter, Quit, capture, writer
<1>7. CASE Leave
  <2>1. UNCHANGED <<recording, worker, closed>> /\ open' = FALSE /\ status = "leaving" /\ status' = "gone"
    BY <1>7 DEF Leave, capture
  <2> QED
    BY <2>1 DEF RecordingInv, RecordingTypes, RecordingEnds, RecordingCaptures
<1>8. CASE WorkerSteps
  <2>1. UNCHANGED <<recording, status, closed, open>> /\ worker # "failed"
        /\ (worker' = "done" => ~ open)
    BY <1>8 DEF WorkerSteps, WorkerFails, MayFail, Worker, OpenManifest, SavePicture, WriteLine, FlushManifest,
                capture, window
  <2>2. RecordingTypes' /\ RecordingEnds'
    BY <2>1 DEF RecordingInv, RecordingTypes, RecordingEnds
  <2>3. NoneDue' = NoneDue /\ OneDue(PictureRecords)' = OneDue(PictureRecords)
    BY <1>8 DEF WorkerSteps, runtime, NoneDue, OneDue
  <2>4. RecordingCaptures'
    BY <2>1, <2>3 DEF RecordingInv, RecordingCaptures, OneCapture
  <2> QED
    BY <2>2, <2>4 DEF RecordingInv
<1>9. CASE UNCHANGED vars
  BY <1>9, StepsLeaveShots, RecordingUntouched DEF vars, capture, writer, window
<1> QED
  BY <1>1, <1>2, <1>3, <1>4, <1>5, <1>6, <1>7, <1>8, <1>9,
     RecordingTickStep, RecordingStoreStep, RecordingShotStep DEF Next, Update

\* A recording asks for one picture at a time, finds the channel open as long as it
\* goes on, and leaves only after its 16 seconds, with a writer that failed or with
\* its window.  The frames it accepted are whole on disk when the worker ends without
\* an error; one that fails has lost the lines of at most one buffer and one picture.
THEOREM RecordingStaysWhole == Spec => []RecordingIsWhole
<1>1. WriterInv => WriterTypes
  BY DEF WriterInv
<1>2. MailTypes /\ RecordingInv => (recording # NoRecording /\ status # "gone" =>
         Pending = (IF recording.capturing THEN 1 ELSE 0))
  <2> SUFFICES ASSUME MailTypes, RecordingInv, recording # NoRecording, status # "gone"
               PROVE  Pending = (IF recording.capturing THEN 1 ELSE 0)
    OBVIOUS
  <2>1. OneCapture
    BY DEF RecordingInv, RecordingCaptures
  <2>2. CASE recording.capturing
    BY <2>1, <2>2, OnePending DEF OneCapture
  <2>3. CASE ~ recording.capturing
    BY <2>1, <2>3, NonePending DEF OneCapture
  <2> QED
    BY <2>2, <2>3
<1>3. FramesAreWhole /\ MailTypes /\ RecordingInv => RecordingIsWhole
  BY <1>2 DEF RecordingIsWhole, RecordingInv, RecordingEnds
<1>4. Init => MailTypes /\ RecordingInv
  BY MailInitially, RecordingInitially DEF MailInv
<1>5. MailTypes /\ [Next]_vars => MailTypes'
  BY StepsMoveTheMail
<1> QED
  BY <1>1, <1>3, <1>4, <1>5, WriterHolds, FramesStayWhole, RecordingStep, PTL DEF Spec

-----------------------------------------------------------------------------
(* Counting the screenshots that wait.                                     *)

\* Two sums that are compared below.
LEMMA LooserBound ==
  ASSUME NEW a \in Nat, NEW b \in Nat, NEW c \in Nat, NEW d \in Nat, a <= b + c, d >= c
  PROVE  a <= b + d
OBVIOUS

LEMMA OneLess ==
  ASSUME NEW step \in Nat, NEW next \in {step, step + 1}, NEW n \in Nat, NEW bound \in Nat,
         step + (n + 1) <= bound
  PROVE  next + n <= bound
OBVIOUS

\* Those among the first n messages of s, and how many there are.
ShotsAt(s, n) == {k \in 1 .. n : s[k].kind = "shot"}
Count(s, n) == Cardinality(ShotsAt(s, n))

LEMMA CountIsNat ==
  ASSUME NEW s, NEW n \in Nat
  PROVE  IsFiniteSet(ShotsAt(s, n)) /\ Count(s, n) \in Nat
<1>1. IsFiniteSet(1 .. n)
  BY FS_Interval
<1>2. ShotsAt(s, n) \subseteq 1 .. n
  BY DEF ShotsAt
<1>3. IsFiniteSet(ShotsAt(s, n))
  BY <1>1, <1>2, FS_Subset
<1> QED
  BY <1>3, FS_CardinalityType DEF Count

LEMMA PostedIs ==
  ASSUME NEW s \in Seq(Messages)
  PROVE  Cardinality({k \in DOMAIN s : s[k].kind = "shot"}) = Count(s, Len(s))
BY LenProperties DEF Count, ShotsAt

\* A message is posted at the end.
LEMMA CountPosted ==
  ASSUME NEW s \in Seq(Messages), NEW message \in Messages
  PROVE  LET t == Append(s, message)
         IN /\ Len(t) = Len(s) + 1 /\ t[Len(s) + 1] = message
            /\ \A k \in 1 .. Len(s) : t[k] = s[k]
            /\ \A n \in 0 .. Len(s) : Count(t, n) = Count(s, n)
            /\ Count(t, Len(t)) = Count(s, Len(s)) + (IF message.kind = "shot" THEN 1 ELSE 0)
<1> DEFINE t == Append(s, message)
<1>1. /\ Len(t) = Len(s) + 1 /\ Len(s) \in Nat
      /\ \A k \in 1 .. Len(s) : t[k] = s[k]
      /\ t[Len(s) + 1] = message
  BY AppendProperties, LenProperties
<1> HIDE DEF t
<1>2. \A n \in 0 .. Len(s) : ShotsAt(t, n) = ShotsAt(s, n)
  <2> SUFFICES ASSUME NEW n \in 0 .. Len(s) PROVE ShotsAt(t, n) = ShotsAt(s, n)
    OBVIOUS
  <2>1. \A k \in 1 .. n : t[k] = s[k]
    BY <1>1
  <2> QED
    BY <2>1 DEF ShotsAt
<1>3. \A n \in 0 .. Len(s) : Count(t, n) = Count(s, n)
  BY <1>2 DEF Count
<1>4. ShotsAt(t, Len(s)) = ShotsAt(s, Len(s)) /\ Len(s) + 1 \notin ShotsAt(s, Len(s))
  BY <1>1, <1>2 DEF ShotsAt
<1>5. \A k : k \in 1 .. Len(s) + 1 <=> k \in 1 .. Len(s) \/ k = Len(s) + 1
  BY <1>1
<1>6. IsFiniteSet(ShotsAt(s, Len(s))) /\ Count(s, Len(s)) \in Nat
  BY <1>1, CountIsNat
<1>7. Count(t, Len(t)) = Count(s, Len(s)) + (IF message.kind = "shot" THEN 1 ELSE 0)
  <2>1. CASE message.kind = "shot"
    <3>1. ShotsAt(t, Len(s) + 1) = ShotsAt(s, Len(s)) \cup {Len(s) + 1}
      BY <1>1, <1>4, <1>5, <2>1 DEF ShotsAt
    <3> QED
      BY <1>1, <1>4, <1>6, <2>1, <3>1, FS_AddElement DEF Count
  <2>2. CASE message.kind # "shot"
    <3>1. ShotsAt(t, Len(s) + 1) = ShotsAt(s, Len(s))
      BY <1>1, <1>4, <1>5, <2>2 DEF ShotsAt
    <3> QED
      BY <1>1, <1>6, <2>2, <3>1 DEF Count
  <2> QED
    BY <2>1, <2>2
<1> QED
  BY <1>1, <1>3, <1>7 DEF t

\* The first message is taken: the others move one place forward.
LEMMA CountTaken ==
  ASSUME NEW s \in Seq(Messages), s # <<>>
  PROVE  LET t == Tail(s)
         IN /\ Len(s) = Len(t) + 1 /\ Len(t) \in Nat /\ Head(s) = s[1]
            /\ \A k \in 1 .. Len(t) : t[k] = s[k + 1] /\ k + 1 \in 1 .. Len(s)
            /\ \A n \in 0 .. Len(t) :
                  Count(s, n + 1) = Count(t, n) + (IF Head(s).kind = "shot" THEN 1 ELSE 0)
<1> DEFINE t == Tail(s)
<1>1. /\ Len(s) = Len(t) + 1 /\ Len(t) \in Nat /\ Head(s) = s[1]
      /\ \A k \in 1 .. Len(t) : t[k] = s[k + 1]
  <2>1. /\ Len(t) = Len(s) - 1 /\ Len(s) \in Nat /\ Len(s) >= 1 /\ Head(s) = s[1]
        /\ \A k \in 1 .. Len(t) : t[k] = s[k + 1]
    BY HeadTailProperties, LenProperties, EmptySeq
  <2> HIDE DEF t
  <2> QED
    BY <2>1
<1> HIDE DEF t
<1>2. ASSUME NEW n \in 0 .. Len(t)
      PROVE  Count(s, n + 1) = Count(t, n) + (IF Head(s).kind = "shot" THEN 1 ELSE 0)
  <2> DEFINE Later == {k \in 2 .. n + 1 : s[k].kind = "shot"}
             f == [k \in ShotsAt(t, n) |-> k + 1]
  <2>1. n \in Nat /\ \A k \in 1 .. n : k \in Nat /\ t[k] = s[k + 1] /\ k + 1 \in 2 .. n + 1
    BY <1>1
  <2>2. ASSUME NEW k \in 2 .. n + 1 PROVE k - 1 \in 1 .. n /\ (k - 1) + 1 = k
    BY <2>1, <2>2
  <2>3. f \in Bijection(ShotsAt(t, n), Later)
    <3>1. \A k \in ShotsAt(t, n) : k \in 1 .. n /\ k + 1 \in Later
      BY <2>1 DEF ShotsAt
    <3>2. \A j, k \in ShotsAt(t, n) : j + 1 = k + 1 => j = k
      BY <2>1, <3>1
    <3>3. \A l \in Later : l - 1 \in ShotsAt(t, n) /\ (l - 1) + 1 = l
      BY <2>1, <2>2 DEF ShotsAt
    <3>4. f \in [ShotsAt(t, n) -> Later]
      BY <3>1
    <3>5. \A l \in Later : \E k \in ShotsAt(t, n) : f[k] = l
      BY <3>3
    <3>6. \A j, k \in ShotsAt(t, n) : f[j] = f[k] => j = k
      BY <3>2
    <3> HIDE DEF f, Later
    <3>7. f \in Injection(ShotsAt(t, n), Later)
      BY <3>4, <3>6 DEF Injection, IsInjective
    <3>8. f \in Surjection(ShotsAt(t, n), Later)
      BY <3>4, <3>5 DEF Surjection
    <3> QED
      BY <3>7, <3>8 DEF Bijection
  <2>4. IsFiniteSet(ShotsAt(t, n)) /\ Count(t, n) \in Nat
    BY <2>1, CountIsNat
  <2>5. IsFiniteSet(Later) /\ Cardinality(Later) = Count(t, n)
    BY <2>3, <2>4, FS_Bijection DEF Count, ExistsBijection
  <2>6. 1 \notin Later /\ \A k : k \in 1 .. n + 1 <=> k = 1 \/ k \in 2 .. n + 1
    BY <2>1
  <2>7. CASE Head(s).kind = "shot"
    <3>1. ShotsAt(s, n + 1) = Later \cup {1}
      BY <1>1, <2>6, <2>7 DEF ShotsAt
    <3> QED
      BY <2>5, <2>6, <2>7, <3>1, FS_AddElement DEF Count
  <2>8. CASE Head(s).kind # "shot"
    <3>1. ShotsAt(s, n + 1) = Later
      BY <1>1, <2>6, <2>8 DEF ShotsAt
    <3>2. Count(s, n + 1) = Count(t, n)
      BY <2>5, <3>1 DEF Count
    <3> QED
      BY <2>4, <2>8, <3>2
  <2> QED
    BY <2>7, <2>8
<1>3. \A k \in 1 .. Len(t) : t[k] = s[k + 1] /\ k + 1 \in 1 .. Len(s)
  BY <1>1
<1> QED
  BY <1>1, <1>2, <1>3 DEF t

\* A step that leaves the screenshots alone leaves their number, and before each of
\* them as many as there were.
LEMMA SameShots ==
  ASSUME mailbox \in Seq(Messages), SparesShots
  PROVE  /\ Posted("shot")' = Posted("shot")
         /\ \A k \in 1 .. Len(mailbox') : mailbox'[k].kind = "shot" =>
               \E j \in 1 .. Len(mailbox) :
                  mailbox[j] = mailbox'[k] /\ Count(mailbox, j - 1) = Count(mailbox', k - 1)
<1>1. mailbox \in Seq(Messages) /\ mailbox' \in Seq(Messages) /\ Len(mailbox) \in Nat
  BY LenProperties, AppendProperties, HeadTailProperties DEF SparesShots
<1>2. /\ Posted("shot") = Count(mailbox, Len(mailbox))
      /\ Posted("shot")' = Count(mailbox', Len(mailbox'))
  BY <1>1, PostedIs DEF Posted
<1>3. Count(mailbox, Len(mailbox)) \in Nat
  BY <1>1, CountIsNat
<1>4. CASE mailbox' = mailbox
  BY <1>1, <1>2, <1>4
<1>5. CASE \E message \in Messages : message.kind # "shot" /\ mailbox' = Append(mailbox, message)
  <2>1. PICK message \in Messages : message.kind # "shot" /\ mailbox' = Append(mailbox, message)
    BY <1>5
  <2>2. /\ Len(mailbox') = Len(mailbox) + 1 /\ mailbox'[Len(mailbox) + 1] = message
        /\ \A k \in 1 .. Len(mailbox) : mailbox'[k] = mailbox[k]
        /\ \A n \in 0 .. Len(mailbox) : Count(mailbox', n) = Count(mailbox, n)
        /\ Count(mailbox', Len(mailbox')) = Count(mailbox, Len(mailbox)) + 0
    BY <1>1, <2>1, CountPosted
  <2>3. Posted("shot")' = Posted("shot")
    BY <1>1, <1>2, <1>3, <2>2
  <2>4. ASSUME NEW k \in 1 .. Len(mailbox'), mailbox'[k].kind = "shot"
        PROVE  \E j \in 1 .. Len(mailbox) :
                  mailbox[j] = mailbox'[k] /\ Count(mailbox, j - 1) = Count(mailbox', k - 1)
    <3>1. k # Len(mailbox) + 1
      BY <2>1, <2>2, <2>4
    <3>2. k \in 1 .. Len(mailbox) /\ k - 1 \in 0 .. Len(mailbox)
      BY <1>1, <2>2, <3>1
    <3> QED
      BY <2>2, <3>2
  <2> QED
    BY <2>3, <2>4
<1>6. CASE mailbox # <<>> /\ Head(mailbox).kind # "shot" /\ mailbox' = Tail(mailbox)
  <2>1. /\ Len(mailbox) = Len(mailbox') + 1 /\ Len(mailbox') \in Nat
        /\ \A k \in 1 .. Len(mailbox') : mailbox'[k] = mailbox[k + 1] /\ k + 1 \in 1 .. Len(mailbox)
        /\ \A n \in 0 .. Len(mailbox') : Count(mailbox, n + 1) = Count(mailbox', n) + 0
    BY <1>1, <1>6, CountTaken
  <2>2. \A n \in 0 .. Len(mailbox') : Count(mailbox', n) \in Nat
    BY <2>1, CountIsNat
  <2>3. \A n \in 0 .. Len(mailbox') : Count(mailbox, n + 1) = Count(mailbox', n)
    BY <2>1, <2>2
  <2>4. Len(mailbox') \in 0 .. Len(mailbox')
    BY <2>1
  <2>5. Posted("shot")' = Posted("shot")
    BY <1>1, <1>2, <2>1, <2>3, <2>4
  <2>6. ASSUME NEW k \in 1 .. Len(mailbox')
        PROVE  \E j \in 1 .. Len(mailbox) :
                  mailbox[j] = mailbox'[k] /\ Count(mailbox, j - 1) = Count(mailbox', k - 1)
    <3>1. k - 1 \in 0 .. Len(mailbox') /\ (k - 1) + 1 = (k + 1) - 1 /\ (k + 1) - 1 = k
      BY <2>1
    <3>2. Count(mailbox, (k + 1) - 1) = Count(mailbox', k - 1)
      BY <2>3, <3>1
    <3> QED
      BY <2>1, <3>2
  <2> QED
    BY <2>5, <2>6
<1> QED
  BY <1>4, <1>5, <1>6 DEF SparesShots

-----------------------------------------------------------------------------
(* The tour of screenshots.                                                *)

StopArranged == AUTOSHOT_STEPS[tour.arranged]

\* The form is shown while there is no scan; an armed stop is the one last arranged;
\* and nothing is arranged before the window is up, nor beside a recording.
TourRuns ==
    /\ screen = "Setup" <=> scan = NoScan
    /\ tour.arranged <= plan.step /\ (plan.armed => tour.arranged = plan.step)
    /\ tour.kept => status # "launching" /\ recording = NoRecording

\* The view of a scan is that of the stop last arranged, unless the user changed it;
\* and only a stop or the user descends to a leaf.
ViewIsArranged ==
    /\ scan # NoScan /\ tour.kept => /\ model.tab = StopArranged.tab /\ dark = StopArranged.dark
                                     /\ tour.moved \/ model.deep = StopArranged.deep
    /\ model.deep /\ ~ tour.moved =>
          \E i \in DOMAIN AUTOSHOT_STEPS : i <= tour.arranged /\ AUTOSHOT_STEPS[i].deep

\* What a picture shows, queued or saved.
IsRight(picture, moved) ==
    /\ ~ picture.scanned => picture.window.tab = "Setup"
    /\ picture.scanned /\ picture.kept =>
          /\ picture.window.tab = AUTOSHOT_STEPS[picture.arranged].tab
          /\ picture.window.dark = AUTOSHOT_STEPS[picture.arranged].dark
          /\ moved \/ picture.window.deep = AUTOSHOT_STEPS[picture.arranged].deep
PicturesAreRight ==
    /\ \A k \in 1 .. Len(mailbox) : mailbox[k].kind = "shot" => IsRight(mailbox[k].picture, tour.moved)
    /\ \A k \in 1 .. Len(shots) : IsRight(shots[k].picture, tour.moved)

\* The tour is ahead of what it arranged, and of each picture on its way once those
\* before it are saved, by no more stops than screenshots were asked for too many.
PicturesLag ==
    recording = NoRecording =>
       /\ plan.step + Pending <= tour.arranged + tour.surplus + 1
       /\ \A k \in 1 .. Len(mailbox) : mailbox[k].kind = "shot" =>
             /\ mailbox[k].picture.arranged <= plan.step
             /\ plan.step + Count(mailbox, k - 1) <= mailbox[k].picture.arranged + tour.surplus

ShotsLag ==
    /\ shots \in Seq([stop : Nat, picture : PictureRecords])
    /\ \A k \in 1 .. Len(shots) : /\ shots[k].picture.arranged <= shots[k].stop
                                  /\ shots[k].stop <= shots[k].picture.arranged + tour.surplus

TourInv == TourRuns /\ ViewIsArranged /\ PicturesAreRight /\ PicturesLag /\ ShotsLag

LEMMA TourInitially == Init => TourInv
<1> SUFFICES ASSUME Init PROVE TourInv
  OBVIOUS
<1>1. /\ mailbox = <<>> /\ requests = 0 /\ shots = <<>> /\ tour = NoTour /\ model = NewModel
      /\ scan = NoScan /\ screen = "Setup" /\ ~ plan.armed /\ plan.step \in {0, 1}
  BY DEF Init, NoPlan
<1>2. MailTypes /\ NoneDue
  BY <1>1, MailInitially DEF MailInv, NoneDue, Shotless
<1>3. Pending = 0
  BY <1>2, NonePending
<1>4. TourRuns /\ ViewIsArranged
  BY <1>1 DEF TourRuns, ViewIsArranged, NoTour, NewModel
<1>5. PicturesAreRight /\ PicturesLag
  BY <1>1, <1>3 DEF PicturesAreRight, PicturesLag, NoTour
<1>6. ShotsLag
  BY <1>1, EmptySeq DEF ShotsLag
<1> QED
  BY <1>4, <1>5, <1>6 DEF TourInv

\* Steps that go on with the tour without asking for a screenshot, taking one or
\* handling one.
LEMMA TourGoesOn ==
  ASSUME TourInv, MailTypes, LeavesShots, UNCHANGED <<plan, shots>>, recording' = NoRecording => recording = NoRecording,
         tour.moved => tour'.moved, tour'.surplus = tour.surplus, tour'.arranged = tour.arranged,
         TourRuns', ViewIsArranged'
  PROVE  TourInv'
<1>1. /\ Posted("shot")' = Posted("shot")
      /\ \A k \in 1 .. Len(mailbox') : mailbox'[k].kind = "shot" =>
            \E j \in 1 .. Len(mailbox) :
               mailbox[j] = mailbox'[k] /\ Count(mailbox, j - 1) = Count(mailbox', k - 1)
  BY SameShots DEF MailTypes, LeavesShots
<1>2. PicturesAreRight'
  <2>1. PicturesAreRight
    BY DEF TourInv
  <2>2. ASSUME NEW k \in 1 .. Len(mailbox'), mailbox'[k].kind = "shot"
        PROVE  IsRight(mailbox'[k].picture, tour'.moved)
    <3>1. PICK j \in 1 .. Len(mailbox) : mailbox[j] = mailbox'[k]
      BY <1>1, <2>2
    <3>2. IsRight(mailbox[j].picture, tour.moved)
      BY <2>1, <2>2, <3>1 DEF PicturesAreRight
    <3> QED
      BY <3>1, <3>2 DEF IsRight
  <2>3. ASSUME NEW k \in 1 .. Len(shots) PROVE IsRight(shots[k].picture, tour'.moved)
    BY <2>1 DEF PicturesAreRight, IsRight
  <2> QED
    BY <2>2, <2>3 DEF PicturesAreRight
<1>3. PicturesLag'
  <2> SUFFICES ASSUME recording' = NoRecording
               PROVE  /\ plan.step + Pending' <= tour.arranged + tour.surplus + 1
                      /\ \A k \in 1 .. Len(mailbox') : mailbox'[k].kind = "shot" =>
                            /\ mailbox'[k].picture.arranged <= plan.step
                            /\ plan.step + Count(mailbox', k - 1) <= mailbox'[k].picture.arranged + tour.surplus
    BY DEF PicturesLag
  <2>1. /\ plan.step + Pending <= tour.arranged + tour.surplus + 1
        /\ \A k \in 1 .. Len(mailbox) : mailbox[k].kind = "shot" =>
              /\ mailbox[k].picture.arranged <= plan.step
              /\ plan.step + Count(mailbox, k - 1) <= mailbox[k].picture.arranged + tour.surplus
    BY DEF TourInv, PicturesLag
  <2>2. Pending' = Pending
    BY <1>1 DEF Pending, LeavesShots
  <2> QED
    BY <1>1, <2>1, <2>2
<1>4. ShotsLag'
  BY DEF TourInv, ShotsLag
<1> QED
  BY <1>2, <1>3, <1>4 DEF TourInv

\* Starting a scan, and whatever else the user or the runtime does to the view.
LEMMA StartIsUnarranged ==
  ASSUME TourInv, MailTypes, StartScan, UNCHANGED <<dark, plan, recording>>, status' # "launching" \/ status' = status,
         ~ tour'.kept, tour'.arranged = tour.arranged, tour.moved => tour'.moved
  PROVE  TourRuns' /\ ViewIsArranged'
<1>1. CASE UNCHANGED <<screen, scan, model>>
  BY <1>1 DEF TourInv, TourRuns, ViewIsArranged
<1>2. CASE scan'.generation = generation + 1 /\ screen' = "Running" /\ model' = NewModel
  <2>1. scan' # NoScan
    BY <1>2 DEF NoScan, MailTypes
  <2> QED
    BY <1>2, <2>1 DEF TourInv, TourRuns, ViewIsArranged, NewModel
<1> QED
  BY <1>1, <1>2 DEF StartScan

LEMMA UserStep == TourInv /\ MailTypes /\ User => TourInv'
<1> SUFFICES ASSUME TourInv, MailTypes, User PROVE TourInv'
  OBVIOUS
<1>1. UNCHANGED <<plan, recording, shots>> /\ LeavesShots /\ (status' = status \/ status' = "leaving")
  <2>1. LeavesShots
    BY StepsLeaveShots
  <2>2. UserIdle \/ CloseWindow
    BY DEF User, RootChanged, PressStart, NewScan, TabSelected, ThemeToggled, FocusDirectory
  <2> QED
    BY <2>1, <2>2 DEF UserIdle, CloseWindow, capture
<1>2. ASSUME NEW focus \in BOOLEAN, Touched(focus)
      PROVE  /\ ~ tour'.kept /\ tour'.arranged = tour.arranged /\ tour'.surplus = tour.surplus
             /\ tour.moved => tour'.moved
             /\ focus => tour'.moved
  BY <1>2 DEF Touched, MailTypes, Tours
<1>3. CASE RootChanged \/ CloseWindow
  <2>1. UNCHANGED <<tour, screen, scan, model, dark>>
    BY <1>3 DEF RootChanged, CloseWindow, form
  <2>2. TourRuns' /\ ViewIsArranged'
    BY <1>1, <2>1 DEF TourInv, TourRuns, ViewIsArranged, StopArranged
  <2> QED
    BY <1>1, <2>1, <2>2, TourGoesOn
<1>4. CASE PressStart
  <2>1. StartScan /\ Touched(FALSE) /\ UNCHANGED dark
    BY <1>4 DEF PressStart
  <2>2. TourRuns' /\ ViewIsArranged'
    BY <1>1, <1>2, <2>1, StartIsUnarranged
  <2> QED
    BY <1>1, <1>2, <2>1, <2>2, TourGoesOn
<1>5. CASE NewScan
  <2>1. scan' = NoScan /\ screen' = "Setup" /\ UNCHANGED <<model, dark>> /\ Touched(FALSE)
    BY <1>5 DEF NewScan
  <2>2. TourRuns' /\ ViewIsArranged'
    BY <1>1, <1>2, <2>1 DEF TourInv, TourRuns, ViewIsArranged
  <2> QED
    BY <1>1, <1>2, <2>1, <2>2, TourGoesOn
<1>6. CASE TabSelected \/ ThemeToggled
  <2>1. UNCHANGED <<screen, scan>> /\ Touched(FALSE)
    BY <1>6 DEF TabSelected, ThemeToggled, form
  <2>2. model'.deep = model.deep
    BY <1>6 DEF TabSelected, ThemeToggled, MailTypes, Models
  <2>3. TourRuns' /\ ViewIsArranged'
    BY <1>1, <1>2, <2>1, <2>2 DEF TourInv, TourRuns, ViewIsArranged
  <2> QED
    BY <1>1, <1>2, <2>1, <2>3, TourGoesOn
<1>7. CASE FocusDirectory
  <2>1. UNCHANGED <<screen, scan, dark>> /\ Touched(TRUE)
    BY <1>7 DEF FocusDirectory, form
  <2>2. TourRuns' /\ ViewIsArranged'
    BY <1>1, <1>2, <2>1 DEF TourInv, TourRuns, ViewIsArranged
  <2> QED
    BY <1>1, <1>2, <2>1, <2>2, TourGoesOn
<1> QED
  BY <1>3, <1>4, <1>5, <1>6, <1>7 DEF User

\* The other steps that leave the tour and the screenshots alone.
LEMMA BesideTheTour ==
  ASSUME TourInv, MailTypes,
         \/ Launch \/ MetronomeTicks \/ StreamForwards \/ ApplyBackend
         \/ CloseWriter \/ JoinWriter \/ WorkerSteps \/ UNCHANGED vars
  PROVE  TourInv'
<1>1. LeavesShots
  BY StepsLeaveShots
<1>2. UNCHANGED <<plan, recording, shots, tour>> /\ (status' # "launching" \/ status' = status)
  BY DEF Launch, MetronomeTicks, StreamForwards, ApplyBackend, CloseWriter, JoinWriter, Quit,
         WorkerSteps, RuntimeOnly, vars, capture, window
<1>3. TourRuns' /\ ViewIsArranged'
  <2>1. CASE Launch
    <3>1. ~ tour.kept /\ UNCHANGED dark
      BY <2>1 DEF Launch, TourInv, TourRuns
    <3>2. CASE StartScan
      BY <1>2, <3>1, <3>2, StartIsUnarranged
    <3>3. CASE UNCHANGED <<form, model>>
      BY <1>2, <3>1, <3>3 DEF TourInv, TourRuns, ViewIsArranged, form
    <3> QED
      BY <2>1, <3>2, <3>3 DEF Launch
  <2>2. CASE ApplyBackend
    <3>1. model'.tab = model.tab /\ model'.deep = model.deep /\ UNCHANGED <<screen, scan, dark>>
      BY <2>2 DEF ApplyBackend, form, MailTypes, Models
    <3> QED
      BY <1>2, <3>1 DEF TourInv, TourRuns, ViewIsArranged, StopArranged
  <2>3. CASE UNCHANGED <<screen, scan, model, dark>>
    BY <1>2, <2>3 DEF TourInv, TourRuns, ViewIsArranged, StopArranged
  <2> QED
    BY <2>1, <2>2, <2>3 DEF MetronomeTicks, StreamForwards, CloseWriter, JoinWriter, WorkerSteps,
                            RuntimeOnly, vars, form
<1> QED
  BY <1>1, <1>2, <1>3, TourGoesOn

\* Handling the first message leaves the pictures that wait as they are.
LEMMA WaitingStaysRight ==
  ASSUME PicturesAreRight, MailTypes, mailbox # <<>>, mailbox' = Tail(mailbox), tour.moved => tour'.moved
  PROVE  \A k \in 1 .. Len(mailbox') : mailbox'[k].kind = "shot" => IsRight(mailbox'[k].picture, tour'.moved)
<1>1. \A k \in 1 .. Len(mailbox') : mailbox'[k] = mailbox[k + 1] /\ k + 1 \in 1 .. Len(mailbox)
  BY CountTaken DEF MailTypes
<1> QED
  BY <1>1 DEF PicturesAreRight, IsRight

LEMMA TourIsPictured == TourInv /\ MailTypes /\ TakeScreenshot => TourInv'
<1> SUFFICES ASSUME TourInv, MailTypes, TakeScreenshot PROVE TourInv'
  OBVIOUS
<1> DEFINE picture == [window |-> View, scanned |-> scan # NoScan,
                       arranged |-> tour.arranged, kept |-> tour.kept]
           shot == Shot(picture)
<1>1. /\ requests > 0 /\ requests' = requests - 1 /\ mailbox' = Append(mailbox, shot)
      /\ UNCHANGED <<screen, scan, model, dark, plan, recording, shots, tour, status>>
  BY DEF TakeScreenshot, Post, RuntimeOnly, form, capture, window
<1>2. shot \in Messages /\ shot.kind = "shot" /\ shot.picture = picture
  BY PictureIsTyped DEF Shot
<1>3. picture.arranged = tour.arranged /\ IsRight(picture, tour.moved)
  <2>1. screen = "Setup" => View.tab = "Setup"
    BY DEF View
  <2>2. screen # "Setup" => /\ View.tab = model.tab /\ View.dark = dark /\ View.deep = model.deep
    BY DEF View
  <2> QED
    BY <2>1, <2>2 DEF TourInv, TourRuns, ViewIsArranged, StopArranged, IsRight
<1> HIDE DEF shot, picture
<1>4. mailbox \in Seq(Messages) /\ Len(mailbox) \in Nat /\ requests \in Nat
  BY LenProperties DEF MailTypes
<1>5. /\ Len(mailbox') = Len(mailbox) + 1 /\ mailbox'[Len(mailbox) + 1] = shot
      /\ \A k \in 1 .. Len(mailbox) : mailbox'[k] = mailbox[k]
      /\ \A n \in 0 .. Len(mailbox) : Count(mailbox', n) = Count(mailbox, n)
      /\ Count(mailbox', Len(mailbox')) = Count(mailbox, Len(mailbox)) + 1
  BY <1>1, <1>2, <1>4, CountPosted
<1>6. \A k \in 1 .. Len(mailbox') : /\ k \in 1 .. Len(mailbox) \/ k = Len(mailbox) + 1
                                    /\ k - 1 \in 0 .. Len(mailbox)
  BY <1>4, <1>5
<1>7. TourRuns' /\ ViewIsArranged' /\ ShotsLag'
  BY <1>1 DEF TourInv, TourRuns, ViewIsArranged, StopArranged, ShotsLag
<1>8. PicturesAreRight'
  <2>1. PicturesAreRight
    BY DEF TourInv
  <2>2. \A k \in 1 .. Len(mailbox') : mailbox'[k].kind = "shot" => IsRight(mailbox'[k].picture, tour.moved)
    BY <1>2, <1>3, <1>5, <1>6, <2>1 DEF PicturesAreRight
  <2> QED
    BY <1>1, <2>1, <2>2 DEF PicturesAreRight
<1>9. PicturesLag'
  <2> SUFFICES ASSUME recording = NoRecording
               PROVE  /\ plan.step + Pending' <= tour.arranged + tour.surplus + 1
                      /\ \A k \in 1 .. Len(mailbox') : mailbox'[k].kind = "shot" =>
                            /\ mailbox'[k].picture.arranged <= plan.step
                            /\ plan.step + Count(mailbox', k - 1) <= mailbox'[k].picture.arranged + tour.surplus
    BY <1>1 DEF PicturesLag
  <2>1. PicturesLag /\ tour.arranged <= plan.step
    BY DEF TourInv, TourRuns
  <2>2. plan.step \in Nat /\ tour.arranged \in Nat /\ tour.surplus \in Nat
    BY DEF MailTypes, Plans, Tours
  <2>3. Count(mailbox, Len(mailbox)) \in Nat
    BY <1>4, CountIsNat
  <2>4. Pending = requests + Count(mailbox, Len(mailbox))
    BY <1>4, PostedIs DEF Pending, Posted
  <2>5. Pending' = requests' + Count(mailbox', Len(mailbox'))
    <3>1. mailbox' \in Seq(Messages)
      BY <1>1, <1>2, AppendKeepsTypes DEF MailTypes
    <3> QED
      BY <3>1, PostedIs DEF Pending, Posted
  <2>6. Pending' = Pending
    BY <1>1, <1>4, <1>5, <2>3, <2>4, <2>5
  <2>7. plan.step + Count(mailbox, Len(mailbox)) <= tour.arranged + tour.surplus
    <3>1. plan.step + Pending <= tour.arranged + tour.surplus + 1
      BY <2>1 DEF PicturesLag
    <3> DEFINE waiting == Count(mailbox, Len(mailbox))
               bound == tour.arranged + tour.surplus
    <3>2. requests > 0 /\ requests \in Nat
      BY <1>1, <1>4
    <3>3. bound \in Nat /\ plan.step \in Nat
      BY <2>2
    <3>4. waiting \in Nat /\ bound \in Nat /\ requests >= 1 /\ Pending = requests + waiting /\ plan.step \in Nat
      BY <2>3, <2>4, <3>2, <3>3
    <3>5. plan.step + (requests + waiting) <= bound + 1
      BY <3>1, <3>4
    <3> HIDE DEF waiting, bound
    <3>6. plan.step + waiting <= bound
      BY <1>4, <3>4, <3>5
    <3> QED
      BY <3>6 DEF waiting, bound
  <2>8. ASSUME NEW k \in 1 .. Len(mailbox'), mailbox'[k].kind = "shot"
        PROVE  /\ mailbox'[k].picture.arranged <= plan.step
               /\ plan.step + Count(mailbox', k - 1) <= mailbox'[k].picture.arranged + tour.surplus
    <3>1. CASE k \in 1 .. Len(mailbox)
      BY <1>5, <1>6, <2>1, <2>8, <3>1 DEF PicturesLag
    <3>2. CASE k = Len(mailbox) + 1
      <4>1. (Len(mailbox) + 1) - 1 = Len(mailbox) /\ Len(mailbox) \in 0 .. Len(mailbox)
        BY <1>4
      <4>2. Count(mailbox', k - 1) = Count(mailbox, Len(mailbox))
        BY <1>5, <3>2, <4>1
      <4>3. mailbox'[k].picture.arranged = tour.arranged
        BY <1>2, <1>3, <1>5, <3>2
      <4> QED
        BY <2>1, <2>7, <4>2, <4>3
    <3> QED
      BY <1>6, <3>1, <3>2
  <2> QED
    BY <2>1, <2>6, <2>8 DEF PicturesLag
<1> QED
  BY <1>7, <1>8, <1>9 DEF TourInv

\* A recording beside which the tour never begins.
LEMMA BesideARecording ==
  ASSUME TourInv, MailTypes, RecordingTypes, RecordingTick \/ RecordingStore
  PROVE  TourInv'
<1>1. /\ mailbox # <<>> /\ mailbox' = Tail(mailbox) /\ recording # NoRecording
      /\ UNCHANGED <<screen, scan, dark, plan, shots, tour>> /\ status' # "launching"
  BY DEF RecordingTick, RecordingStore, Receive, Handled, Push, Quit, form, window
<1>2. /\ recording \in [capturing : BOOLEAN, since : -2 .. 16] /\ recording.since >= -1
      /\ ~ tour.kept /\ PicturesAreRight
  BY <1>1 DEF RecordingTypes, TourInv, TourRuns
<1>3. recording' # NoRecording
  <2>1. CASE RecordingTick
    <3>1. recording'.capturing
      BY <1>2, <2>1 DEF RecordingTick
    <3> QED
      BY <3>1 DEF NoRecording
  <2>2. CASE RecordingStore
    <3>1. PICK seconds \in Pauses : \/ recording' = [capturing |-> FALSE, since |-> Elapsed(seconds)]
                                    \/ recording' = [recording EXCEPT !.capturing = FALSE]
      BY <2>2 DEF RecordingStore, Push
    <3>2. Elapsed(seconds) \in -1 .. 16
      BY <1>1, ElapsedIs
    <3> HIDE DEF Elapsed
    <3>3. recording'.since \in -1 .. 16
      BY <1>2, <3>1, <3>2
    <3> QED
      BY <3>3 DEF NoRecording
  <2> QED
    BY <2>1, <2>2
<1>4. model'.deep = model.deep
  <2>1. \/ UNCHANGED model
        \/ \E elapsed : \E tab \in recording_tour_tab(elapsed) : model' = [model EXCEPT !.tab = tab]
    BY DEF RecordingTick, RecordingStore, Push
  <2> QED
    BY <2>1 DEF MailTypes, Models
<1>5. TourRuns' /\ ViewIsArranged' /\ ShotsLag' /\ PicturesLag'
  BY <1>1, <1>2, <1>3, <1>4 DEF TourInv, TourRuns, ViewIsArranged, ShotsLag, PicturesLag
<1>6. PicturesAreRight'
  BY <1>1, <1>2, WaitingStaysRight DEF PicturesAreRight
<1> QED
  BY <1>5, <1>6 DEF TourInv

LEMMA TourTicks == TourInv /\ MailTypes /\ AutoshotTick => TourInv'
<1> SUFFICES ASSUME TourInv, MailTypes, AutoshotTick PROVE TourInv'
  OBVIOUS
<1>1. /\ mailbox # <<>> /\ Head(mailbox).kind = "tick" /\ mailbox' = Tail(mailbox) /\ plan # NoPlan
      /\ UNCHANGED <<screen, scan, recording, shots>> /\ recording = NoRecording
      /\ status \in {"up", "leaving"} /\ status' \in {status, "leaving"}
  BY DEF AutoshotTick, Receive, Handled, Quit, form, window
<1>2. /\ plan \in Plans /\ plan.step >= 1 /\ plan.step \in Nat /\ model \in Models /\ mailbox \in Seq(Messages)
      /\ tour \in Tours /\ tour.arranged \in Nat /\ tour.surplus \in Nat /\ requests \in Nat
  BY <1>1 DEF MailTypes, Plans, Tours
<1>3. TourRuns /\ ViewIsArranged /\ PicturesAreRight /\ PicturesLag /\ ShotsLag
  BY DEF TourInv
<1>4. /\ Posted("shot")' = Posted("shot")
      /\ \A k \in 1 .. Len(mailbox') : mailbox'[k].kind = "shot" =>
            \E j \in 1 .. Len(mailbox) :
               mailbox[j] = mailbox'[k] /\ Count(mailbox, j - 1) = Count(mailbox', k - 1)
  BY <1>1, <1>2, SameShots DEF SparesShots
<1>5. Posted("shot") \in Nat
  <2>1. Len(mailbox) \in Nat
    BY <1>2, LenProperties
  <2>2. Posted("shot") = Count(mailbox, Len(mailbox))
    BY <1>2, PostedIs DEF Posted
  <2> QED
    BY <2>1, <2>2, CountIsNat
\* What the tick does: it goes on, or arranges the stop, or asks for its picture.
<1>6. \/ /\ UNCHANGED <<model, dark, requests, tour>>
         /\ plan' \in {plan, [plan EXCEPT !.warmup = @ - 1]}
      \/ /\ plan.step <= Len(AUTOSHOT_STEPS) /\ plan' = [plan EXCEPT !.armed = TRUE] /\ requests' = requests
         /\ dark' = AUTOSHOT_STEPS[plan.step].dark
         /\ model' = [model EXCEPT !.tab = AUTOSHOT_STEPS[plan.step].tab,
                                   !.deep = @ \/ AUTOSHOT_STEPS[plan.step].deep]
         /\ tour' = [tour EXCEPT !.arranged = plan.step, !.kept = TRUE]
      \/ /\ plan.armed /\ UNCHANGED <<plan, model, dark>> /\ requests' = requests + 1
         /\ tour' = [tour EXCEPT !.surplus = IF Pending > 0 THEN @ + 1 ELSE @]
  BY DEF AutoshotTick, window
<1>7. /\ plan'.step = plan.step /\ tour'.moved = tour.moved
      /\ plan' # plan => plan'.armed = plan.armed \/ plan' = [plan EXCEPT !.armed = TRUE]
  BY <1>2, <1>6 DEF Plans, Tours
\* Whatever it does, the pictures that wait do not lag more.
<1>8. /\ tour'.surplus >= tour.surplus /\ tour'.surplus \in Nat /\ tour'.arranged \in Nat
      /\ plan.step + Pending' <= tour'.arranged + tour'.surplus + 1
  <2>1. plan.step + Pending <= tour.arranged + tour.surplus + 1 /\ tour.arranged <= plan.step
    BY <1>1, <1>3 DEF PicturesLag, TourRuns
  <2>2. Pending = requests + Posted("shot") /\ Pending' = requests' + Posted("shot")
    BY <1>4 DEF Pending
  <2>3. CASE UNCHANGED <<requests, tour>>
    BY <1>2, <1>5, <2>1, <2>2, <2>3
  <2>4. CASE requests' = requests /\ tour' = [tour EXCEPT !.arranged = plan.step, !.kept = TRUE]
    <3>1. tour'.arranged = plan.step /\ tour'.surplus = tour.surplus
      BY <1>2, <2>4 DEF Tours
    <3>2. Pending <= tour.surplus + 1
      BY <1>2, <1>5, <2>1, <2>2
    <3> QED
      BY <1>2, <1>5, <2>2, <2>4, <3>1, <3>2
  <2>5. CASE /\ plan.armed /\ requests' = requests + 1
             /\ tour' = [tour EXCEPT !.surplus = IF Pending > 0 THEN @ + 1 ELSE @]
    <3>1. tour'.arranged = plan.step /\ tour.arranged = plan.step
      BY <1>2, <1>3, <2>5 DEF TourRuns, Tours
    <3>2. tour'.surplus = IF Pending > 0 THEN tour.surplus + 1 ELSE tour.surplus
      BY <1>2, <2>5 DEF Tours
    <3>3. Pending' = Pending + 1 /\ Pending \in Nat
      BY <1>2, <1>5, <2>2, <2>5
    <3>4. Pending <= tour.surplus + 1
      BY <1>2, <2>1, <3>1, <3>3
    <3> QED
      BY <1>2, <3>1, <3>2, <3>3, <3>4
  <2> QED
    BY <1>6, <2>3, <2>4, <2>5
<1>9. PicturesLag'
  <2> SUFFICES ASSUME NEW k \in 1 .. Len(mailbox'), mailbox'[k].kind = "shot"
               PROVE  /\ mailbox'[k].picture.arranged <= plan.step
                      /\ plan.step + Count(mailbox', k - 1) <= mailbox'[k].picture.arranged + tour'.surplus
    BY <1>7, <1>8 DEF PicturesLag
  <2>1. PICK j \in 1 .. Len(mailbox) :
           mailbox[j] = mailbox'[k] /\ Count(mailbox, j - 1) = Count(mailbox', k - 1)
    BY <1>4
  <2>2. /\ mailbox[j].picture.arranged <= plan.step
        /\ plan.step + Count(mailbox, j - 1) <= mailbox[j].picture.arranged + tour.surplus
    BY <1>1, <1>3, <2>1 DEF PicturesLag
  <2>3. mailbox[j].picture.arranged \in Nat
    <3>1. mailbox[j] \in Messages
      BY <1>2, ElementOfSeq
    <3> QED
      BY <2>1, <3>1 DEF Messages, PictureRecords
  <2>4. Count(mailbox, j - 1) \in Nat
    <3>1. j - 1 \in Nat
      BY <1>2, LenProperties
    <3> QED
      BY <3>1, CountIsNat
  <2>5. tour'.surplus >= tour.surplus /\ tour'.surplus \in Nat /\ tour.surplus \in Nat /\ plan.step \in Nat
    BY <1>2, <1>8
  <2>6. plan.step + Count(mailbox, j - 1) \in Nat
    BY <2>4, <2>5
  <2>7. plan.step + Count(mailbox, j - 1) <= mailbox[j].picture.arranged + tour'.surplus
    BY <2>2, <2>3, <2>5, <2>6, LooserBound
  <2> QED
    BY <2>1, <2>2, <2>7
<1>10. PicturesAreRight'
  BY <1>1, <1>3, <1>7, WaitingStaysRight DEF PicturesAreRight
<1>11. ShotsLag'
  <2>1. \A k \in 1 .. Len(shots) : shots[k].picture.arranged \in Nat /\ shots[k].stop \in Nat
    <3> TAKE k \in 1 .. Len(shots)
    <3>1. shots[k] \in [stop : Nat, picture : PictureRecords]
      BY <1>3, ElementOfSeq DEF ShotsLag
    <3> QED
      BY <3>1 DEF PictureRecords
  <2>2. \A k \in 1 .. Len(shots) : shots[k].stop <= shots[k].picture.arranged + tour'.surplus
    <3> TAKE k \in 1 .. Len(shots)
    <3>1. shots[k].stop <= shots[k].picture.arranged + tour.surplus
      BY <1>3 DEF ShotsLag
    <3>2. tour'.surplus >= tour.surplus /\ tour'.surplus \in Nat /\ tour.surplus \in Nat
      BY <1>2, <1>8
    <3> QED
      BY <2>1, <3>1, <3>2, LooserBound
  <2> QED
    BY <1>1, <1>3, <2>2 DEF ShotsLag
\* A stop that is arranged: the leaf it may have reached is the last of its path.
<1>12. TourRuns' /\ ViewIsArranged'
  <2>1. CASE UNCHANGED <<model, dark, requests, tour>> /\ plan' \in {plan, [plan EXCEPT !.warmup = @ - 1]}
    <3>1. plan'.armed = plan.armed
      BY <1>2, <2>1 DEF Plans
    <3> QED
      BY <1>1, <1>3, <1>7, <2>1, <3>1 DEF TourRuns, ViewIsArranged, StopArranged
  <2>2. CASE /\ plan.armed /\ UNCHANGED <<plan, model, dark>>
             /\ tour' = [tour EXCEPT !.surplus = IF Pending > 0 THEN @ + 1 ELSE @]
    <3>1. tour'.kept = tour.kept /\ tour'.arranged = tour.arranged
      BY <1>2, <2>2 DEF Tours
    <3> QED
      BY <1>1, <1>3, <1>7, <2>2, <3>1 DEF TourRuns, ViewIsArranged, StopArranged
  <2>3. CASE /\ plan.step <= Len(AUTOSHOT_STEPS) /\ plan' = [plan EXCEPT !.armed = TRUE]
             /\ dark' = AUTOSHOT_STEPS[plan.step].dark
             /\ model' = [model EXCEPT !.tab = AUTOSHOT_STEPS[plan.step].tab,
                                       !.deep = @ \/ AUTOSHOT_STEPS[plan.step].deep]
             /\ tour' = [tour EXCEPT !.arranged = plan.step, !.kept = TRUE]
    <3> DEFINE stop == AUTOSHOT_STEPS[plan.step]
    <3>1. plan.step \in DOMAIN AUTOSHOT_STEPS /\ stop \in Stops
      <4>1. plan.step \in 1 .. Len(AUTOSHOT_STEPS)
        BY <1>2, <2>3, StepsAssumption, LenProperties
      <4> QED
        BY <4>1, StepsAssumption, ElementOfSeq, LenProperties DEF Stops
    <3>2. tour'.arranged = plan.step
      BY <1>2, <2>3 DEF Tours
    <3>3. model'.tab = stop.tab /\ model'.deep = (model.deep \/ stop.deep) /\ dark' = stop.dark
      BY <1>2, <2>3, <3>1 DEF Models, Stops
    <3>4. model.deep /\ ~ tour.moved => stop.deep
      <4> SUFFICES ASSUME model.deep, ~ tour.moved PROVE stop.deep
        OBVIOUS
      <4>1. PICK i \in DOMAIN AUTOSHOT_STEPS : i <= tour.arranged /\ AUTOSHOT_STEPS[i].deep
        BY <1>3 DEF ViewIsArranged
      <4>2. i \in Nat /\ i <= plan.step
        <5>1. i \in Nat
          BY StepsAssumption, LenProperties
        <5>2. tour.arranged <= plan.step
          BY <1>3 DEF TourRuns
        <5> QED
          BY <1>2, <4>1, <5>1, <5>2
      <4>3. CASE i = plan.step
        BY <4>1, <4>3
      <4>4. CASE i < plan.step
        BY <3>1, <4>1, <4>4, DeepStopsComeLast
      <4> QED
        BY <1>2, <4>2, <4>3, <4>4
    <3>5. stop.deep \in BOOLEAN /\ model.deep \in BOOLEAN
      BY <1>2, <3>1 DEF Models, Stops
    <3>6. tour.moved \/ model'.deep = stop.deep
      <4> HIDE DEF stop
      <4> QED
        BY <3>3, <3>4, <3>5
    <3>7. model'.deep /\ ~ tour.moved => \E i \in DOMAIN AUTOSHOT_STEPS : i <= plan.step /\ AUTOSHOT_STEPS[i].deep
      <4> SUFFICES ASSUME model'.deep, ~ tour.moved
                   PROVE  \E i \in DOMAIN AUTOSHOT_STEPS : i <= plan.step /\ AUTOSHOT_STEPS[i].deep
        OBVIOUS
      <4>1. AUTOSHOT_STEPS[plan.step].deep
        BY <3>6
      <4>2. plan.step <= plan.step
        BY <1>2
      <4> QED
        BY <3>1, <4>1, <4>2
    <3>8. ViewIsArranged'
      BY <1>7, <3>2, <3>3, <3>6, <3>7 DEF ViewIsArranged, StopArranged
    <3>9. TourRuns'
      BY <1>1, <1>2, <1>3, <1>7, <3>2 DEF TourRuns
    <3> QED
      BY <3>8, <3>9
  <2> QED
    BY <1>6, <2>1, <2>2, <2>3
<1> QED
  BY <1>9, <1>10, <1>11, <1>12 DEF TourInv

LEMMA TourStores == TourInv /\ MailTypes /\ AutoshotStore => TourInv'
<1> SUFFICES ASSUME TourInv, MailTypes, AutoshotStore PROVE TourInv'
  OBVIOUS
<1> DEFINE picture == Head(mailbox).picture
           saved == [stop |-> plan.step, picture |-> picture]
<1>1. /\ mailbox # <<>> /\ Head(mailbox).kind = "shot" /\ mailbox' = Tail(mailbox) /\ plan # NoPlan
      /\ UNCHANGED <<screen, scan, model, dark, recording, requests, tour>> /\ recording = NoRecording
      /\ status \in {"up", "leaving"} /\ status' \in {status, "leaving"}
  BY DEF AutoshotStore, Receive, Handled, Quit, form
<1>2. /\ plan \in Plans /\ plan.step \in Nat /\ mailbox \in Seq(Messages) /\ requests \in Nat
      /\ tour.arranged \in Nat /\ tour.surplus \in Nat
  BY <1>1 DEF MailTypes, Plans, Tours
<1>3. TourRuns /\ ViewIsArranged /\ PicturesAreRight /\ PicturesLag /\ ShotsLag
  BY DEF TourInv
<1>4. /\ plan'.step \in {plan.step, plan.step + 1} /\ (plan'.armed => plan' = plan)
      /\ shots' = shots \/ shots' = Append(shots, saved)
  <2>1. \/ plan' = plan /\ shots' = shots
        \/ /\ plan' = [plan EXCEPT !.step = @ + 1, !.armed = FALSE]
           /\ shots' = shots \/ shots' = Append(shots, saved)
    BY DEF AutoshotStore, Advanced
  <2> HIDE DEF saved
  <2> QED
    BY <1>2, <2>1 DEF Plans
<1>5. /\ Len(mailbox) = Len(mailbox') + 1 /\ Len(mailbox') \in Nat /\ Head(mailbox) = mailbox[1]
      /\ \A k \in 1 .. Len(mailbox') : mailbox'[k] = mailbox[k + 1] /\ k + 1 \in 1 .. Len(mailbox)
      /\ \A n \in 0 .. Len(mailbox') : Count(mailbox, n + 1) = Count(mailbox', n) + 1
  BY <1>1, <1>2, CountTaken
<1>6. \A n \in 0 .. Len(mailbox') : Count(mailbox', n) \in Nat
  BY <1>5, CountIsNat
\* The picture that is saved was the first to wait.
<1>7. /\ picture \in PictureRecords /\ picture.arranged \in Nat /\ IsRight(picture, tour.moved)
      /\ picture.arranged <= plan.step /\ plan.step <= picture.arranged + tour.surplus
  <2>1. 1 \in 1 .. Len(mailbox) /\ 1 - 1 = 0
    BY <1>5
  <2>2. mailbox[1] \in Messages
    BY <1>2, <2>1, ElementOfSeq
  <2>3. picture \in PictureRecords /\ picture.arranged \in Nat
    BY <1>1, <1>5, <2>2 DEF Messages, PictureRecords
  <2>4. IsRight(picture, tour.moved)
    BY <1>1, <1>3, <1>5, <2>1 DEF PicturesAreRight
  <2>5. ShotsAt(mailbox, 0) = {}
    BY DEF ShotsAt
  <2>6. Count(mailbox, 1 - 1) = 0
    BY <2>1, <2>5, FS_EmptySet DEF Count
  <2>7. /\ mailbox[1].picture.arranged <= plan.step
        /\ plan.step + Count(mailbox, 1 - 1) <= mailbox[1].picture.arranged + tour.surplus
    BY <1>1, <1>3, <1>5, <2>1 DEF PicturesLag
  <2> QED
    BY <1>2, <1>5, <2>3, <2>4, <2>6, <2>7
<1> HIDE DEF picture
<1>8. TourRuns' /\ ViewIsArranged'
  <2>1. tour.arranged <= plan'.step
    BY <1>2, <1>3, <1>4 DEF TourRuns
  <2> QED
    BY <1>1, <1>3, <1>4, <2>1 DEF TourRuns, ViewIsArranged, StopArranged
\* The tour is one stop further, and one picture less waits.
<1>9. PicturesLag'
  <2> SUFFICES /\ plan'.step + Pending' <= tour.arranged + tour.surplus + 1
               /\ \A k \in 1 .. Len(mailbox') : mailbox'[k].kind = "shot" =>
                     /\ mailbox'[k].picture.arranged <= plan'.step
                     /\ plan'.step + Count(mailbox', k - 1) <= mailbox'[k].picture.arranged + tour.surplus
    BY <1>1 DEF PicturesLag
  <2>1. plan.step + Pending <= tour.arranged + tour.surplus + 1
    BY <1>1, <1>3 DEF PicturesLag
  <2>2. Pending = requests + Count(mailbox, Len(mailbox))
    BY <1>2, PostedIs DEF Pending, Posted
  <2>3. Pending' = requests + Count(mailbox', Len(mailbox'))
    <3>1. mailbox' \in Seq(Messages)
      BY <1>1, <1>2, TailKeepsTypes
    <3> QED
      BY <1>1, <3>1, PostedIs DEF Pending, Posted
  <2>4. Len(mailbox') \in 0 .. Len(mailbox')
    BY <1>5
  <2>5. Count(mailbox, Len(mailbox)) = Count(mailbox', Len(mailbox')) + 1 /\ Count(mailbox', Len(mailbox')) \in Nat
    BY <1>5, <1>6, <2>4
  <2>6. Pending = Pending' + 1 /\ Pending' \in Nat
    <3> DEFINE later == Count(mailbox', Len(mailbox'))
    <3>1. later \in Nat /\ requests \in Nat /\ Pending = requests + (later + 1) /\ Pending' = requests + later
      BY <1>2, <2>2, <2>3, <2>5
    <3> HIDE DEF later
    <3> QED
      BY <3>1
  <2>7. plan'.step + Pending' <= tour.arranged + tour.surplus + 1
    <3>1. tour.arranged + tour.surplus + 1 \in Nat /\ plan.step \in Nat
      BY <1>2
    <3> QED
      BY <1>4, <2>1, <2>6, <3>1, OneLess
  <2>8. ASSUME NEW k \in 1 .. Len(mailbox'), mailbox'[k].kind = "shot"
        PROVE  /\ mailbox'[k].picture.arranged <= plan'.step
               /\ plan'.step + Count(mailbox', k - 1) <= mailbox'[k].picture.arranged + tour.surplus
    <3> DEFINE waiting == mailbox'[k].picture.arranged
               before == Count(mailbox', k - 1)
    <3>1. k - 1 \in 0 .. Len(mailbox') /\ (k + 1) - 1 = (k - 1) + 1
      BY <1>5
    <3>2. Count(mailbox, (k + 1) - 1) = before + 1 /\ before \in Nat
      BY <1>5, <1>6, <3>1
    <3>3. mailbox[k + 1] \in Messages /\ mailbox'[k] = mailbox[k + 1] /\ k + 1 \in 1 .. Len(mailbox)
      BY <1>2, <1>5, ElementOfSeq
    <3>4. waiting \in Nat
      BY <2>8, <3>3 DEF Messages, PictureRecords
    <3>5. waiting <= plan.step /\ plan.step + (before + 1) <= waiting + tour.surplus
      BY <1>1, <1>3, <2>8, <3>2, <3>3 DEF PicturesLag
    <3> HIDE DEF waiting, before
    <3>6. waiting <= plan'.step
      BY <1>2, <1>4, <3>4, <3>5
    <3>7. waiting + tour.surplus \in Nat /\ plan.step \in Nat
      BY <1>2, <3>4
    <3>8. plan'.step + before <= waiting + tour.surplus
      BY <1>4, <3>2, <3>5, <3>7, OneLess
    <3> QED
      BY <3>6, <3>8 DEF waiting, before
  <2> QED
    BY <2>7, <2>8
<1>10. \A k \in 1 .. Len(shots') : shots'[k] = saved \/ \E j \in 1 .. Len(shots) : shots'[k] = shots[j]
  <2>1. CASE shots' = shots
    BY <2>1
  <2>2. CASE shots' = Append(shots, saved)
    <3>1. saved \in [stop : Nat, picture : PictureRecords]
      BY <1>2, <1>7
    <3> HIDE DEF saved
    <3>2. /\ Len(shots') = Len(shots) + 1 /\ Len(shots) \in Nat
          /\ \A k \in 1 .. Len(shots) : shots'[k] = shots[k]
          /\ shots'[Len(shots) + 1] = saved
      BY <1>3, <2>2, <3>1, AppendProperties, LenProperties DEF ShotsLag
    <3>3. \A k \in 1 .. Len(shots') : k \in 1 .. Len(shots) \/ k = Len(shots) + 1
      BY <3>2
    <3> QED
      BY <3>2, <3>3
  <2> QED
    BY <1>4, <2>1, <2>2
<1>11. saved.stop = plan.step /\ saved.picture = picture /\ saved \in [stop : Nat, picture : PictureRecords]
  BY <1>2, <1>7
<1> HIDE DEF saved
<1>12. PicturesAreRight'
  <2>1. \A k \in 1 .. Len(shots') : IsRight(shots'[k].picture, tour.moved)
    <3> TAKE k \in 1 .. Len(shots')
    <3>1. CASE shots'[k] = saved
      BY <1>7, <1>11, <3>1
    <3>2. CASE \E j \in 1 .. Len(shots) : shots'[k] = shots[j]
      BY <1>3, <3>2 DEF PicturesAreRight
    <3> QED
      BY <1>10, <3>1, <3>2
  <2> QED
    BY <1>1, <1>3, <2>1, WaitingStaysRight DEF PicturesAreRight
<1>13. ShotsLag'
  <2>1. shots' \in Seq([stop : Nat, picture : PictureRecords])
    <3>1. shots \in Seq([stop : Nat, picture : PictureRecords])
      BY <1>3 DEF ShotsLag
    <3>2. Append(shots, saved) \in Seq([stop : Nat, picture : PictureRecords])
      BY <1>11, <3>1, AppendProperties
    <3> QED
      BY <1>4, <3>1, <3>2
  <2>2. \A k \in 1 .. Len(shots') : /\ shots'[k].picture.arranged <= shots'[k].stop
                                    /\ shots'[k].stop <= shots'[k].picture.arranged + tour.surplus
    <3> TAKE k \in 1 .. Len(shots')
    <3>1. CASE shots'[k] = saved
      BY <1>7, <1>11, <3>1
    <3>2. CASE \E j \in 1 .. Len(shots) : shots'[k] = shots[j]
      BY <1>3, <3>2 DEF ShotsLag
    <3> QED
      BY <1>10, <3>1, <3>2
  <2> QED
    BY <1>1, <2>1, <2>2 DEF ShotsLag
<1> QED
  BY <1>8, <1>9, <1>12, <1>13 DEF TourInv

LEMMA TourLeaves == TourInv /\ MailTypes /\ Leave => TourInv'
<1> SUFFICES ASSUME TourInv, MailTypes, Leave PROVE TourInv'
  OBVIOUS
<1>1. /\ UNCHANGED <<screen, scan, model, dark, plan, recording, shots, tour>> /\ status' = "gone"
      /\ mailbox' = <<>> /\ requests' = 0
  BY DEF Leave, form, capture
<1>2. Pending' = 0
  <2>1. <<>> \in Seq(Messages) /\ Len(<<>>) = 0
    BY EmptySeq
  <2>2. Count(<<>>, 0) = 0
    <3>1. ShotsAt(<<>>, 0) = {}
      BY DEF ShotsAt
    <3> QED
      BY <3>1, FS_EmptySet DEF Count
  <2>3. Posted("shot")' = Count(<<>>, Len(<<>>))
    BY <1>1, <2>1, PostedIs DEF Posted
  <2> QED
    BY <1>1, <2>1, <2>2, <2>3 DEF Pending
<1>3. PicturesLag'
  <2>1. Pending \in Nat
    <3>1. Len(mailbox) \in Nat /\ mailbox \in Seq(Messages)
      BY LenProperties DEF MailTypes
    <3>2. Posted("shot") = Count(mailbox, Len(mailbox))
      BY <3>1, PostedIs DEF Posted
    <3> QED
      BY <3>1, <3>2, CountIsNat DEF Pending, MailTypes
  <2>2. recording = NoRecording => plan.step + 0 <= tour.arranged + tour.surplus + 1
    <3>1. plan.step \in Nat /\ tour.arranged \in Nat /\ tour.surplus \in Nat
      BY DEF MailTypes, Plans, Tours
    <3>2. recording = NoRecording => plan.step + Pending <= tour.arranged + tour.surplus + 1
      BY DEF TourInv, PicturesLag
    <3> QED
      BY <2>1, <3>1, <3>2
  <2> QED
    BY <1>1, <1>2, <2>2 DEF PicturesLag
<1>4. TourRuns' /\ ViewIsArranged' /\ PicturesAreRight' /\ ShotsLag'
  BY <1>1 DEF TourInv, TourRuns, ViewIsArranged, StopArranged, PicturesAreRight, ShotsLag
<1> QED
  BY <1>3, <1>4 DEF TourInv

LEMMA TourStep == TourInv /\ MailTypes /\ RecordingTypes /\ [Next]_vars => TourInv'
<1> SUFFICES ASSUME TourInv, MailTypes, RecordingTypes, [Next]_vars PROVE TourInv'
  OBVIOUS
<1>1. CASE User \/ Launch \/ MetronomeTicks \/ StreamForwards \/ ApplyBackend
           \/ CloseWriter \/ JoinWriter \/ WorkerSteps \/ UNCHANGED vars
  BY <1>1, UserStep, BesideTheTour
<1>2. CASE RecordingTick \/ RecordingStore
  BY <1>2, BesideARecording
<1>3. CASE TakeScreenshot \/ AutoshotTick \/ AutoshotStore \/ Leave
  BY <1>3, TourIsPictured, TourTicks, TourStores, TourLeaves
<1> QED
  BY <1>1, <1>2, <1>3 DEF Next, Update

\* A picture of the tour is that of the stop it is named for or of one before it, by no
\* more stops than screenshots were asked for while another was due.  Of a scan it shows
\* the tab and the mode of that stop, and its depth, as far as the user left the view
\* alone; without a scan it shows the setup form.
THEOREM PicturesShowTheirStops == Spec => []PicturesMatchStops
<1>1. TourInv /\ MailTypes => PicturesMatchStops
  <2> SUFFICES ASSUME TourInv, MailTypes, NEW k \in DOMAIN shots
               PROVE  LET picture == shots[k].picture
                          arranged == AUTOSHOT_STEPS[picture.arranged]
                      IN /\ picture.arranged \in shots[k].stop - tour.surplus .. shots[k].stop
                         /\ ~ picture.scanned => picture.window.tab = "Setup"
                         /\ picture.scanned /\ picture.kept =>
                              /\ picture.window.tab = arranged.tab /\ picture.window.dark = arranged.dark
                              /\ tour.moved \/ picture.window.deep = arranged.deep
    BY DEF PicturesMatchStops
  <2>1. k \in 1 .. Len(shots) /\ shots[k] \in [stop : Nat, picture : PictureRecords]
    BY LenProperties, ElementOfSeq DEF TourInv, ShotsLag
  <2>2. shots[k].stop \in Nat /\ shots[k].picture.arranged \in Nat /\ tour.surplus \in Nat
    BY <2>1 DEF PictureRecords, MailTypes, Tours
  <2>3. /\ shots[k].picture.arranged <= shots[k].stop
        /\ shots[k].stop <= shots[k].picture.arranged + tour.surplus
    BY <2>1 DEF TourInv, ShotsLag
  <2>4. shots[k].picture.arranged \in shots[k].stop - tour.surplus .. shots[k].stop
    BY <2>2, <2>3
  <2>5. IsRight(shots[k].picture, tour.moved)
    BY <2>1 DEF TourInv, PicturesAreRight
  <2> QED
    BY <2>4, <2>5 DEF IsRight
<1>2. Init => MailTypes /\ RecordingInv /\ TourInv
  BY MailInitially, RecordingInitially, TourInitially DEF MailInv
<1>3. MailTypes /\ [Next]_vars => MailTypes'
  BY StepsMoveTheMail
<1>4. (RecordingInv => RecordingTypes) /\ (WriterInv => WriterTypes)
  BY DEF RecordingInv, WriterInv
<1> QED
  BY <1>1, <1>2, <1>3, <1>4, WriterHolds, RecordingStep, TourStep, PTL DEF Spec

-----------------------------------------------------------------------------
(* The arguments of the program.                                           *)

\* No word is the spelling of two options.
LEMMA OneOption ==
    ASSUME NEW word, NEW o \in DOMAIN Spellings, NEW p \in DOMAIN Spellings,
           word \in Spellings[o], word \in Spellings[p]
    PROVE  o = p
BY SMTT(30) DEF Spellings

LEMMA OptionKinds ==
    /\ Flags \cup Valued = DOMAIN Spellings /\ Flags \cap Valued = {}
    /\ Paths \subseteq Valued /\ DOMAIN Limits \subseteq Valued /\ "fields" \in Valued
    /\ "fields" \notin Paths /\ "fields" \notin DOMAIN Limits /\ Paths \cap DOMAIN Limits = {}
    /\ Valued = Paths \cup DOMAIN Limits \cup {"fields"} /\ "root" \notin DOMAIN Spellings
    /\ "help" \in Flags
BY DEF Flags, Valued, Spellings, Paths, Limits

\* The words that take a value end in a run, which may be empty.
LEMMA RunOfTakers ==
    ASSUME NEW k \in Nat \ {0}
    PROVE  \E run \in 0 .. k - 1 : /\ \A j \in k - run .. k - 1 : TakesValue(words[j])
                                   /\ run = k - 1 \/ ~ TakesValue(words[k - run - 1])
<1> DEFINE Ends(m, run) == /\ run \in 0 .. m - 1
                           /\ \A j \in m - run .. m - 1 : TakesValue(words[j])
                           /\ run = m - 1 \/ ~ TakesValue(words[m - run - 1])
           Done == {m \in Nat : \E run \in Nat : Ends(m + 1, run)}
<1>1. 0 \in Done
  <2>1. Ends(0 + 1, 0)
    OBVIOUS
  <2> QED BY <2>1
<1>2. ASSUME NEW m \in Nat, m \in Done PROVE m + 1 \in Done
  <2>1. PICK run \in Nat : Ends(m + 1, run)
    BY <1>2
  <2>2. CASE TakesValue(words[m + 1])
    <3>1. Ends((m + 1) + 1, run + 1)
      BY <2>1, <2>2
    <3> QED BY <3>1
  <2>3. CASE ~ TakesValue(words[m + 1])
    <3>1. Ends((m + 1) + 1, 0)
      BY <2>3
    <3> QED BY <3>1
  <2> QED BY <2>2, <2>3
<1>3. Nat \subseteq Done
  <2> HIDE DEF Done
  <2> QED BY <1>1, <1>2, Induction
<1>4. k - 1 \in Nat /\ (k - 1) + 1 = k
  OBVIOUS
<1>5. PICK run \in Nat : Ends((k - 1) + 1, run)
  BY <1>3, <1>4
<1> QED BY <1>4, <1>5

\* A word is the value of the word before it, if that takes one and is none.
LEMMA ValueOrNot ==
    /\ ~ IsValue(1)
    /\ \A k \in Nat \ {0} : IsValue(k + 1) <=> TakesValue(words[k]) /\ ~ IsValue(k)
<1>1. ~ IsValue(1)
  BY DEF IsValue
<1>2. ASSUME NEW k \in Nat \ {0}, IsValue(k + 1) PROVE TakesValue(words[k]) /\ ~ IsValue(k)
  <2>1. PICK r \in 1 .. k : /\ r % 2 = 1 /\ \A j \in k + 1 - r .. k : TakesValue(words[j])
                            /\ r = k \/ ~ TakesValue(words[k - r])
    BY <1>2 DEF IsValue
  <2>2. TakesValue(words[k])
    BY <2>1
  <2>3. ASSUME IsValue(k) PROVE FALSE
    <3>1. PICK q \in 1 .. k - 1 : /\ q % 2 = 1 /\ \A j \in k - q .. k - 1 : TakesValue(words[j])
                                  /\ q = k - 1 \/ ~ TakesValue(words[k - q - 1])
      BY <2>3 DEF IsValue
    <3>2. CASE r - 1 = q
      BY <2>1, <3>1, <3>2
    <3>3. CASE r - 1 < q
      <4>1. r # k /\ k - r \in k - q .. k - 1
        BY <3>3
      <4> QED BY <2>1, <3>1, <4>1
    <3>4. CASE r - 1 > q
      <4>1. q # k - 1 /\ k - q - 1 \in k + 1 - r .. k
        BY <3>4
      <4> QED BY <2>1, <3>1, <4>1
    <3> QED BY <3>2, <3>3, <3>4
  <2> QED BY <2>2, <2>3
<1>3. ASSUME NEW k \in Nat \ {0}, TakesValue(words[k]), ~ IsValue(k) PROVE IsValue(k + 1)
  <2>1. PICK q \in 0 .. k - 1 : /\ \A j \in k - q .. k - 1 : TakesValue(words[j])
                                /\ q = k - 1 \/ ~ TakesValue(words[k - q - 1])
    BY RunOfTakers
  <2>2. q % 2 = 0
    <3>1. q % 2 = 0 \/ (q % 2 = 1 /\ q \in 1 .. k - 1)
      OBVIOUS
    <3> QED BY <1>3, <2>1, <3>1 DEF IsValue
  <2> DEFINE r == q + 1
  <2>3. /\ r \in 1 .. (k + 1) - 1 /\ r % 2 = 1
        /\ \A j \in (k + 1) - r .. (k + 1) - 1 : TakesValue(words[j])
        /\ r = (k + 1) - 1 \/ ~ TakesValue(words[(k + 1) - r - 1])
    <3>1. r \in 1 .. k /\ r % 2 = 1
      BY <2>2
    <3>2. ASSUME NEW j \in (k + 1) - r .. (k + 1) - 1 PROVE TakesValue(words[j])
      <4>1. j = k \/ j \in k - q .. k - 1
        OBVIOUS
      <4> QED BY <1>3, <2>1, <4>1
    <3>3. r = k \/ ~ TakesValue(words[(k + 1) - r - 1])
      <4>1. (k + 1) - r - 1 = k - q - 1
        OBVIOUS
      <4> QED BY <2>1, <4>1
    <3> QED BY <3>1, <3>2, <3>3
  <2> HIDE DEF r
  <2> QED BY <2>3 DEF IsValue
<1> QED BY <1>1, <1>2, <1>3

\* The uses of an option, and the roots, among the first n words.
UsesTo(option, n) == {k \in Uses(option) : k <= n}
RootsTo(n) == {k \in RootWords : k <= n}
Told(option, n) == words[Max(UsesTo(option, n)) + 1]

\* What the first n words say is what c holds, and there is no mistake in them.
FlagsMean(c, n) == \A option \in Flags : c[option] = (UsesTo(option, n) # {})
ValuesSuit(n) == \A option \in Valued : \A k \in UsesTo(option, n) :
                    k < Len(words) /\ Suits(option, words[k + 1])
ValuesMean(c, n) ==
    \A option \in Valued \ {"fields"} :
       c[option] = IF UsesTo(option, n) = {} THEN UNSET
                   ELSE IF option \in Paths THEN Told(option, n) ELSE Numbers[Told(option, n)]
FieldsMean(c, n) == /\ c["fields"] \in Seq(STRING)
                    /\ Range(c["fields"]) = {words[k + 1] : k \in UsesTo("fields", n)}
RootsMean(c, n) == /\ \A k \in RootsTo(n) : words[k] \notin Dashed
                   /\ \A j, k \in RootsTo(n) : j = k
                   /\ c["root"] = IF RootsTo(n) = {} THEN UNSET ELSE words[Max(RootsTo(n))]
Means(c, n) == FlagsMean(c, n) /\ ValuesSuit(n) /\ ValuesMean(c, n) /\ FieldsMean(c, n) /\ RootsMean(c, n)

Optional == DOMAIN Spellings \cup {"root"}
Given(c) == c = [option \in Optional |-> c[option]]
Positions == words \in Seq(STRING) /\ read \in 0 .. Len(words) /\ ~ IsValue(read + 1)

\* One more word was read, or two if the first takes the second as its value.
LEMMA ReadsOn ==
    ASSUME Positions, read < Len(words), NEW m \in {read + 1, read + 2}, m <= Len(words),
           m = read + 2 <=> TakesValue(words[read + 1])
    PROVE  /\ ~ IsValue(m + 1) /\ m \in 0 .. Len(words) /\ read + 1 \in Standing
           /\ \A option \in DOMAIN Spellings :
                 UsesTo(option, m) = UsesTo(option, read)
                                       \cup (IF words[read + 1] \in Spellings[option] THEN {read + 1} ELSE {})
           /\ RootsTo(m) = RootsTo(read) \cup (IF Options(words[read + 1]) = {} THEN {read + 1} ELSE {})
<1> DEFINE k == read + 1
<1>1. /\ words \in Seq(STRING) /\ read \in Nat /\ Len(words) \in Nat /\ read <= Len(words)
      /\ ~ IsValue(k) /\ DOMAIN words = 1 .. Len(words)
  BY LenProperties DEF Positions
<1>2. k \in Nat \ {0} /\ k + 1 \in Nat \ {0} /\ k \in DOMAIN words
  BY <1>1
<1>3. k \in Standing
  BY <1>1, <1>2 DEF Standing
<1>4. IsValue(k + 1) <=> TakesValue(words[k])
  BY <1>1, <1>2, ValueOrNot
<1>5. IsValue((k + 1) + 1) <=> TakesValue(words[k + 1]) /\ ~ IsValue(k + 1)
  BY <1>2, ValueOrNot
<1>6. ~ IsValue(m + 1)
  <2>1. CASE m = k
    BY <1>1, <1>4, <2>1
  <2>2. CASE m = k + 1
    BY <1>1, <1>4, <1>5, <2>2
  <2> QED BY <1>1, <2>1, <2>2
<1>7. \A j \in Standing : j <= m <=> j <= read \/ j = k
  <2> SUFFICES ASSUME NEW j \in Standing, j <= m, ~ (j <= read), j # k PROVE FALSE
    BY <1>1, <1>2 DEF Standing
  <2>1. j \in DOMAIN words /\ ~ IsValue(j)
    BY DEF Standing
  <2>2. j = k + 1 /\ m = k + 1
    BY <1>1, <2>1
  <2> QED BY <1>4, <2>1, <2>2
<1>8. Standing \subseteq DOMAIN words
  BY DEF Standing
<1> HIDE DEF k
<1>9. \A option \in DOMAIN Spellings :
         UsesTo(option, m) = UsesTo(option, read) \cup (IF words[k] \in Spellings[option] THEN {k} ELSE {})
  BY <1>3, <1>7 DEF UsesTo, Uses
<1>10. RootsTo(m) = RootsTo(read) \cup (IF Options(words[k]) = {} THEN {k} ELSE {})
  BY <1>3, <1>7 DEF RootsTo, RootWords
<1>11. m \in 0 .. Len(words)
  BY <1>1
<1> QED BY <1>3, <1>6, <1>9, <1>10, <1>11 DEF k

\* A position behind all others is the largest.
LEMMA LastIsLargest ==
    ASSUME NEW r \in Nat, NEW S, \A k \in S : k \in Int /\ k <= r
    PROVE  Max(S \cup {r + 1}) = r + 1
<1> DEFINE T == S \cup {r + 1}
<1>1. r + 1 \in T /\ \A k \in T : k \in Int /\ r + 1 >= k
  OBVIOUS
<1> HIDE DEF T
<1>2. \A x \in T : (\A k \in T : x >= k) => x = r + 1
  BY <1>1
<1>3. (CHOOSE x \in T : \A k \in T : x >= k) = r + 1
  BY <1>1, <1>2
<1> QED BY <1>3 DEF Max, T

\* A flag is set.
LEMMA FlagMeans ==
    ASSUME Positions, read < Len(words), Given(cli), Means(cli, read),
           NEW option \in Flags, option \in Options(words[read + 1])
    PROVE  LET c == [cli EXCEPT ![option] = TRUE]
           IN ~ IsValue(read + 2) /\ read + 1 \in 0 .. Len(words) /\ Given(c) /\ Means(c, read + 1)
<1> DEFINE c == [cli EXCEPT ![option] = TRUE]
           k == read + 1
<1>1. option \in DOMAIN Spellings /\ words[k] \in Spellings[option] /\ option \notin Valued
  BY OptionKinds DEF Options
<1>2. \A o \in DOMAIN Spellings : words[k] \in Spellings[o] => o = option
  BY <1>1, OneOption
<1>3. ~ TakesValue(words[k]) /\ Options(words[k]) # {}
  BY <1>1, <1>2 DEF TakesValue, Options
<1>4. read \in Nat /\ Len(words) \in Nat /\ k <= Len(words) /\ k # read + 2
  BY LenProperties DEF Positions
<1>5. /\ ~ IsValue(k + 1) /\ k \in 0 .. Len(words)
      /\ \A o \in DOMAIN Spellings :
            UsesTo(o, k) = UsesTo(o, read) \cup (IF words[k] \in Spellings[o] THEN {k} ELSE {})
      /\ RootsTo(k) = RootsTo(read) \cup (IF Options(words[k]) = {} THEN {k} ELSE {})
  BY <1>3, <1>4, ReadsOn
<1> HIDE DEF k
<1>6. /\ UsesTo(option, k) # {} /\ RootsTo(k) = RootsTo(read)
      /\ \A o \in DOMAIN Spellings \ {option} : UsesTo(o, k) = UsesTo(o, read)
  BY <1>1, <1>2, <1>3, <1>5
<1>7. Given(c) /\ c[option] = TRUE /\ \A o \in Optional \ {option} : c[o] = cli[o]
  BY <1>1 DEF Given, Optional
<1> HIDE DEF c
<1>8. option # "fields" /\ option # "root" /\ "fields" \in Optional /\ "root" \in Optional
  BY <1>1, OptionKinds DEF Optional
<1>9. FlagsMean(c, k)
  BY <1>6, <1>7, OptionKinds DEF FlagsMean, Means, Optional
<1>10. ValuesSuit(k)
  BY <1>1, <1>6, OptionKinds DEF ValuesSuit, Means
<1>11. ValuesMean(c, k)
  BY <1>1, <1>6, <1>7, OptionKinds DEF ValuesMean, Told, Means, Optional
<1>12. FieldsMean(c, k)
  BY <1>1, <1>6, <1>7, <1>8, OptionKinds DEF FieldsMean, Means
<1>13. RootsMean(c, k)
  BY <1>6, <1>7, <1>8 DEF RootsMean, Means
<1>14. read + 2 = k + 1
  BY <1>4 DEF k
<1> QED BY <1>5, <1>7, <1>9, <1>10, <1>11, <1>12, <1>13, <1>14 DEF Means, c, k

LEMMA AppendsTo ==
    ASSUME NEW X, NEW s \in Seq(X), NEW e \in X
    PROVE  Append(s, e) \in Seq(X) /\ Range(Append(s, e)) = Range(s) \cup {e}
<1> DEFINE a == Append(s, e)
<1>1. /\ a \in Seq(X) /\ Len(a) = Len(s) + 1 /\ Len(s) \in Nat /\ a[Len(s) + 1] = e
      /\ \A i \in 1 .. Len(s) : a[i] = s[i]
  BY AppendProperties, LenProperties
<1>2. DOMAIN s = 1 .. Len(s) /\ DOMAIN a = 1 .. Len(a)
  BY <1>1, LenProperties
<1>3. DOMAIN a = DOMAIN s \cup {Len(s) + 1}
  BY <1>1, <1>2
<1> HIDE DEF a
<1>4. Range(a) = Range(s) \cup {e}
  BY <1>1, <1>2, <1>3 DEF Range
<1> QED BY <1>1, <1>4 DEF a

\* An option gets a value.
LEMMA ValueMeans ==
    ASSUME Positions, Given(cli), Means(cli, read),
           NEW option \in Valued, read < Len(words), option \in Options(words[read + 1]),
           HasValue(read + 1), Suits(option, words[read + 2])
    PROVE  LET value == words[read + 2]
               c == [cli EXCEPT ![option] = CASE option = "fields" -> Append(@, value)
                                              [] option \in Paths -> value
                                              [] OTHER -> Numbers[value]]
           IN ~ IsValue(read + 3) /\ read + 2 \in 0 .. Len(words) /\ Given(c) /\ Means(c, read + 2)
<1> DEFINE value == words[read + 2]
           new == CASE option = "fields" -> Append(cli[option], value)
                    [] option \in Paths -> value
                    [] OTHER -> Numbers[value]
           c == [cli EXCEPT ![option] = new]
           k == read + 1
           m == read + 2
<1>1. option \in DOMAIN Spellings /\ words[k] \in Spellings[option] /\ option \notin Flags
  BY OptionKinds DEF Options
<1>2. \A o \in DOMAIN Spellings : words[k] \in Spellings[o] => o = option
  BY <1>1, OneOption
<1>3. TakesValue(words[k]) /\ Options(words[k]) # {}
  BY <1>1 DEF TakesValue, Options
<1>4. /\ read \in Nat /\ Len(words) \in Nat /\ m \in {read + 1, read + 2} /\ m <= Len(words)
      /\ k \in Nat /\ k < Len(words) /\ k + 1 = m /\ words \in Seq(STRING)
  BY LenProperties DEF Positions, HasValue
<1>5. value \in STRING
  <2>1. m \in 1 .. Len(words)
    BY <1>4
  <2> QED BY <1>4, <2>1, ElementOfSeq
<1>6. /\ ~ IsValue(m + 1) /\ m \in 0 .. Len(words)
      /\ \A o \in DOMAIN Spellings :
            UsesTo(o, m) = UsesTo(o, read) \cup (IF words[k] \in Spellings[o] THEN {k} ELSE {})
      /\ RootsTo(m) = RootsTo(read) \cup (IF Options(words[k]) = {} THEN {k} ELSE {})
  BY <1>3, <1>4, ReadsOn
<1>7. m + 1 = read + 3
  BY <1>4
<1> HIDE DEF k, m
<1>8. /\ UsesTo(option, m) = UsesTo(option, read) \cup {k} /\ RootsTo(m) = RootsTo(read)
      /\ \A o \in DOMAIN Spellings \ {option} : UsesTo(o, m) = UsesTo(o, read)
  BY <1>1, <1>2, <1>3, <1>6
<1> HIDE DEF new, value
<1>9. Given(c) /\ c[option] = new /\ \A o \in Optional \ {option} : c[o] = cli[o]
  BY <1>1 DEF Given, Optional
<1> HIDE DEF c
<1>10. option # "root" /\ "fields" \in Optional /\ "root" \in Optional
  BY <1>1, OptionKinds DEF Optional
<1>11. Max(UsesTo(option, m)) = k
  <2>1. \A j \in UsesTo(option, read) : j \in Int /\ j <= read
    BY <1>4, LenProperties DEF UsesTo, Uses, Standing
  <2> QED BY <1>4, <1>8, <2>1, LastIsLargest DEF k
<1>12. Told(option, m) = value
  BY <1>4, <1>11 DEF Told, value, m
<1>13. FlagsMean(c, m)
  BY <1>1, <1>8, <1>9, OptionKinds DEF FlagsMean, Means, Optional
<1>14. ValuesSuit(m)
  <2> SUFFICES ASSUME NEW o \in Valued, NEW j \in UsesTo(o, m)
               PROVE  j < Len(words) /\ Suits(o, words[j + 1])
    BY DEF ValuesSuit
  <2>1. CASE j \in UsesTo(o, read)
    BY <2>1 DEF ValuesSuit, Means
  <2>2. CASE j \notin UsesTo(o, read)
    <3>1. o \in DOMAIN Spellings
      BY OptionKinds
    <3>2. o = option /\ j = k
      BY <1>8, <2>2, <3>1
    <3> QED BY <1>4, <3>2 DEF m
  <2> QED BY <2>1, <2>2
<1>15. ValuesMean(c, m)
  <2> SUFFICES ASSUME NEW o \in Valued \ {"fields"}
               PROVE  c[o] = IF UsesTo(o, m) = {} THEN UNSET
                             ELSE IF o \in Paths THEN Told(o, m) ELSE Numbers[Told(o, m)]
    BY DEF ValuesMean
  <2>1. CASE o = option
    <3>1. new = IF o \in Paths THEN value ELSE Numbers[value]
      BY <2>1 DEF new
    <3> QED BY <1>8, <1>9, <1>12, <2>1, <3>1
  <2>2. CASE o # option
    <3>1. o \in DOMAIN Spellings /\ o \in Optional
      BY OptionKinds DEF Optional
    <3>2. UsesTo(o, m) = UsesTo(o, read) /\ c[o] = cli[o]
      BY <1>8, <1>9, <2>2, <3>1
    <3> QED BY <3>2 DEF Told, ValuesMean, Means
  <2> QED BY <2>1, <2>2
<1>16. FieldsMean(c, m)
  <2> DEFINE old == cli["fields"]
  <2>1. old \in Seq(STRING) /\ Range(old) = {words[j + 1] : j \in UsesTo("fields", read)}
    BY DEF FieldsMean, Means
  <2> HIDE DEF old
  <2>2. CASE option = "fields"
    <3>1. c["fields"] = Append(old, value)
      <4>1. "fields" \notin Paths
        BY OptionKinds
      <4>2. new = Append(cli[option], value)
        BY <2>2, <4>1 DEF new
      <4> QED BY <1>9, <2>2, <4>2 DEF old
    <3>2. /\ Append(old, value) \in Seq(STRING)
          /\ Range(Append(old, value)) = Range(old) \cup {value}
      BY <1>5, <2>1, AppendsTo
    <3>3. {words[j + 1] : j \in UsesTo("fields", m)}
            = {words[j + 1] : j \in UsesTo("fields", read)} \cup {value}
      BY <1>4, <1>8, <2>2 DEF value, m
    <3> QED BY <2>1, <3>1, <3>2, <3>3 DEF FieldsMean
  <2>3. CASE option # "fields"
    <3>1. c["fields"] = old /\ UsesTo("fields", m) = UsesTo("fields", read)
      BY <1>8, <1>9, <1>10, <2>3, OptionKinds DEF old
    <3> QED BY <2>1, <3>1 DEF FieldsMean
  <2> QED BY <2>2, <2>3
<1>17. RootsMean(c, m)
  BY <1>8, <1>9, <1>10 DEF RootsMean, Means
<1> QED BY <1>6, <1>7, <1>9, <1>13, <1>14, <1>15, <1>16, <1>17 DEF Means, c, m, new, value

\* A root is taken; it is the only one.
LEMMA RootMeans ==
    ASSUME Positions, read < Len(words), Given(cli), Means(cli, read),
           Options(words[read + 1]) = {}, words[read + 1] \notin Dashed, cli["root"] = UNSET
    PROVE  LET c == [cli EXCEPT !["root"] = words[read + 1]]
           IN ~ IsValue(read + 2) /\ read + 1 \in 0 .. Len(words) /\ Given(c) /\ Means(c, read + 1)
<1> DEFINE k == read + 1
           c == [cli EXCEPT !["root"] = words[k]]
<1>1. \A o \in DOMAIN Spellings : words[k] \notin Spellings[o]
  BY DEF Options
<1>2. ~ TakesValue(words[k])
  BY DEF TakesValue
<1>3. /\ read \in Nat /\ Len(words) \in Nat /\ k <= Len(words) /\ k # read + 2
      /\ words \in Seq(STRING) /\ UNSET \notin STRING
  BY LenProperties, CommandsAssumption DEF Positions
<1>4. /\ ~ IsValue(k + 1) /\ k \in 0 .. Len(words)
      /\ \A o \in DOMAIN Spellings :
            UsesTo(o, k) = UsesTo(o, read) \cup (IF words[k] \in Spellings[o] THEN {k} ELSE {})
      /\ RootsTo(k) = RootsTo(read) \cup {k}
  BY <1>2, <1>3, ReadsOn
<1>5. \A o \in DOMAIN Spellings : UsesTo(o, k) = UsesTo(o, read)
  BY <1>1, <1>4
<1>6. RootsTo(read) = {}
  <2> SUFFICES ASSUME RootsTo(read) # {} PROVE FALSE
    OBVIOUS
  <2> DEFINE S == RootsTo(read)
             top == Max(S)
  <2>1. S \subseteq DOMAIN words /\ \A i, j \in S : i = j
    BY DEF RootsTo, RootWords, Standing, RootsMean, Means
  <2>2. cli["root"] = words[top]
    BY DEF RootsMean, Means
  <2>3. top \in S
    <3>1. PICK j \in S : S = {j}
      BY <2>1
    <3>2. j \in Nat
      BY <1>3, <2>1, LenProperties
    <3> HIDE DEF S
    <3>3. j >= j /\ (CHOOSE x \in S : \A i \in S : x >= i) \in S
      BY <3>1, <3>2
    <3> QED BY <3>3 DEF Max
  <2>4. words[top] \in STRING
    BY <1>3, <2>1, <2>3, LenProperties, ElementOfSeq
  <2> QED BY <1>3, <2>2, <2>4
<1>7. Max(RootsTo(k)) = k
  <2>1. RootsTo(k) = {} \cup {read + 1}
    BY <1>4, <1>6
  <2>2. Max({} \cup {read + 1}) = read + 1
    BY <1>3, LastIsLargest
  <2> QED BY <2>1, <2>2
<1>8. RootsTo(k) = {k}
  BY <1>4, <1>6
<1>9. words[k] \notin Dashed /\ read + 2 = k + 1
  BY <1>3
<1> HIDE DEF k
<1>10. Given(c) /\ c["root"] = words[k] /\ \A o \in Optional \ {"root"} : c[o] = cli[o]
  BY DEF Given, Optional
<1> HIDE DEF c
<1>11. \A o \in DOMAIN Spellings : c[o] = cli[o]
  BY <1>10, OptionKinds DEF Optional
<1>12. FlagsMean(c, k)
  BY <1>5, <1>11, OptionKinds DEF FlagsMean, Means
<1>13. ValuesSuit(k)
  BY <1>5, OptionKinds DEF ValuesSuit, Means
<1>14. ValuesMean(c, k)
  BY <1>5, <1>11, OptionKinds DEF ValuesMean, Told, Means
<1>15. FieldsMean(c, k)
  BY <1>5, <1>11, OptionKinds DEF FieldsMean, Means
<1>16. RootsMean(c, k)
  BY <1>7, <1>8, <1>9, <1>10 DEF RootsMean
<1> QED BY <1>4, <1>9, <1>10, <1>12, <1>13, <1>14, <1>15, <1>16 DEF Means, c, k

\* One more field, unless it is there.
Dedup(fields, field) == IF field \in Range(fields) THEN fields ELSE Append(fields, field)
AlwaysRead == <<"type", "allocated_size">>
\* No prover knows that a literal is a STRING.
Texts == STRING \cup {"type", "allocated_size"}

IsRetaining(g, s) ==
    g = [T \in SUBSET DOMAIN s |-> IF T = {} THEN AlwaysRead
                                   ELSE Dedup(g[T \ {Largest(T)}], s[Largest(T)])]
\* The fields of a scan that was told of those in S.
Retained(f, S) ==
    /\ f \in Seq(Texts) /\ IsInjective(f) /\ Range(f) = {"type", "allocated_size"} \cup S
    /\ Len(f) >= 2 /\ f[1] = "type" /\ f[2] = "allocated_size"

LEMMA PairIs ==
    ASSUME NEW X, NEW a \in X, NEW b \in X
    PROVE  /\ <<a, b>> \in Seq(X) /\ Len(<<a, b>>) = 2 /\ DOMAIN <<a, b>> = {1, 2}
           /\ <<a, b>>[1] = a /\ <<a, b>>[2] = b
<1>1. <<a, b>> \in Seq(X) /\ Len(<<a, b>>) = 2 /\ <<a, b>>[1] = a /\ <<a, b>>[2] = b
  OBVIOUS
<1>2. DOMAIN <<a, b>> = 1 .. 2 /\ 1 .. 2 = {1, 2}
  OBVIOUS
<1> QED BY <1>1, <1>2

LEMMA AlwaysReadIs ==
    /\ AlwaysRead \in Seq(Texts) /\ Len(AlwaysRead) = 2 /\ DOMAIN AlwaysRead = {1, 2}
    /\ AlwaysRead[1] = "type" /\ AlwaysRead[2] = "allocated_size"
<1> DEFINE a == "type"
           b == "allocated_size"
<1>1. a \in Texts /\ b \in Texts
  BY DEF Texts
<1>2. AlwaysRead = <<a, b>>
  BY DEF AlwaysRead
<1> HIDE DEF a, b
<1>3. /\ <<a, b>> \in Seq(Texts) /\ Len(<<a, b>>) = 2 /\ DOMAIN <<a, b>> = {1, 2}
      /\ <<a, b>>[1] = a /\ <<a, b>>[2] = b
  BY <1>1, PairIs
<1> QED BY <1>2, <1>3 DEF a, b

LEMMA OneMoreField ==
    ASSUME NEW f, NEW S, Retained(f, S), NEW field \in Texts
    PROVE  Retained(Dedup(f, field), S \cup {field})
<1>1. CASE field \in Range(f)
  BY <1>1 DEF Retained, Dedup
<1>2. CASE field \notin Range(f)
  <2> DEFINE a == Append(f, field)
  <2>1. f \in Seq(Texts) /\ Len(f) \in Nat /\ Len(f) >= 2 /\ DOMAIN f = 1 .. Len(f)
    BY LenProperties DEF Retained
  <2>2. /\ a \in Seq(Texts) /\ Len(a) = Len(f) + 1 /\ a[Len(f) + 1] = field
        /\ \A i \in 1 .. Len(f) : a[i] = f[i]
    BY <2>1, AppendProperties
  <2>3. DOMAIN a = DOMAIN f \cup {Len(f) + 1}
    BY <2>1, <2>2, LenProperties
  <2>4. Range(a) = Range(f) \cup {field}
    BY <2>1, AppendsTo
  <2>5. Dedup(f, field) = a
    BY <1>2 DEF Dedup
  <2> HIDE DEF a
  <2>6. \A i \in DOMAIN f : a[i] = f[i] /\ f[i] # field
    BY <1>2, <2>1, <2>2 DEF Range
  <2>7. IsInjective(a)
    BY <2>2, <2>3, <2>6 DEF IsInjective, Retained
  <2>8. a[1] = "type" /\ a[2] = "allocated_size" /\ Len(a) >= 2
    BY <2>1, <2>2 DEF Retained
  <2> QED BY <2>2, <2>4, <2>5, <2>7, <2>8 DEF Retained
<1> QED BY <1>1, <1>2

LEMMA FieldsAreRetained ==
    ASSUME NEW s \in Seq(STRING)
    PROVE  Retained(FoldLeft(LAMBDA fields, field : IF field \in Range(fields) THEN fields
                                                    ELSE Append(fields, field),
                             <<"type", "allocated_size">>, s), Range(s))
<1> DEFINE n == Len(s)
           X == Seq(Texts)
           step == [k \in 1 .. n |-> [f \in X |-> Dedup(f, s[k])]]
           g == CHOOSE h : IsRetaining(h, s)
           told(k) == {s[j] : j \in 1 .. k}
<1>1. n \in Nat /\ DOMAIN s = 1 .. n /\ \A k \in 1 .. n : s[k] \in Texts
  <2>1. n \in Nat /\ DOMAIN s = 1 .. n /\ \A k \in 1 .. n : s[k] \in STRING
    BY LenProperties, ElementOfSeq
  <2> QED BY <2>1 DEF Texts
<1> HIDE DEF n
<1>2. AlwaysRead \in X /\ step \in [1 .. n -> [X -> X]]
  <2>1. \A f \in X, field \in Texts : Dedup(f, field) \in X
    BY AppendProperties DEF Dedup
  <2>2. AlwaysRead \in X
    BY AlwaysReadIs
  <2> HIDE DEF X
  <2> QED BY <1>1, <2>1, <2>2
<1> HIDE DEF X, step
<1>3. PICK h \in [SUBSET (1 .. n) -> X] : Runs(h, step, AlwaysRead, n)
  BY <1>1, <1>2, RunsExist
<1>4. IsRetaining(h, s)
  <2>1. \A T \in SUBSET (1 .. n) : T # {} => Largest(T) \in 1 .. n /\ h[T \ {Largest(T)}] \in X
    BY <1>1, LargestIsIn
  <2>2. \A T \in SUBSET (1 .. n) :
           h[T] = IF T = {} THEN AlwaysRead ELSE Dedup(h[T \ {Largest(T)}], s[Largest(T)])
    BY <1>3, <2>1 DEF Runs, step
  <2> QED BY <1>1, <2>2 DEF IsRetaining
<1>5. IsRetaining(g, s)
  BY <1>4
<1>6. FoldLeft(LAMBDA fields, field : IF field \in Range(fields) THEN fields ELSE Append(fields, field),
               <<"type", "allocated_size">>, s) = g[DOMAIN s]
  BY DEF FoldLeft, MapThenFoldSet, IsRetaining, Dedup, AlwaysRead, Largest, Max
<1> HIDE DEF g
<1>7. \A T \in SUBSET (1 .. n) :
         g[T] = IF T = {} THEN AlwaysRead ELSE Dedup(g[T \ {Largest(T)}], s[Largest(T)])
  BY <1>1, <1>5 DEF IsRetaining
<1> DEFINE Done == {k \in Nat : k <= n => Retained(g[1 .. k], told(k))}
<1>8. 0 \in Done
  <2>1. g[1 .. 0] = AlwaysRead
    BY <1>7, LargestIsLast
  <2>2. told(0) = {}
    OBVIOUS
  <2>3. /\ AlwaysRead \in Seq(Texts) /\ Len(AlwaysRead) = 2 /\ DOMAIN AlwaysRead = {1, 2}
        /\ AlwaysRead[1] = "type" /\ AlwaysRead[2] = "allocated_size"
    BY AlwaysReadIs
  <2>4. "type" # "allocated_size"
    OBVIOUS
  <2>5. IsInjective(AlwaysRead) /\ Range(AlwaysRead) = {"type", "allocated_size"}
    BY <2>3, <2>4 DEF IsInjective, Range
  <2>6. Retained(AlwaysRead, {})
    BY <2>3, <2>5 DEF Retained
  <2> HIDE DEF told
  <2> QED BY <2>1, <2>2, <2>6
<1>9. ASSUME NEW k \in Nat, k \in Done PROVE k + 1 \in Done
  <2> SUFFICES ASSUME k + 1 <= n PROVE Retained(g[1 .. k + 1], told(k + 1))
    OBVIOUS
  <2>1. k + 1 \in 1 .. n /\ 1 .. k + 1 \in SUBSET (1 .. n)
    BY <1>1
  <2>2. /\ Largest(1 .. k + 1) = k + 1 /\ (1 .. k + 1) \ {k + 1} = 1 .. k
        /\ 1 .. k + 1 # {}
    BY LargestIsLast
  <2>3. g[1 .. k + 1] = Dedup(g[1 .. k], s[k + 1])
    BY <1>7, <2>1, <2>2
  <2>4. told(k + 1) = told(k) \cup {s[k + 1]}
    BY <2>1
  <2> HIDE DEF told
  <2>5. Retained(g[1 .. k], told(k)) /\ s[k + 1] \in Texts
    BY <1>1, <1>9, <2>1
  <2>6. Retained(Dedup(g[1 .. k], s[k + 1]), told(k) \cup {s[k + 1]})
    BY <2>5, OneMoreField
  <2> QED BY <2>3, <2>4, <2>6
<1>10. Nat \subseteq Done
  <2> HIDE DEF Done
  <2> QED BY <1>8, <1>9, Induction
<1>11. Retained(g[1 .. n], told(n))
  <2> HIDE DEF told
  <2> QED BY <1>1, <1>10
<1>12. told(n) = Range(s)
  BY <1>1 DEF Range
<1> HIDE DEF told
<1> QED BY <1>1, <1>6, <1>11, <1>12

\* What parsing keeps: the words read so far are understood, and an outcome is
\* what the whole line deserves.
CommandInv ==
    /\ Positions /\ Given(cli) /\ Means(cli, read)
    /\ outcome = "refused" => Mistaken
    /\ outcome \in {"help", "launched"} => /\ read = Len(words)
                                           /\ (outcome = "help") = (cli["help"] = TRUE)
    /\ outcome = "launched" => Retained(scan_fields, Range(cli["fields"]))

LEMMA CommandBegins == InitCommand => CommandInv
<1> SUFFICES ASSUME InitCommand PROVE CommandInv
  OBVIOUS
<1>1. words \in Seq(STRING) /\ read = 0 /\ outcome = "parsing" /\ Len(words) \in Nat
  BY CommandsAssumption, LenProperties DEF InitCommand
<1>2. cli = [option \in Optional |->
               IF option \in Flags THEN FALSE ELSE IF option = "fields" THEN <<>> ELSE UNSET]
  BY DEF InitCommand, Optional
<1>3. Positions
  BY <1>1, ValueOrNot DEF Positions
<1>4. Given(cli)
  BY <1>2 DEF Given
<1>5. /\ \A o \in Flags : cli[o] = FALSE
      /\ \A o \in Valued \ {"fields"} : cli[o] = UNSET
      /\ cli["fields"] = <<>> /\ cli["root"] = UNSET
  <2>1. Flags \subseteq Optional /\ Valued \subseteq Optional /\ "root" \in Optional /\ "fields" \in Optional
    BY OptionKinds DEF Optional
  <2>2. "root" \notin Flags /\ "fields" \notin Flags /\ "root" # "fields" /\ Flags \cap Valued = {}
    BY OptionKinds
  <2> QED BY <1>2, <2>1, <2>2
<1>6. (\A o \in DOMAIN Spellings : UsesTo(o, 0) = {}) /\ RootsTo(0) = {}
  <2>1. \A k \in Standing : k \in Nat /\ ~ (k <= 0)
    BY <1>1, LenProperties DEF Standing
  <2> QED BY <2>1 DEF UsesTo, Uses, RootsTo, RootWords
<1>7. \A o \in Flags \cup Valued : UsesTo(o, 0) = {}
  BY <1>6, OptionKinds
<1>8. FieldsMean(cli, 0)
  <2>1. <<>> \in Seq(STRING) /\ Range(<<>>) = {}
    BY EmptySeq DEF Range
  <2> QED BY <1>5, <1>7, <2>1, OptionKinds DEF FieldsMean
<1>9. Means(cli, 0)
  BY <1>5, <1>6, <1>7, <1>8 DEF Means, FlagsMean, ValuesSuit, ValuesMean, RootsMean
<1> QED BY <1>1, <1>3, <1>4, <1>9 DEF CommandInv

\* The line does not change.
LEMMA SameLine ==
    ASSUME words' = words
    PROVE  /\ \A k \in Nat \ {0} : IsValue(k)' <=> IsValue(k)
           /\ \A option \in DOMAIN Spellings : Uses(option)' = Uses(option)
           /\ RootWords' = RootWords /\ Standing' = Standing /\ Mistaken' = Mistaken
<1>1. \A k : IsValue(k)' <=> IsValue(k)
  BY DEF IsValue
<1>2. Standing' = Standing
  BY <1>1 DEF Standing
<1>3. \A option : Uses(option)' = Uses(option)
  BY <1>2 DEF Uses
<1>4. RootWords' = RootWords
  BY <1>2 DEF RootWords
<1>5. Mistaken' = Mistaken
  BY <1>3, <1>4 DEF Mistaken
<1> QED BY <1>1, <1>2, <1>3, <1>4, <1>5

LEMMA SameMeaning ==
    ASSUME words' = words, read' \in Nat, ~ IsValue(read' + 1), read' \in 0 .. Len(words), words \in Seq(STRING),
           Given(cli'), Means(cli', read')
    PROVE  Positions' /\ Given(cli)' /\ Means(cli, read)'
<1>1. /\ \A k \in Nat \ {0} : IsValue(k)' <=> IsValue(k)
      /\ \A option \in DOMAIN Spellings : Uses(option)' = Uses(option)
      /\ RootWords' = RootWords
  BY SameLine
<1>2. Positions'
  BY <1>1 DEF Positions
<1>3. Given(cli)'
  BY DEF Given
<1>4. /\ \A option \in DOMAIN Spellings : {k \in Uses(option) : k <= read'} = {k \in Uses(option)' : k <= read'}
      /\ {k \in RootWords : k <= read'} = {k \in RootWords' : k <= read'}
  BY <1>1
<1>5. FlagsMean(cli, read)'
  BY <1>4, OptionKinds DEF FlagsMean, Means, UsesTo
<1>6. ValuesSuit(read)'
  BY <1>4, OptionKinds DEF ValuesSuit, Means, UsesTo
<1>7. ValuesMean(cli, read)'
  BY <1>4, OptionKinds DEF ValuesMean, Told, Means, UsesTo
<1>8. FieldsMean(cli, read)'
  BY <1>4, OptionKinds DEF FieldsMean, Means, UsesTo
<1>9. RootsMean(cli, read)'
  BY <1>4 DEF RootsMean, Means, RootsTo
<1> QED BY <1>2, <1>3, <1>5, <1>6, <1>7, <1>8, <1>9 DEF Means

LEMMA FirstTwo ==
    ASSUME NEW X, NEW s \in Seq(X), Len(s) >= 2
    PROVE  SubSeq(s, 1, 2) = <<s[1], s[2]>>
<1>1. SubSeq(s, 1, 2) = [i \in 1 .. 2 |-> s[i]]
  BY LenProperties
<1>2. <<s[1], s[2]>> = [i \in 1 .. 2 |-> s[i]]
  OBVIOUS
<1> QED BY <1>1, <1>2

LEMMA ArgumentKept == CommandInv /\ ParseArgument => CommandInv'
<1> SUFFICES ASSUME CommandInv, ParseArgument PROVE CommandInv'
  OBVIOUS
<1>1. /\ outcome = "parsing" /\ read < Len(words) /\ words' = words /\ outcome' = outcome
      /\ Positions /\ Given(cli) /\ Means(cli, read)
  BY DEF ParseArgument, CommandInv
<1>2. words \in Seq(STRING) /\ read \in Nat /\ read + 1 \in Nat /\ read + 2 \in Nat
  BY <1>1, LenProperties DEF Positions
<1>3. /\ ~ IsValue(read' + 1) /\ read' \in 0 .. Len(words) /\ read' \in Nat
      /\ Given(cli') /\ Means(cli', read')
  <2>1. ASSUME NEW option \in Options(Word), ParseFlag(option)
        PROVE  ~ IsValue(read' + 1) /\ read' \in 0 .. Len(words) /\ Given(cli') /\ Means(cli', read')
    <3>1. option \in Flags /\ cli' = [cli EXCEPT ![option] = TRUE] /\ read' = read + 1
      BY <2>1 DEF ParseFlag
    <3>2. LET c == [cli EXCEPT ![option] = TRUE]
          IN ~ IsValue(read + 2) /\ read + 1 \in 0 .. Len(words) /\ Given(c) /\ Means(c, read + 1)
      BY <1>1, <2>1, <3>1, FlagMeans DEF Word
    <3>3. (read + 1) + 1 = read + 2
      BY <1>2
    <3> QED BY <3>1, <3>2, <3>3
  <2>2. ASSUME NEW option \in Options(Word), ParseValued(option)
        PROVE  ~ IsValue(read' + 1) /\ read' \in 0 .. Len(words) /\ Given(cli') /\ Means(cli', read')
    <3> DEFINE value == words[read + 2]
               c == [cli EXCEPT ![option] = CASE option = "fields" -> Append(@, value)
                                              [] option \in Paths -> value
                                              [] OTHER -> Numbers[value]]
    <3>1. /\ option \in Valued /\ HasValue(read + 1) /\ Suits(option, words[read + 2])
          /\ cli' = c /\ read' = read + 2
      BY <2>2 DEF ParseValued
    <3>2. ~ IsValue(read + 3) /\ read + 2 \in 0 .. Len(words) /\ Given(c) /\ Means(c, read + 2)
      BY <1>1, <2>2, <3>1, ValueMeans DEF Word
    <3>3. (read + 2) + 1 = read + 3
      BY <1>2
    <3> HIDE DEF c
    <3> QED BY <3>1, <3>2, <3>3
  <2>3. ASSUME ParseRoot
        PROVE  ~ IsValue(read' + 1) /\ read' \in 0 .. Len(words) /\ Given(cli') /\ Means(cli', read')
    <3> DEFINE c == [cli EXCEPT !["root"] = words[read + 1]]
    <3>1. /\ Options(words[read + 1]) = {} /\ words[read + 1] \notin Dashed /\ cli["root"] = UNSET
          /\ cli' = c /\ read' = read + 1
      BY <2>3 DEF ParseRoot, Word
    <3>2. ~ IsValue(read + 2) /\ read + 1 \in 0 .. Len(words) /\ Given(c) /\ Means(c, read + 1)
      BY <1>1, <3>1, RootMeans
    <3>3. (read + 1) + 1 = read + 2
      BY <1>2
    <3> HIDE DEF c
    <3> QED BY <3>1, <3>2, <3>3
  <2>4. read' \in 0 .. Len(words) => read' \in Nat
    BY <1>2, LenProperties
  <2> QED BY <2>1, <2>2, <2>3, <2>4 DEF ParseArgument
<1>4. Positions' /\ Given(cli)' /\ Means(cli, read)'
  BY <1>1, <1>2, <1>3, SameMeaning
<1> QED BY <1>1, <1>4 DEF CommandInv

LEMMA RefusalKept == CommandInv /\ RefuseArgument => CommandInv'
<1> SUFFICES ASSUME CommandInv, RefuseArgument PROVE CommandInv'
  OBVIOUS
<1> DEFINE k == read + 1
<1>1. /\ read < Len(words) /\ words' = words /\ outcome' = "refused" /\ read' = read /\ cli' = cli
      /\ Positions /\ Given(cli) /\ Means(cli, read)
  BY DEF RefuseArgument, CommandInv
<1>2. /\ words \in Seq(STRING) /\ read \in Nat /\ read \in 0 .. Len(words) /\ ~ IsValue(k)
      /\ k \in DOMAIN words /\ DOMAIN words = 1 .. Len(words) /\ Len(words) \in Nat
  BY <1>1, LenProperties DEF Positions
<1>3. k \in Standing
  BY <1>2 DEF Standing
<1>4. Mistaken
  <2>1. ASSUME NEW option \in Options(Word) \cap Valued, ~ (HasValue(k) /\ Suits(option, words[read + 2]))
        PROVE  Mistaken
    <3>1. k \in Uses(option) /\ read + 2 = k + 1
      BY <1>2, <1>3, <2>1 DEF Uses, Options, Word
    <3>2. words[read + 2] = words[k + 1] /\ k <= Len(words) /\ k \in Nat
      BY <1>2, <3>1
    <3> HIDE DEF k
    <3>3. CASE k < Len(words)
      BY <2>1, <3>1, <3>2, <3>3 DEF HasValue, Mistaken
    <3>4. CASE ~ (k < Len(words))
      <4>1. k = Len(words)
        BY <1>2, <3>2, <3>4
      <4> QED BY <3>1, <4>1 DEF Mistaken
    <3> QED BY <3>3, <3>4
  <2>2. ASSUME Options(Word) = {}, Word \in Dashed PROVE Mistaken
    <3>1. k \in RootWords
      BY <1>3, <2>2 DEF RootWords, Word
    <3> QED BY <2>2, <3>1 DEF Mistaken, Word
  <2>3. ASSUME Options(Word) = {}, cli["root"] # UNSET PROVE Mistaken
    <3>1. k \in RootWords
      BY <1>3, <2>3 DEF RootWords, Word
    <3>2. PICK j \in RootWords : j <= read
      BY <1>1, <2>3 DEF Means, RootsMean, RootsTo
    <3>3. IsFiniteSet(RootWords)
      <4>1. RootWords \in SUBSET (1 .. Len(words)) /\ IsFiniteSet(1 .. Len(words))
        BY <1>2, FS_Interval DEF RootWords, Standing
      <4> QED BY <4>1, FS_Subset
    <3>4. {j, k} \in SUBSET RootWords /\ j # k
      BY <1>2, <3>1, <3>2
    <3> HIDE DEF k
    <3>5. Cardinality({j, k}) = 2
      <4>1. IsFiniteSet({j}) /\ Cardinality({j}) = 1
        BY FS_Singleton
      <4>2. Cardinality({j} \cup {k}) = Cardinality({j}) + 1
        BY <3>4, <4>1, FS_AddElement
      <4>3. {j, k} = {j} \cup {k}
        OBVIOUS
      <4> QED BY <4>1, <4>2, <4>3
    <3>6. Cardinality({j, k}) <= Cardinality(RootWords) /\ Cardinality(RootWords) \in Nat
      BY <3>3, <3>4, FS_Subset, FS_CardinalityType
    <3>7. Cardinality(RootWords) > 1
      BY <3>5, <3>6
    <3> QED BY <3>7 DEF Mistaken
  <2> QED BY <2>1, <2>2, <2>3 DEF RefuseArgument
<1>5. Mistaken'
  BY <1>1, <1>4, SameLine
<1>6. Positions' /\ Given(cli)' /\ Means(cli, read)'
  <2>1. read + 1 = read' + 1 /\ read' \in Nat
    BY <1>1, <1>2
  <2> QED BY <1>1, <1>2, <2>1, SameMeaning
<1> QED BY <1>1, <1>5, <1>6 DEF CommandInv

LEMMA LaunchKept == CommandInv /\ Launched => CommandInv'
<1> SUFFICES ASSUME CommandInv, Launched PROVE CommandInv'
  OBVIOUS
<1>1. /\ words' = words /\ read' = read /\ cli' = cli /\ read = Len(words)
      /\ Positions /\ Given(cli) /\ Means(cli, read)
  BY DEF Launched, CommandInv
<1>2. words \in Seq(STRING) /\ read \in Nat /\ read \in 0 .. Len(words) /\ ~ IsValue(read + 1)
  BY <1>1, LenProperties DEF Positions
<1>3. Positions' /\ Given(cli)' /\ Means(cli, read)'
  <2>1. read + 1 = read' + 1 /\ read' \in Nat
    BY <1>1, <1>2
  <2> QED BY <1>1, <1>2, <2>1, SameMeaning
<1>4. cli["help"] \in BOOLEAN /\ cli["fields"] \in Seq(STRING)
  BY <1>1, OptionKinds DEF Means, FlagsMean, FieldsMean
<1>5. CASE cli["help"]
  <2>1. outcome' = "help"
    BY <1>5 DEF Launched
  <2> QED BY <1>1, <1>3, <1>5, <2>1 DEF CommandInv
<1>6. CASE ~ cli["help"]
  <2> DEFINE s == cli["fields"]
             told == FoldLeft(LAMBDA fields, field : IF field \in Range(fields) THEN fields
                                                     ELSE Append(fields, field),
                              <<"type", "allocated_size">>, s)
  <2>1. outcome' = "launched" /\ scan_fields' = told
    BY <1>6 DEF Launched
  <2>2. Retained(told, Range(s))
    BY <1>4, FieldsAreRetained
  <2> HIDE DEF told
  <2>3. Retained(scan_fields', Range(cli'["fields"]))
    BY <1>1, <2>1, <2>2
  <2>4. Retained(scan_fields, Range(cli["fields"]))'
    BY <2>3 DEF Retained
  <2> QED BY <1>1, <1>3, <1>6, <2>1, <2>4 DEF CommandInv
<1> QED BY <1>4, <1>5, <1>6

LEMMA CommandStep == CommandInv /\ [NextCommand]_command => CommandInv'
<1> SUFFICES ASSUME CommandInv, [NextCommand]_command PROVE CommandInv'
  OBVIOUS
<1>1. CASE UNCHANGED command
  <2>1. /\ words' = words /\ read' = read /\ cli' = cli /\ outcome' = outcome /\ scan_fields' = scan_fields
        /\ Positions /\ Given(cli) /\ Means(cli, read)
    BY <1>1 DEF command, CommandInv
  <2>2. words \in Seq(STRING) /\ read \in Nat /\ read \in 0 .. Len(words) /\ ~ IsValue(read + 1)
    BY <2>1, LenProperties DEF Positions
  <2>3. Positions' /\ Given(cli)' /\ Means(cli, read)'
    <3>1. read + 1 = read' + 1 /\ read' \in Nat
      BY <2>1, <2>2
    <3> QED BY <2>1, <2>2, <3>1, SameMeaning
  <2>4. Mistaken' = Mistaken
    BY <2>1, SameLine
  <2>5. Retained(scan_fields, Range(cli["fields"]))' <=> Retained(scan_fields, Range(cli["fields"]))
    BY <2>1 DEF Retained
  <2> QED BY <2>1, <2>3, <2>4, <2>5 DEF CommandInv
<1> QED BY <1>1, ArgumentKept, RefusalKept, LaunchKept DEF NextCommand

(***************************************************************************)
(* For every line of words, whatever the order of its options: essm        *)
(* refuses it if and only if there is a mistake in it, and otherwise       *)
(* understands each word as the whole line says, the last of several       *)
(* values winning (parse_arguments of main.rs).                            *)
(***************************************************************************)
THEOREM LinesAreUnderstood == CommandSpec => []ArgumentsMeanWhatTheySay
<1>1. CommandInv => ArgumentsMeanWhatTheySay
  <2> SUFFICES ASSUME CommandInv PROVE ArgumentsMeanWhatTheySay
    OBVIOUS
  <2>1. /\ Positions /\ Means(cli, read) /\ (outcome = "refused" => Mistaken)
        /\ outcome \in {"help", "launched"} => /\ read = Len(words)
                                               /\ (outcome = "help") = (cli["help"] = TRUE)
        /\ outcome = "launched" => Retained(scan_fields, Range(cli["fields"]))
    BY DEF CommandInv
  <2>2. ASSUME read = Len(words)
        PROVE  /\ \A option \in DOMAIN Spellings : UsesTo(option, read) = Uses(option)
               /\ RootsTo(read) = RootWords
    <3>1. \A k \in Standing : k <= read
      BY <2>1, <2>2, LenProperties DEF Positions, Standing
    <3> QED BY <3>1 DEF UsesTo, RootsTo, Uses, RootWords
  <2>3. ASSUME read = Len(words) PROVE ~ Mistaken
    <3>1. ~ \E option \in Valued : \E k \in Uses(option) : k = Len(words) \/ ~ Suits(option, words[k + 1])
      <4>1. ASSUME NEW option \in Valued, NEW k \in Uses(option)
            PROVE  k # Len(words) /\ Suits(option, words[k + 1])
        <5>1. k \in UsesTo(option, read)
          BY <2>2, <2>3, OptionKinds
        <5>2. k < Len(words) /\ Suits(option, words[k + 1])
          BY <2>1, <5>1 DEF Means, ValuesSuit
        <5>3. k \in Nat /\ Len(words) \in Nat
          BY <2>1, LenProperties DEF Positions, Uses, Standing
        <5> QED BY <5>2, <5>3
      <4> QED BY <4>1
    <3>2. ~ \E k \in RootWords : words[k] \in Dashed
      BY <2>1, <2>2, <2>3 DEF Means, RootsMean
    <3>3. ~ (Cardinality(RootWords) > 1)
      <4>1. \A j, k \in RootWords : j = k
        BY <2>1, <2>2, <2>3 DEF Means, RootsMean
      <4>2. CASE RootWords = {}
        <5>1. Cardinality(RootWords) = 0
          BY <4>2, FS_EmptySet
        <5> QED BY <5>1
      <4>3. CASE RootWords # {}
        <5>1. PICK j : RootWords = {j}
          BY <4>1, <4>3
        <5>2. Cardinality(RootWords) = 1
          BY <5>1, FS_Singleton
        <5> QED BY <5>2
      <4> QED BY <4>2, <4>3
    <3> QED BY <3>1, <3>2, <3>3 DEF Mistaken
  <2>4. ASSUME outcome \in {"help", "launched"}
        PROVE  /\ \A option \in Flags : cli[option] = (Uses(option) # {})
               /\ cli["root"] = (IF RootWords = {} THEN UNSET ELSE words[Max(RootWords)])
               /\ \A option \in Valued \ {"fields"} :
                    cli[option] = IF Uses(option) = {} THEN UNSET
                                  ELSE IF option \in Paths THEN words[Max(Uses(option)) + 1]
                                  ELSE Numbers[words[Max(Uses(option)) + 1]]
    <3>1. read = Len(words)
      BY <2>1, <2>4
    <3>2. FlagsMean(cli, read) /\ RootsMean(cli, read) /\ ValuesMean(cli, read)
      BY <2>1 DEF Means
    <3> QED BY <2>2, <3>1, <3>2, OptionKinds DEF FlagsMean, RootsMean, ValuesMean, Told
  <2>5. ASSUME outcome \in {"help", "launched"} PROVE (outcome = "help") = cli["help"]
    BY <2>1, <2>4, <2>5, OptionKinds
  <2>6. ASSUME outcome = "launched"
        PROVE  /\ IsInjective(scan_fields)
               /\ Range(scan_fields) = {"type", "allocated_size"} \cup {words[k + 1] : k \in Uses("fields")}
               /\ SubSeq(scan_fields, 1, 2) = <<"type", "allocated_size">>
    <3>1. Retained(scan_fields, Range(cli["fields"])) /\ read = Len(words)
      BY <2>1, <2>6
    <3>2. Range(cli["fields"]) = {words[k + 1] : k \in UsesTo("fields", read)}
      BY <2>1 DEF Means, FieldsMean
    <3>3. UsesTo("fields", read) = Uses("fields")
      BY <2>2, <3>1, OptionKinds
    <3>4. SubSeq(scan_fields, 1, 2) = <<"type", "allocated_size">>
      BY <3>1, FirstTwo DEF Retained
    <3> QED BY <3>1, <3>2, <3>3, <3>4 DEF Retained
  <2> QED BY <2>1, <2>3, <2>4, <2>5, <2>6 DEF ArgumentsMeanWhatTheySay
<1> QED BY <1>1, CommandBegins, CommandStep, PTL DEF CommandSpec
=============================================================================
