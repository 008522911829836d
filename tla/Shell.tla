------------------------------- MODULE Shell -------------------------------
(***************************************************************************)
(* The desktop program around the scan (desktop/src/main.rs): the setup    *)
(* form, the scan that runs, the messages of the runtime, the recording of *)
(* frames and the tour of screenshots.  The iced runtime is external: it   *)
(* keeps one queue of messages, runs the subscriptions update leaves, and  *)
(* takes a screenshot some time after it is asked.                         *)
(***************************************************************************)
EXTENDS FrameWriter, FiniteSets

CONSTANTS
    Roots,             \* what may be typed into the form
    Canonical,         \* [Roots -> the directory it names, or NO_ROOT]
    NO_ROOT,
    AUTOSHOT_STEPS,    \* stops of the tour: [tab, dark, deep]
    WARMUP,            \* ticks before the tour
    DARK,              \* the mode asked for, or that of the system
    TABS, PHASES,      \* tabs the user opens, phases in which a scan ends
    SECONDS,           \* lengths of the pauses between two frames
    MaxEvents, MaxTicks, MaxFrames, MaxTouches    \* bounds for TLC

ASSUME RootsAssumption == Canonical \in [Roots -> Roots \cup {NO_ROOT}]
ASSUME PhasesAssumption == PHASES \subseteq {"complete", "incomplete", "fatal", "disconnected"}

Tabs == {"Treemap", "Sunburst", "Graph", "Diagnostics"}
ASSUME TabsAssumption == TABS \subseteq Tabs
ASSUME StepsAssumption == AUTOSHOT_STEPS # <<>> /\ AUTOSHOT_STEPS \in Seq([tab : Tabs, dark : BOOLEAN, deep : BOOLEAN])
\* Stops that descend to a leaf come last: no later stop returns to the root.
ASSUME DeepStopsComeLast ==
    \A i, j \in DOMAIN AUTOSHOT_STEPS : i < j /\ AUTOSHOT_STEPS[i].deep => AUTOSHOT_STEPS[j].deep
ASSUME WarmupAssumption == WARMUP \in Nat
ASSUME DarkAssumption == DARK \in BOOLEAN
ASSUME SecondsAssumption == SECONDS \subseteq Nat

VARIABLES
    screen,          \* "Setup" or "Running"
    root, error,     \* of the setup form
    scan,            \* the configuration of the scan, or NoScan
    generation,
    model,           \* of ScanModel: [shown, phase, tab, deep]; "shown" is the
                     \* generation of the last event applied, 0 for none;
                     \* "deep" is a focus that has moved away from the root
    dark,
    plan,            \* Autoshot, or NoPlan
    recording,       \* Recording, or NoRecording
    streams,         \* generations whose backend stream runs
    ended,           \* those whose worker has told the end of its scan
    mailbox,         \* messages of the runtime not yet handled
    requests,        \* screenshots asked for and not yet taken
    shots,           \* of the tour: [stop, picture], in the order they were saved
    tour,            \* what became of the view since the tour began, see NoTour
    closed,          \* the user closed the window
    status           \* "launching", "up", "finishing" (waits for the writer),
                     \* "leaving" (to exit), "gone"

form == <<screen, root, error, scan, generation>>
capture == <<plan, recording>>
runtime == <<streams, ended, mailbox, requests>>
window == <<tour, closed, status>>
vars == <<form, model, dark, capture, runtime, shots, window, writer>>

NoScan == [generation |-> 0, root |-> NO_ROOT]
NoPlan == [step |-> 0, armed |-> FALSE, warmup |-> 0]
NoRecording == [capturing |-> FALSE, since |-> -2]
\* For the properties: the last stop arranged; whether nobody changed the view
\* since, and nobody ever moved the focus; the screenshots that were asked for
\* while another was due; and how often the user changed the view, a bound.
NoTour == [arranged |-> 0, kept |-> FALSE, moved |-> FALSE, surplus |-> 0, touches |-> 0]
Terminals == {"complete", "incomplete", "fatal", "disconnected"}
NewModel == [shown |-> 0, phase |-> "starting", tab |-> "Treemap", deep |-> FALSE]

Tick == [kind |-> "tick"]
Shot(picture) == [kind |-> "shot", picture |-> picture]
Backend(g, phase) == [kind |-> "backend", generation |-> g, phase |-> phase]
-----------------------------------------------------------------------------
(* Starting scans.                                                         *)

\* start_scan.  The two checks look at the file system.
StartScan ==
    \/ /\ Canonical[root] = NO_ROOT                         \* sanitized_root
       /\ error' = TRUE /\ UNCHANGED <<screen, root, scan, generation, model>>
    \/ /\ Canonical[root] # NO_ROOT                         \* validate_project
       /\ root' = Canonical[root] /\ error' = TRUE
       /\ UNCHANGED <<screen, scan, generation, model>>
    \/ /\ Canonical[root] # NO_ROOT
       /\ root' = Canonical[root] /\ error' = FALSE
       /\ generation' = generation + 1
       /\ scan' = [generation |-> generation + 1, root |-> Canonical[root]]
       /\ model' = NewModel /\ screen' = "Running"

Init ==
    /\ screen = "Setup" /\ root \in Roots /\ error = FALSE
    /\ scan = NoScan /\ generation = 0 /\ model = NewModel
    /\ dark = DARK
    /\ plan \in {NoPlan, [step |-> 1, armed |-> FALSE, warmup |-> WARMUP]}
    /\ recording \in {NoRecording, [capturing |-> FALSE, since |-> -1]}
    /\ streams = {} /\ ended = {} /\ mailbox = <<>> /\ requests = 0
    /\ shots = <<>> /\ tour = NoTour /\ closed = FALSE /\ status = "launching"
    /\ InitWriter(recording # NoRecording)

TrackedKeepsOldBug == streams' = IF scan' = NoScan THEN streams ELSE streams \cup {scan'.generation}

\* subscription, after each message: one stream, keyed by the configuration of
\* the scan.
Tracked == streams' = IF scan' = NoScan THEN {} ELSE {scan'.generation}

\* DesktopApp::new: a ROOT on the command line starts a scan.
Launch ==
    /\ status = "launching" /\ status' = "up"
    /\ \/ StartScan
       \/ UNCHANGED <<form, model>>
    /\ Tracked /\ UNCHANGED <<dark, capture, ended, requests, mailbox, shots, tour, closed, writer>>

\* What the user does, on a tour as well.
UserMay == status = "up"
UserIdle == UNCHANGED <<capture, ended, requests, mailbox, shots, closed, status, writer>>
Touched(focus) ==
    /\ tour.touches < MaxTouches
    /\ tour' = [tour EXCEPT !.kept = FALSE, !.moved = @ \/ focus, !.touches = @ + 1]

RootChanged ==
    /\ UserMay /\ screen = "Setup"
    /\ \E r \in Roots : r # root /\ root' = r
    /\ UNCHANGED <<screen, error, scan, generation, model, dark, streams, tour>> /\ UserIdle

PressStart ==
    /\ UserMay /\ screen = "Setup"
    /\ StartScan /\ Tracked /\ Touched(FALSE) /\ UNCHANGED dark /\ UserIdle

NewScan ==
    /\ UserMay /\ screen = "Running"
    /\ scan' = NoScan /\ screen' = "Setup"
    /\ UNCHANGED <<root, error, generation, model, dark>> /\ Tracked /\ Touched(FALSE) /\ UserIdle

TabSelected ==
    /\ UserMay /\ screen = "Running"
    /\ \E tab \in TABS : tab # model.tab /\ model' = [model EXCEPT !.tab = tab]
    /\ UNCHANGED <<form, dark, streams>> /\ Touched(FALSE) /\ UserIdle

ThemeToggled ==
    /\ UserMay /\ dark' = ~ dark
    /\ UNCHANGED <<form, model, streams>> /\ Touched(FALSE) /\ UserIdle

\* focus_directory, on the root of the scan or below it.
FocusDirectory ==
    /\ UserMay /\ screen = "Running"
    /\ \E deep \in BOOLEAN : deep # model.deep /\ model' = [model EXCEPT !.deep = deep]
    /\ UNCHANGED <<form, dark, streams>> /\ Touched(TRUE) /\ UserIdle

\* iced exits when its only window is closed.
CloseWindow ==
    /\ UserMay /\ closed' = TRUE /\ status' = "leaving"
    /\ UNCHANGED <<form, model, dark, capture, runtime, shots, tour, writer>>
-----------------------------------------------------------------------------
(* The runtime.                                                            *)

Post(message) == mailbox' = Append(mailbox, message)
Posted(kind) == Cardinality({k \in DOMAIN mailbox : mailbox[k].kind = kind})
Pending == requests + Posted("shot")
RuntimeOnly == UNCHANGED <<form, model, dark, capture, streams, shots, window, writer>>

\* subscription: one metronome, of the recording if there is one.  It does not
\* wait for the answers to its ticks.  MaxTicks bounds
\* them, and MaxFrames the frames before a terminal phase.
MetronomeTicks ==
    /\ Posted("tick") < MaxTicks /\ Pending <= MaxTicks /\ status = "up"
    /\ \/ plan # NoPlan /\ recording = NoRecording
       \/ recording # NoRecording /\ (model.phase \in Terminals \/ frames + dropped < MaxFrames)
    /\ Post(Tick) /\ UNCHANGED <<ended, requests>> /\ RuntimeOnly

\* backend_stream forwards an event of the worker of its own scan; Desktop
\* says which events follow which.
StreamForwards ==
    /\ Posted("backend") < MaxEvents
    /\ \E g \in streams \ ended, phase \in PHASES \cup {"running"} :
         /\ Post(Backend(g, phase))
         /\ ended' = IF phase \in Terminals THEN ended \cup {g} ELSE ended
    /\ UNCHANGED requests /\ RuntimeOnly

\* view: the form or the model.
View == IF screen = "Setup" THEN [tab |-> "Setup", dark |-> dark, deep |-> FALSE]
                            ELSE [tab |-> model.tab, dark |-> dark, deep |-> model.deep]

\* iced::window::screenshot shows the window as it is now.
TakeScreenshot ==
    /\ requests > 0 /\ requests' = requests - 1
    /\ Post(Shot([window |-> View, scanned |-> scan # NoScan, arranged |-> tour.arranged, kept |-> tour.kept]))
    /\ UNCHANGED ended /\ RuntimeOnly

-----------------------------------------------------------------------------
(* update, one message after another.                                      *)

Receive(kind) == status \in {"up", "leaving"} /\ mailbox # <<>> /\ Head(mailbox).kind = kind
Handled == mailbox' = Tail(mailbox)
Quit == status' = "leaving"

\* apply_event, as far as the shell depends on it.
ApplyBackend ==
    /\ Receive("backend") /\ Handled
    /\ model' = [model EXCEPT !.shown = Head(mailbox).generation, !.phase = Head(mailbox).phase]
    /\ UNCHANGED <<form, dark, capture, streams, ended, requests, shots, window, writer>>

RecordingTick ==
    /\ Receive("tick") /\ recording # NoRecording /\ Handled
    /\ recording' = [recording EXCEPT !.capturing = TRUE]
    /\ requests' = requests + (IF recording.capturing THEN 0 ELSE 1)
    /\ UNCHANGED <<form, model, dark, plan, streams, ended, shots, window, writer>>

\* recording_tour_tab, over seconds since the scan was first seen to be over.
recording_tour_tab(elapsed) ==
    CASE elapsed \in 0 .. 3 -> {"Treemap"}
      [] elapsed \in 4 .. 7 -> {"Sunburst"}
      [] elapsed \in 8 .. 11 -> {"Graph"}
      [] elapsed \in 12 .. 15 -> {"Diagnostics"}
      [] OTHER -> {}

\* The time of a frame, as seconds since the first terminal phase that was
\* seen (-1: none was), up to the 16 that end the tour.  After MaxFrames
\* frames the clock is no longer taken to stand still.
Elapsed(seconds) ==
    CASE recording.since = -1 -> IF model.phase \in Terminals THEN 0 ELSE -1
      [] OTHER -> Min({recording.since + seconds, 16})
Pauses == IF frames + dropped < MaxFrames THEN SECONDS \cup {0} ELSE SECONDS

\* recording_store: the frame, then the view of the tour or the end of it.
RecordingStore ==
    /\ Receive("shot") /\ recording # NoRecording /\ Handled
    /\ \E seconds \in Pauses :
         LET elapsed == Elapsed(seconds)
             terminal == model.phase \in Terminals
             over == terminal /\ recording_tour_tab(elapsed) = {}
             Pushed == /\ recording' = [capturing |-> FALSE, since |-> elapsed]
                       /\ status' = IF over THEN "finishing" ELSE status
                       /\ \/ ~ (terminal /\ ~ over) /\ UNCHANGED model
                          \/ \E tab \in recording_tour_tab(elapsed) :
                                terminal /\ model' = [model EXCEPT !.tab = tab]
             NotPushed == /\ recording' = [recording EXCEPT !.capturing = FALSE]
                          /\ Quit /\ UNCHANGED model
         IN Push(Pushed, NotPushed)
    /\ UNCHANGED <<form, dark, plan, streams, ended, requests, shots, tour, closed>>

\* FrameWriter::finish closes the channel and blocks the user interface
\* until the worker has ended.
CloseWriter ==
    /\ status = "finishing" /\ open /\ Finish
    /\ UNCHANGED <<form, model, dark, capture, runtime, shots, window>>

JoinOnlyDoneBug ==
    /\ status = "finishing" /\ ~ open /\ worker = "done" /\ Quit
    /\ UNCHANGED <<form, model, dark, capture, runtime, shots, tour, closed, writer>>

JoinWriter ==
    /\ status = "finishing" /\ ~ open /\ WorkerEnded /\ Quit
    /\ UNCHANGED <<form, model, dark, capture, runtime, shots, tour, closed, writer>>

\* autoshot_tick: the tour is over, or warms up, or arranges, or captures.
AutoshotTick ==
    /\ Receive("tick") /\ plan # NoPlan /\ recording = NoRecording /\ Handled
    /\ \/ /\ plan.warmup > 0 /\ plan' = [plan EXCEPT !.warmup = @ - 1]
          /\ UNCHANGED <<model, dark, requests, window>>
       \/ /\ plan.warmup = 0 /\ plan.step > Len(AUTOSHOT_STEPS)
          /\ Quit /\ UNCHANGED <<model, dark, plan, requests, tour, closed>>
       \/ /\ plan.warmup = 0 /\ plan.step <= Len(AUTOSHOT_STEPS) /\ ~ plan.armed
          /\ plan' = [plan EXCEPT !.armed = TRUE]
          /\ LET stop == AUTOSHOT_STEPS[plan.step]
             IN /\ dark' = stop.dark
                /\ model' = [model EXCEPT !.tab = stop.tab, !.deep = @ \/ stop.deep]
          /\ tour' = [tour EXCEPT !.arranged = plan.step, !.kept = TRUE]
          /\ UNCHANGED <<requests, closed, status>>
       \/ /\ plan.warmup = 0 /\ plan.step <= Len(AUTOSHOT_STEPS) /\ plan.armed
          /\ requests' = requests + 1
          /\ tour' = [tour EXCEPT !.surplus = IF Pending > 0 THEN @ + 1 ELSE @]
          /\ UNCHANGED <<model, dark, plan, closed, status>>
    /\ UNCHANGED <<form, recording, streams, ended, shots, writer>>

ArmAcrossStopsBug == [plan EXCEPT !.step = @ + 1]
\* A picture is stored under the name of the stop; the next is not yet arranged.
Advanced == [plan EXCEPT !.step = @ + 1, !.armed = FALSE]

\* autoshot_store; saving the picture may fail, which is only reported.
AutoshotStore ==
    /\ Receive("shot") /\ plan # NoPlan /\ recording = NoRecording /\ Handled
    /\ \/ plan.step > Len(AUTOSHOT_STEPS) /\ Quit /\ UNCHANGED <<plan, shots>>
       \/ /\ plan.step <= Len(AUTOSHOT_STEPS) /\ plan' = Advanced
          /\ \/ shots' = Append(shots, [stop |-> plan.step, picture |-> Head(mailbox).picture])
             \/ UNCHANGED shots
          /\ status' = IF plan.step = Len(AUTOSHOT_STEPS) THEN "leaving" ELSE status
    /\ UNCHANGED <<form, model, dark, recording, streams, ended, requests, tour, closed, writer>>

\* iced::exit ends the loop; dropping the writer closes and joins it.
Leave ==
    /\ status = "leaving" /\ status' = "gone" /\ open' = FALSE
    /\ streams' = {} /\ mailbox' = <<>> /\ requests' = 0
    /\ UNCHANGED <<form, model, dark, capture, ended, shots, tour, closed,
                   queue, frames, dropped, worker, files>>

WorkerSteps == (Worker \/ WorkerFails) /\ UNCHANGED <<form, model, dark, capture, runtime, shots, window>>
-----------------------------------------------------------------------------
User == RootChanged \/ PressStart \/ NewScan \/ TabSelected \/ ThemeToggled \/ FocusDirectory \/ CloseWindow
Update == \/ ApplyBackend \/ RecordingTick \/ RecordingStore \/ AutoshotTick \/ AutoshotStore

Next == \/ Launch \/ User \/ MetronomeTicks \/ StreamForwards \/ TakeScreenshot
        \/ Update \/ CloseWriter \/ JoinWriter \/ Leave \/ WorkerSteps

Spec == Init /\ [][Next]_vars

\* The runtime handles its messages, metronomes tick, screenshots arrive and
\* the worker thread is scheduled.
FairSpec == /\ Spec /\ WF_vars(Launch) /\ WF_vars(MetronomeTicks) /\ WF_vars(TakeScreenshot)
            /\ WF_vars(Update) /\ WF_vars(CloseWriter) /\ WF_vars(JoinWriter) /\ WF_vars(Leave)
            /\ WF_vars(Worker /\ WorkerSteps)
-----------------------------------------------------------------------------
(***************************************************************************)
(* What a recording leaves: the accepted frames in the order of capture,   *)
(* numbered without gaps whatever was dropped.  Every frame is in the      *)
(* channel, saved, or lost with a worker that failed; every picture but    *)
(* the last has its line in frames.jsonl or in its buffer, and a worker    *)
(* that fails leaves at most the lines of one buffer and of that picture   *)
(* out of the file.  A worker that ends has listed every frame, even when  *)
(* the program is told to exit with frames in the channel.  That a saved   *)
(* picture is whole is not promised: see SavePicture.                      *)
(***************************************************************************)
FramesAreWhole ==
    /\ IsPrefix(manifest \o lines, pictures)
    /\ Len(pictures) <= Len(manifest) + BufferedLines + 1
    /\ worker # "failed" => /\ pictures \o queue = [k \in 1 .. frames |-> k - 1]
                            /\ Len(pictures) <= Len(manifest) + Len(lines) + 1
    /\ worker = "failed" => pictures = [k \in DOMAIN pictures |-> k - 1]
    /\ worker = "done" => Len(manifest) = frames

(***************************************************************************)
(* And with that: at most one capture is outstanding, and a push never     *)
(* meets a closed channel while the recording goes on.  The program leaves *)
(* a recording only after its 16 seconds, when the writer failed, or when  *)
(* the window is closed.                                                   *)
(***************************************************************************)
RecordingIsWhole ==
    /\ FramesAreWhole
    /\ recording # NoRecording /\ status # "gone" => Pending = (IF recording.capturing THEN 1 ELSE 0)
    /\ recording # NoRecording /\ status = "up" => open
    /\ recording # NoRecording /\ status \in {"leaving", "gone"}
         => recording.since = 16 \/ worker = "failed" \/ closed

(***************************************************************************)
(* A picture of the tour is never that of a later stop than its name says, *)
(* and lags behind it by no more stops than there were screenshots asked   *)
(* for while another was due: autoshot_tick does not test for one, as      *)
(* recording_tick does.  While a scan runs and nobody touched the view     *)
(* since the stop was arranged, it shows the tab and the mode of the stop  *)
(* and, if the user never moved the focus, the right depth.  Without a     *)
(* scan it shows the setup form, whatever view it is named for: the tour   *)
(* waits neither for ROOT nor for a project that is valid.                 *)
(***************************************************************************)
PicturesMatchStops ==
    \A k \in DOMAIN shots :
      LET picture == shots[k].picture
          arranged == AUTOSHOT_STEPS[picture.arranged]
      IN /\ picture.arranged \in shots[k].stop - tour.surplus .. shots[k].stop
         /\ ~ picture.scanned => picture.window.tab = "Setup"
         /\ picture.scanned /\ picture.kept =>
              /\ picture.window.tab = arranged.tab /\ picture.window.dark = arranged.dark
              /\ tour.moved \/ picture.window.deep = arranged.deep

(***************************************************************************)
(* An event does not say which scan it belongs to, so one that was still   *)
(* queued when its scan was replaced reaches the new model.  It comes only *)
(* before the new scan's own events: once the model shows those, nothing   *)
(* of an older scan changes it.                                            *)
(***************************************************************************)
OldEventsComeFirst == [][generation' = generation => model'.shown >= model.shown]_vars

(***************************************************************************)
(* A tour of screenshots ends by itself, and so does a recording whose     *)
(* scan reaches its end and is not replaced, even when the writer fails or *)
(* is slow, or frames are dropped; the program joins the writer and goes,  *)
(* as it does when the window is closed.  A tour asked for together with a *)
(* recording never begins, and nothing then ends a program whose scan does *)
(* not.                                                                    *)
(***************************************************************************)
CapturesEnd ==
    (\/ plan # NoPlan /\ recording = NoRecording
     \/ recording # NoRecording /\ <>[](model.phase \in Terminals \/ closed))
       => <>(status = "gone" /\ (recording # NoRecording => WorkerEnded))
=============================================================================
