# Formal verification of ESSM

ESSM is a disk usage scanner for macOS. An Elixir engine (`findex/`) traverses a
file system with a pool of worker processes and keeps the result in a native
store written in C; an Elixir program (`rust_client/backend/`) serves the engine
over stdin and stdout; a Rust library (`rust_client/`) is the client of that
program; and a desktop application (`desktop/`) draws a scan while it runs.

This directory holds TLA+ models of that program, the TLC configurations that
check them on small instances, and theorems that TLAPS proves for every
instance. `PROJECT.json` maps each definition to the lines it stands for, and
lists the runs, the hazards and, for each checked property, a slip in the code
that the property would catch.

    tlc -workers 2 -config StoreWriters.cfg MCFindexStore     # check a run
    tlapm FindexStoreProofs.tla                               # check proofs

## 1. Inventory

### Components, their state and their operations

| component | source | state | operations |
|---|---|---|---|
| native index store | `findex/native/findex_store.c` | table of directory records in segments, one block per published directory, completion journal, root descriptor, counters; one mutex | scan and publish, publish a given batch, open by walking down from the root, fail, completed_since, fetch, stats, close root |
| cleanup thread | same file, lines 72-205, 916-959 | queue of stores to free; mutex, condition variable | enqueue from the destructor, free, stop and join |
| directory reader | `findex/native/findex_directory.c` | read buffer, packed columns, cursor resource | scan a descriptor (EINTR, growing on ERANGE), cursor open, next, close |
| store facade | `findex/lib/findex/store.ex` | none | wraps the NIFs, rebuilds paths from the parent chain |
| scheduler | `findex/lib/findex/scheduler.ex` | tasks, ordered queue, dependency index, ranking data | put, delete, pop, put and delete data |
| ranking policies | `findex/lib/findex/ranking.ex` | none | pure scores of a path |
| coordinator | `findex/lib/findex/indexer.ex` | scheduler, tasks in flight, idle workers, monitors, counters, waiters, outcome | start, assign, worker results and exits, await, status, put and delete data, shutdown of the pool, terminate |
| worker | `findex/lib/findex/indexer/worker.ex` | the task it scans | scan, stop, leave with its owner |
| stdio bridge | `rust_client/backend/lib/findex_rust/bridge.ex` | handles, waiter tasks, what has been pushed | nine operations, waiter messages, cleanup |
| wire codec | `.../wire.ex`, `rust_client/src/wire.rs` | none | frames of external terms |
| Rust client | `rust_client/src/client.rs` | child process, next request id, events kept for later | one method per operation, await_scan, shutdown, drop |
| backend thread | `desktop/src/backend.rs` | journal cursor, buffered summaries, running totals | the drive loop, bounded channel |
| application state | `desktop/src/app.rs` | size tree, leaderboard, failures, counters, histories, focus, selection | apply_event, focus_directory, paths |
| shell | `desktop/src/main.rs` | screen, form, running scan, tour of screenshots, recording | start and replace scans, update, subscription, metronomes, command line |
| frame recording | `desktop/src/recording.rs` | bounded channel, writer thread, manifest | push, finish, drop |
| views and charts | `desktop/src/{view,charts}.rs` | hovered part, last click, zoom | treemap, sunburst, graph, breadcrumbs, inspector; clicks and double clicks |

### How they interact

    view  <- bounded channel -  backend thread  - calls ->  Rust client
                                                               |  pipes, frames
      dirty schedulers <- NIF calls -  workers             stdio bridge
              |                           |  messages           |  calls, waiter tasks
         native store                coordinator  <-------------+
              ^                           |
              +---- NIF calls ------------+--- scheduler (a value inside it)

Workers and readers share the store through NIF calls that run in parallel on
dirty scheduler threads. The coordinator shares nothing but the store with its
workers; everything else is messages. The bridge reads the store of an index
while the traversal still writes it. The desktop polls the journal through the
bridge.

### What is hard in it

* Critical sections of the store are short, so one call (publish after a scan,
  completed_since, fetch, the descriptor walk) interleaves with all others.
* Allocations, `openat` and reads may fail at any step.
* Ranks are cached and must be recomputed exactly when their inputs change.
* The coordinator stops its pool inside a handler, by a selective receive,
  while results and exits of workers are on the way.
* Any process may be killed: a worker, the coordinator, the BEAM, the client.
* Pushed completions share a pipe with responses.
* The desktop decides that the journal is drained from a page and a status
  that were read at different times.
* Sizes are summed bottom up while directories arrive in completion order.
* A cursor may be closed by one process while another is in a system call on it;
  the runtime drops stores on any thread, and their memory outlives them.
* Records of the kernel carry no tags: what is asked for, how it is packed and how
  it is read, twice in C and once in Elixir, must agree.
* Terms on the pipe are encoded by the Erlang runtime and decoded by hand in Rust,
  and the other way round; the pipe may end anywhere.
* A user clicks on charts that a scan redraws, and reorders, under the pointer.
* Screenshots arrive some time after they are asked for, a recording's disk may be
  slow or full, the lines about its pictures wait in a buffer, messages of a replaced scan
  may still be queued, and the user may do anything meanwhile.

### What makes each component correct

* Store: the journal lists each completed directory once, parents first; a
  completion is final; blocks and records describe one tree; no partial
  publication; no write outside an allocation; no descriptor leaks.
* Cleanup thread: the memory of a store is freed once, after its last use, and
  before the library goes.
* Directory reader: each entry once and in order, however the kernel divides the
  directory; no descriptor or block leaked or closed twice; both formats show the
  true fields.
* Scheduler: it behaves as if every task were ranked again at each pop.
* Coordinator and workers: no task is lost or handed out twice; nobody sleeps
  while there is work; the report agrees with the store; callers get one
  answer; the traversal ends; workers do not outlive their coordinator.
* Bridge and client: one answer per request, one completion per index, nothing
  left after a release, no BEAM without a client.
* Desktop: no directory skipped, totals and tree right, the end shown when and
  only when everything is shown, bounded memory between thread and view.
* Wire: an event is understood as it was meant or refused; a request is a term the
  runtime would have written.
* Charts: shares, orders and nesting are those of the tree; a double click goes where
  its first click went; every directory above the focus can be reached.
* Shell and recording: a recording whose writer does not fail is whole and numbered without
  gaps, one whose writer fails loses a bounded end; a picture of a tour shows what its stop
  arranged, with exceptions that can be told (a late screenshot, a user who changes
  the view, no scan); an old scan's events stay behind the new one's; the program ends.

## 2. Modules

| module | models | abstracts |
|---|---|---|
| `CompletionLog` | what the store promises: directories complete once, after their parent, into a log that readers follow | |
| `FindexStore` | `findex_store.c`, with `completed_since` of `store.ex` | block layout, names, which errno |
| `RankQueue` | what the scheduler promises: ranks are computed when a task is popped | |
| `Scheduler` | `scheduler.ex` | payloads and the ranking function (a constant table) |
| `Indexer` | `indexer.ex`, `worker.ex` | store = `CompletionLog`; scheduler = a set any task may leave first |
| `Session` | `bridge.ex`, `client.rs` | coordinator = what `Indexer` promises; frames = messages |
| `Desktop` | `backend.rs`, its channel, `apply_event` | store = `CompletionLog`; client calls succeed or fail |
| `SizeTree` | `SizeTree` and lists of `app.rs`, summaries of `bridge.ex` | names; event order = what `CompletionLog` and `Desktop` guarantee |
| `StoreCleanup` | destructor, cleanup thread and unloading in `findex_store.c` and `findex_nif.c` | what a job contains |
| `DirectoryScan` | `findex_scan_directory_fd` and `analyze_native_batch` | a record is its kind, error, mount status and size |
| `DirectoryCursor` | the cursor resource of `findex_directory.c`, `list/2` of `directory.ex` | an entry is its position in the directory |
| `RecordDecoder` | field selection, `parse_entry`, `parse_packed_entry`, column widths, `decode/4` of `batch.ex` | a cell is the name of its field |
| `Wire` | `wire.rs`, and `term_to_binary` as `wire.ex` uses it | letters, lengths and bytes are items; a byte has few values |
| `Explorer` | treemap, sunburst, graph, breadcrumbs, inspector and clicks of `view.rs` and `charts.rs`; focus and paths of `app.rs`; extends `SizeTree` | angles in bytes of the focus, pixels as integers |
| `Squarify`, `Fractions` | `squarify` of `charts.rs` | floating point becomes exact fractions |
| `CommandLine` | `parse_arguments` of `main.rs` and the fields of a scan | words are opaque but for what they may be |
| `FrameWriter` | `recording.rs`, `save_png` of `main.rs` | a frame and its line are its index; the buffer counts lines |
| `Shell` | `main.rs`: scans, messages, view, tour, recording; extends `FrameWriter` | a picture is the screen or tab, the mode and the depth the window showed; seconds |
| `FindexStoreProofs`, `SchedulerProofs`, `IndexerProofs`, `SessionProofs`, `NativeProofs`, `DesktopProofs`, `ShellProofs` | theorems about the modules of these names; `NativeProofs` is about `DirectoryCursor`, `DirectoryScan`, `StoreCleanup` and `RecordDecoder`, `DesktopProofs` also about `SizeTree` and `Explorer`, `ShellProofs` also about `FrameWriter` and `CommandLine` | |
| `FoldLemmas` | lemmas about sums, flattened sequences and folds from the left | |
| `MC...` | instances for TLC; `MCNative` and `MCCodecs` each join parts that share no state | |

The composition is by abstract specification. `FindexStore` implements
`CompletionLog` (run `store_readers`, theorem `StoreImplementsLog`), and
`Indexer` and `Desktop` instantiate `CompletionLog` as their store, so what they
rely on is what the store has been shown to keep. In the same way `Scheduler`
implements `RankQueue`; `Indexer` needs less than that, since its properties do
not depend on the order of tasks. `Session` and `Desktop` take from `Indexer`
that a traversal ends (`TraversalEnds`), `FindexStore` takes from `DirectoryScan` that
a read gives all entries of a directory or an error, and `SizeTree` takes from `Desktop`
that each directory arrives once (`NothingIsSkipped`) and from `CompletionLog`
that no child arrives before its parent. `Explorer` is composed with `SizeTree`
itself: its steps interleave with those of the tree. `Shell` contains `FrameWriter`,
and takes from `Desktop` that a scan's stream says its end once and last.

Several properties are conjunctions of named parts, one for each question: `RecordingIsWhole` contains `FramesAreWhole`, `TablesAgree`
is `TreeIsConsistent`, `WritesStayAllocated` and `StatsAgree`; `CallsSeeTheTree` is
`WalkOpensRequestedDirectory`, `FetchedBlockIsLive` and `DescriptorsOwned`; `NoTaskIsLost` is
`TasksAreSomewhere`, `WorkConserving` and `MessagesAreExpected`; `BothSidesAgree` is
`OneAnswerPerRequest`, `HandlesStayInStep` and `CompletionIsExact`; `ViewGetsEverything` is
`NothingIsSkipped`, `FinishedShowsEverything` and `BacklogIsBounded`; `TreeIsRight` is
`SizesAreRecursive` and `ChildrenAreSorted`; `ViewsAreHonest` is `ListsAreRight`,
`ChartsAreHonest` and `InspectorListsFiles`. The comment at each
part says what it states.

An operator whose name ends in `Bug` is a slip that could be made in the
operator or action below it. No specification uses one; each is named in
`PROJECT.json` under "mutants" with the property that notices it.

### State and actions against the code

**FindexStore.** One action is one critical section of `store->lock` or one
system call outside it; `call[t]` is where thread `t` is in its NIF. A scan is
the steps of the walk (`StartWalk`, `OpenComponent`), the read
(`ReadDirectory`), and a publication (`PublishBlock`) that tests the state
again under the lock, as `findex_nif_index_store_scan_and_publish` does.
Publication orders its steps as the code does: record capacity, journal
capacity, block, children, journal. `EnsureDirectoryCapacity` keeps the segments
it got when a later one fails. `MaxId` is `UINT32_MAX`, `SegmentSize` and
`JournalChunk` are the constants of the file. The batches are the constant
`Batches`; they include ones that `validate_directory_block` refuses.

**Scheduler.** One action per public function that changes the struct. `queue`
is the ordered tree (a set of keyed entries; its order is `Above`, Erlang's order
of tuples), `dependents` the reverse index. A ranking function is a table
from data to a rank or an exception, together with the keys it reads; the
assumption `TrackedAssumption` is the contract in the module documentation: it
reads every input through `read`. `evaluated_at`, `changed_at`, `revision` and
`popped` are history.

**Indexer.** One action is the handling of one message by the coordinator, or
one step of a worker. `mailbox` is the coordinator's, in order; `stop_worker_pool`
is a phase in which only the awaited monitors and late results are received, as
its selective receives do. A worker killed inside its NIF leaves an `orphans`
entry: the dirty NIF runs on and may still publish. The code's last
`handle_info` clause never receives a message of a worker, and the
`result_task_mismatch` branch is dead: `MessagesAreExpected` shows both.

**Session.** `requests` and `frames` are the two pipes. The bridge is one process
that handles one message at a time; `bridge.at` is where it blocks inside a
handler (in `Task.yield`, in `GenServer.stop`). Completions that waiter tasks
send are separate from the frames of stdin, so they arrive at any point between
two requests. A caller uses `await_scan` once for an index, because it consumes
the completion.

**Desktop.** `stage` is the program counter of the thread; each client call is a
step that may fail. The channel of the thread and the small one of the iced
stream behind it are one channel here: both are first in, first out and drop
together. `due` is the progress interval.

**SizeTree.** One action is `apply_event` of one event, with every helper it
calls, folded over the directories of the event. `Batches` are the groupings that
the backend thread can send.

**StoreCleanup.** A store is released, gives its job away (`Destruct`), and puts it in
the list under the lock of the context (`Enqueue`); the thread is checking, waiting,
freeing or gone. A signal to a thread that does not wait is lost, as it is for a
condition variable, and one that waits may wake without a signal.

**DirectoryScan.** One action is one system call or one allocation of the loop with
what follows it up to the next. `live` is the heap. Every division of the directory
into buffers is a behaviour, also ones with small batches that a kernel would not choose.

**DirectoryCursor.** The lock is held from `StartRead` to `ReadBatch` or `ReadNothing`,
so closing waits for the system call; records are decoded without it (`Decode`). `files`
is the table of descriptors of the whole process, in which other code opens and closes
too, so that closing a number twice hits somebody. `listing` chooses between
`Directory.list`, which keeps its handle, and free use by several processes.

**RecordDecoder.** `asked` is what `configure_attributes` puts into the attribute
list; `record` is what the kernel packs for it; `parsed` and `unpacked` are what the
two formats give. The orders of the two decoders are written down from each separately, section
by section, and so are the sizes that the native decoder stores, the widths of
the columns and the widths that Elixir reads.

**Wire.** `pipe` holds the items that are written and not read; the bridge may end at
any item, print something else, or (a faulty encoder) send a term with its own length wrong.
`External` is the runtime's encoder and `Meaning` what a term says, both by the type of the term;
`DecodeValue` and `IntoJson` follow the client's code. Integers change format at the bounds
of a byte, an `i32` and a `u64`, with two bits to the byte in the run.

**Explorer.** `hovered` and `last` are the indices that `charts.rs` keeps in the state of
a canvas; iced keeps that state while the canvas is drawn again with other parts
(`Redrawn`). `first` is auxiliary: what the first of two clicks meant. Slices,
cells and graph rows are functions of the tree, as in `view.rs`. `DoubleClicksDrill` is
conditional on the chart showing the same directories at both clicks: without
that, a click after siblings have changed places selects what has moved under the pointer.

**Squarify.** One action places one row. Exact fractions stand for `f64` and
`f32`, so the comparison with `f32::EPSILON` is one with a constant, larger in the run; once
less than a pixel is left (`thin`), tiles may overlap by less than a pixel.

**CommandLine.** One action takes one option with its value; `ArgumentsMeanWhatTheySay`
states the same from the whole line at once.

**FrameWriter** and **Shell.** The iced runtime is external: one queue of messages, streams
that live as long as `subscription` returns them, screenshots that are taken some time after
they are asked for. One action is the handling of one message by `update`, a step of the
user, or a step of the writer thread; `status` "finishing" is the user interface
blocked in the join of the writer. Both options are independent: every combination of a tour,
a recording and a ROOT is an initial state, and `DARK` is the mode the program starts in. The
user may do all that `update` handles, on a tour and in a recording too, and may close the
window, which ends the program as iced does by default.

`lines` is what the `BufWriter` of `frames.jsonl` holds and `manifest` what the file holds.
A line that does not fit sends the buffer to the file first; lines differ in length, so
one may not fit into a buffer that would hold more lines of another length. A worker that
fails drops the buffer, which writes some of its lines or none. `save_png` drops the encoder and
its buffer unflushed, so a picture may lose its end and still count as saved: `cut` is set in any
way, and nothing is claimed about it.

A picture is `View`, what `view` draws at that time: the setup form or a tab. `tour` is
auxiliary. It counts in `surplus` the screenshots that were asked for while another was due
(`autoshot_tick` has no guard against that, unlike `recording_tick`), and keeps which stop was
arranged last and whether the user has changed the view since. `PicturesMatchStops` bounds by the first how
far a picture may lag behind its name, and demands what the stop arranged unless the second holds.
A focus that was moved is not moved back by a stop at the root, so `moved` stays set.

## 3. Runs

| run | configuration | distinct states | shows |
|---|---|---|---|
| `store_writers` | 2 threads, 4 ids, segments of 2, journal from 1, six shapes of batch | 95,916 | races of scan, publish, fail, fetch, walk, close; failing allocations and opens |
| `store_readers` | 1 thread, 2 readers, page sizes 1 and 3 | 99,954 | the two sections of completed_since against a writer; refinement of `CompletionLog` |
| `scheduler` | 3 ids, 3 ranking functions, 2 keys with 2 values | 71,257 | queue and index exact, ranks fresh; refinement of `RankQueue` |
| `indexer` | 2 workers, 3 directories, 2 callers, 1 kill | 575,248 | no lost task, true report, ordered shutdown; calls return, traversal ends, workers follow |
| `session` | 2 indexes, 5 requests, 1 crash, 1 kill | 323,133 | answers, completions and handles agree on both sides; calls return, BEAM follows the client |
| `session_crash` | 1 crash | - | finding: await_scan does not return (below) |
| `desktop` | 3 directories, pages of 2, channel capacity 1 | 246,572 | nothing skipped, totals, end shown truly, bounded backlog; the thread ends, cancel stops the BEAM |
| `explorer` | 7 directories, 2 unreadable, updates of up to 2; 3 charts | 34,292 | sizes, child order, leaderboard and failures in every order of arrival; charts honest, clicks and breadcrumbs right |
| `native` | cursor: 2 processes, 2 descriptors, 3 entries; scan: up to 4 entries of 9 kinds, buffers 1 to 3; cleanup: 4 stores | 214,485 | descriptors and entries under concurrent read and close; exact children, clean heap; stores freed once, no lost wakeup |
| `codecs` | 44 fields in pairs and all at once; 35 terms and 26 requests; lines of 3 words and some of 4; treemaps of up to 5 tiles | 625,169 | both record decoders exact; frames and terms; arguments; layout |
| `shell` | 2 scans, 2 stops, channel of 1 frame, buffer of 1 line, 1 frame before the end, 2 acts of the user on the view | 1,260,966 | what recordings leave, what pictures show and how late, old events first, captures end |
| `explorer_at_slash` | the same with the root "/" | - | finding: the inspector lists no file (below) |

`native` and `codecs` join parts that share no state: a behaviour picks one `part` and
runs it while the others stay as they began, so a run explores the union of the parts and
not their product.

### Bounds, and why they are enough

* Store: `UINT32_MAX` is 4 with segments of 2, so both the last id and a second
  segment are reached; the journal starts with one slot and doubles twice. Two
  threads suffice for each race the code guards against, since a section looks at
  one directory and the tables only. Proofs cover every size.
* Scheduler: two keys of which one is read depending on the other, so that
  the set of keys read changes; `MaxSequence` and `MaxRevision` cut the counters,
  which only grow.
* Indexer: two workers that are busy at once with directories that only another
  result reveals give every order of result, exit, kill and stop; two callers, so that
  one may stop or re-rank while the other waits; `MaxKills` bounds faults. With a
  fourth directory below the second one, and one caller, the same properties hold
  (98,978 states).
* Session: two indexes, so that completions of one can meet requests for the
  other; `MaxRequestId` ends the history (and is itself the code's limit on
  request ids, reached in the run), `MaxIndexId` likewise.
* StoreCleanup: with four stores one is freed, two wait and one is being built.
* DirectoryCursor: two descriptor numbers, so that the number of the cursor can be
  taken by other code as soon as it is free. The theorems cover every size.
* DirectoryScan: a second batch and a second growth of either table, a record that
  only the largest buffer holds and one that none does; the limit on entries (3) is
  crossed.
* RecordDecoder: two decoders differ in the order of two cells only if they
  differ on the pair of their fields, so pairs are enough.
* Desktop: the journal is longer than a page and longer than the channel.
* SizeTree and Explorer: a path of four, siblings whose order changes, more files than
  the leaderboard and more failures than the list, `MaxBytes` above the total, as 2^64 bytes
  exceed any disk; a trail deep enough to collapse, more children than each chart lists,
  children too narrow for a slice, zooms on both sides of a half.
* Wire: two events, so that one is read behind another; terms at both sides of each boundary
  of numbers, of the longest text with a short length, of the nesting and of the frame.
* CommandLine: three words meet every pair of an option and its value, in front of or behind
  a third; the lines of four have options as values of options.
* Squarify: descending lists of up to five cells, equal and empty ones, and lists with tiles
  below a pixel.
* Shell: a second scan behind a first one, a channel that one frame fills, a buffer that one
  line fills, so that lines are in the file, in the buffer and missing; one tick and
  one event queued at once, so that each may overtake what the others ask for; two stops that
  differ in tab, mode and depth, so that a picture under the wrong name shows, and two acts of
  the user (`MaxTouches`), so that a change may be followed by another; pauses of 8
  seconds visit each half of the recording's tour of 16. `MaxTicks` also bounds the
  screenshots due, so up to two are. Two backend events are never queued together in this run;
  the theorem `OldEventsStayBehind` has no such bound.

`CHECK_DEADLOCK FALSE` is set where the system may stop: a traversal or a scan ends, a
client goes, a thread ends, a library is unloaded, an update or a frame is the last, the
program is left. The store and the scheduler are checked for deadlock.

### Fairness

Only weak fairness is assumed. `Indexer`: the BEAM schedules every runnable
process, and system calls return, so the coordinator and each worker step again
and again. `Session`: the bridge, waiters and coordinators likewise, and the client
reads what it waits for; no caller is obliged to call and no fault is obliged to
happen. `StoreCleanup`: a destructor
that runs and the cleanup thread take their steps; nobody has to drop a store, and
no wakeup comes without a signal.
That a traversal ends is the property `TraversalEnds` of `Indexer`.
`Desktop`: the operating system runs the thread, time passes, and the view handles
its events, which the thread's `send_event` really depends on; the view need not
ever close. `Publish` and `Poll` may fail at any time, but never have to. `Shell`: the runtime handles
its messages, metronomes tick and screenshots arrive, and the writer thread runs; neither
the user nor a scan has to do anything, so `CapturesEnd` asks of a recording only that it
ends when its scan stays at its end or the window is closed. With a tour and a recording the same is asked as
of a recording: the tour never begins.

## 4. Findings

* **A crash of a coordinator is never reported (`session_crash`).** The waiter of
  an index is a task that calls `Indexer.await`; when the coordinator crashes the
  task exits, and the bridge, which traps exits, receives its `:DOWN` in
  `bridge.ex:129` and its `:EXIT` in `bridge.ex:132`, and ignores both.
  No `scan_finished` is pushed, and `Client::await_scan` reads for ever. The
  bridge does build a result for such an exit, but only in its own `await_scan`
  operation, which the Rust client never sends. That operation is not safe either:
  once the `:DOWN` has been ignored its `Task.yield` waits for ever, and the bridge with it.
  These are the only calls that hang: `EveryCallReturns` and `BackendFollowsClient` (run
  `session`) except exactly an await whose waiter's exit has been ignored
  (`ForsakenCall`, `ForsakenBridge`) and hold for all others. The desktop is hardly
  exposed: it calls `await_scan` only after a status that says the traversal has
  finished, so only a crash between the two would hold it.

* **The inspector of a scan of "/" is empty (`explorer_at_slash`).** It keeps the files whose
  path starts with the directory's full path and a slash (`view.rs:866`). For the root of
  a scan of `/` that is `//`, which no path has; `join_path` (`app.rs:708`) does take care
  of a name that ends with a slash. The list promises (`view.rs:864`) "Largest known files
  inside this subtree, from the global top list".

The tour of screenshots promises more than it keeps in four cases, which are in the model and
excepted by name in its properties. It "visits every view in both modes" (`main.rs:307`), but
without ROOT, or with one that is refused, it stores as many pictures of the setup form
(`main.rs:604`) under the names of the views. A user who changes the view between arranging
and capturing is photographed. A screenshot that takes longer than a tick makes the next tick
ask for another (`main.rs:490`), and both are stored, the second under the name of a later stop. And
it ends with "save PNGs, then exit" (`main.rs:162`), but with `--record` every tick and picture
goes to the recording (`main.rs:437`, `618`): the tour never begins, and a scan that does not
end, or none, leaves the program running.

A recording may lose lines, not order: when its writer fails, the pictures of one buffer of lines (8 KiB in the
code) and one more may be without a line. A picture whose last write failed counts as saved (`main.rs:575-587`).

`add_bytes` walks over at most `MAX_DEPTH` (512) nodes although its comment
(`app.rs:181`) says "every ancestor"; the bytes of a directory further down do not reach the
root. The bound is deliberate, against a cycle. The `explorer` run has a chain of exactly
`MAX_DEPTH` nodes, and `SizesAreRecursive` (in `TreeIsRight`) is a statement about trees that are no deeper.

The leaderboard of the largest files holds 100 files of the whole scan, but a
directory offers only its eight largest (`LARGEST_PER_DIRECTORY`), so it is exact
over what is offered (`TopFilesAreLargest` in `ListsAreRight`), not over all files. No comment claims
more.

## 5. Proofs

All proofs are checked by TLAPS with Z3, Zenon and LS4; nothing is assumed but
the named assumptions on constants in the modules they are about.

The inductive invariants named below hold in TLC too, on the constants of the run of their
component; only two conjuncts that say some sequence exists, of an unbounded set of them (the chain
in `CallFits`, the list in `CleanupInv`), are left to the prover.

**FoldLemmas.** What the other proofs need of sums over sets and sequences of numbers
and of flattened sequences: a sum exists and is unique, changes by the member that is
added or removed, is as large as that of any part; a flattened sequence grows at the end
by what is appended and loses its front with the head. These are facts of induction over
data. They are proved without an operator parameter: the induction hypothesis is a set
of numbers (`Induction`) or of sequences (`SequenceInduction`) shown to hold all of them.
The same for a step repeated along a sequence (`FoldLeft`): its value at the empty
sequence and after one more element.

**FindexStoreProofs**: for every set of threads, readers, batches and limits, every
`MaxId`, segment size and first journal capacity.

* `TypeCorrect`. Types alone are not inductive: that a journal never overruns
  its array and a new id never exceeds `MaxId` needs the capacities, so the invariant `Inv`
  carries the sizes of table and segments, and that a call in progress refers to
  known directories.
* `JournalExact`, `ParentsFirst`, `CompletedIsFinal`. The inductive part is
  `JournalInv`, which adds that the journal lists exactly the completed records
  and that each record's parent is complete; `StepCompletesOrStays` says that
  every step either completes one pending directory or leaves records and journal as
  they are, so that each fact is proved for two kinds of step and not for all actions.
* `DeliveredPrefix`. The page a reader has sized stays within the journal
  because the journal only grows, whatever happens between the two sections.
* `StoreImplementsLog`. A publication or failure maps to `Complete`, the second
  section of completed_since to a delivery, and all else to a stutter.
* `TablesStayInAgreement`, `CallsKeepTheTree`. The invariant `TablesInv` has four parts.
  `TreeInv`: a record has the id its parent's block gave out, a parent a smaller id; that
  every directory has a path is then induction on ids (`ChainsExist`). `CallsFit`: what a
  call has found out between two sections (the chain it walks, the block it holds, its
  descriptor) outlives every step of the others, because records are never taken back
  and blocks never replaced; descriptors are counted call by call. `WritesStayAllocated`:
  each write of a publication is covered by a capacity ensured before it. `CountsInv`: the
  counters are the cardinalities and the sum over the blocks that stats promises.
* `FailedCallsLeaveNoTrace`. By the two kinds of step again.

**SchedulerProofs**: for every set of ids, data, and every ranking function that
keeps the contract.

* `SchedulerTypes`, `StructuresStayExact`, `RanksStayFresh` from one invariant `Inv`: types, queue and index in
  agreement with the tasks, different sequences for different tasks, and
  stored evaluations equal to what the ranking function now gives. The
  argument for freshness is that a task whose recorded reads avoid the changed
  keys would, by `TrackedAssumption`, be ranked the same again; the index finds
  all others.
* `SchedulerImplementsRankQueue`. With fresh ranks the stored order is the
  order on demand (`StoredOrderIsTrueOrder`), so a pop takes what `RankQueue` takes.

**IndexerProofs**: for every tree, every finite pool of workers, any rows and any kills.

* `TasksStaySomewhere`. The pending directories are divided between the queue, the tasks in
  flight and the children in results not yet handled (`Divided`), and no two workers
  have the same task (`Apart`). This is inductive only with what a message on its way
  implies: a worker has at most one result and one monitor in the mailbox, in this order
  (`MailFits`), a result is about its sender's task in flight (`Fits`), and what a worker
  is at is what the coordinator believes (`WorkerFits`). During the shutdown only the
  workers still awaited are bound by it (`Expecting`). A killed worker's scan may go on and
  publish; nobody hears of it (`OrphansFit`).
* `ReportRemainsTrue`. `CountersFit` says that the counters are sums over some set of
  published directories, which is all of them but those in flight as long as the
  traversal can still succeed; `EndFits` that after the end nobody is left who could write.
  The assumption `NULLAssumption` is that nil is neither a directory nor an outcome.

**SessionProofs**: for every number of handles and requests, every set of operations, any
crashes and kills.

* `ClientAndBridgeAgree`. Messages are not counted but described by sets: none of a set is in
  a pipe, at most one is, one set comes before another. The turn is in one of four places
  (`TurnIsClear`): nobody has asked, the request is out, the bridge is busy with it, the
  answer is out. `CompletionsInv` says where the one completion of an index may be
  (unsaid, in the pipe, kept by the client, handed out), `HandlesInv` that the indexes of
  the bridge and the handles of the client differ by at most the answer on its way, and
  that a handle precedes its completion in the pipe and a release follows it. `TruthInv`
  relates a completion to the traversal. Every step is one of a few kinds for the
  pipe (nothing said, one message pushed, one read), and each part is proved for these.

**NativeProofs**: four parts of the native library.

* `DescriptorsAreSafe`, for every set of processes and descriptors, every size of
  directory and batch. That the number in the cursor is its own is inductive only
  with what the lock protects (`Protected`): the holder of the lock is the process in
  the system call, it has a handle, and while it is there nobody closes.
* `EntriesArePartitioned`. Every entry the kernel has handed out is in one place
  (`Accounted`, `Disjoint`); a new batch begins after all of them, so it meets none. For
  `Directory.list`, `ListStops` adds that nobody else reads and that nothing is read after
  an error, so at `done` the lost entries are none.
* `ScansLeaveWhatTheyRead`, for every directory, sizes of buffers and first capacities.
  `Progress` says for each stage of the loop how many entries the kernel has returned,
  how many are chained and how many analyzed; `Heap` which blocks the call has besides those of
  the scan. One turn of the analysis describes one entry more (`DescribesStep`), induction over
  the turns gives the batch. What the scan owns follows from its batches and
  capacities, which never shrink while it grows, so an analysis that fails half way frees
  exactly what it has.
* `MemoryIsFreedOnce`, for every finite set of stores. The linked list is a sequence that
  has each waiting job once (`IsList`): an enqueue appends to it, the thread takes its head.
  The destructors cannot run after the unloading began (`UnloadComesLast`), and the thread
  leaves only with the list empty (`ThreadHoldsItsJob`), so nothing is left behind. Stores are finite in
  number (`StoresAssumption`), as memory is.
* `FormatsAgree`, for every set of selections of fields and everything the kernel may leave out.
  `RecordInv` says what was asked for (`Configured`), that the kernel returned all cells or all
  but the last (`Returned`), and what the two decoders made of it (`AreExact`). One lemma
  carries most of it (`TakenAsPacked`): a decoder that takes cells in the kernel's order
  gives each field its own cell if nothing is cut off, and notices it if something is. That
  the kernel's order is the decoders' order (`OrdersAgree`), that the type decides which group
  follows, that a field has one cell in a group and that the stored width is the column's
  and the one Elixir reads (`WidthsAgree`) are its premises. `NilAssumption` is that nil is
  not a cell, nor an entry or a row.

**DesktopProofs**: for every tree, sizes, batch and capacity of the channel.

* `ViewIsComplete`. What the view has, the channel, the event being sent, the buffer and the
  page, one after the other, are the journal up to the cursor (`JournalInOrder`), so each
  step moves a piece over one boundary. `TotalsFit` says that the total an event carries is that
  of the directories up to it; `EndComesLast` that the last word follows everything that was complete
  at the end; `StagesFit` what the thread holds at each stage, hence the bounds.
* `EndIsAlwaysReported`. `Endings`: the last word is in the channel or arrived as soon
  as it is sent, whatever fails in the release and the stop after it.
* `TreeStaysRight`, for every tree no deeper than `MAX_DEPTH` (`DepthAssumption`) and every
  order of arrival that `CompletionLog` allows. `TreeInv`: only known directories are linked,
  each to its own parent, children are those linked, bytes of a subtree are the sum of those
  known in it, capped as the addition saturates, and children are sorted except under the
  parents marked dirty. One directory adds its bytes along its chain of ancestors and
  nowhere else; the chain is a fold whose end is the root because of `DepthAssumption`. A batch is
  a fold over its directories, and saving sorts what is dirty, so that after it nothing is.
* `WaysStayOpen`. The trail of a directory is the chain up to the root, which ends there because
  of `TreeInv` and `DepthAssumption`; cut or not, it contains the parent (`TrailAssumption`: the
  end that is kept is not empty). What has the trails of its members therefore has their
  parents, and with these, one after the other, all directories above them.
* `DrillsAreMeant`. As long as the chart has shown the same directories since the first click,
  the index that the canvas keeps stands for the directory it stood for then.

**ShellProofs**: for every form, tour, channel, manifest buffer, first mode and bound.

* `FramesStayWhole`, the part `FramesAreWhole` of `RecordingIsWhole`. Pictures
  count from 0 and the channel continues them (`FramesFollow`); the file and the buffer, one after
  the other, are the pictures but for the last; `StepsMoveTheWriter` reduces
  every step of the program to a few kinds of step of the writer.
* `RecordingStaysWhole`. While a recording goes on at most one picture is due or on its way, and
  exactly when it is capturing (`RecordingCaptures`); it leaves only with its seconds over,
  the writer failed or the window closed (`RecordingEnds`).
* `PicturesShowTheirStops`, by the invariant `TourInv`: whether a tour runs and a scan is shown
  (`TourRuns`); what the window shows while nobody has touched it is what the last stop
  arranged (`ViewIsArranged`); pictures taken and not yet stored, and those stored, were right when they were taken
  (`PicturesAreRight`) and lag by no more than the surplus (`PicturesLag`, `ShotsLag`). For that
  bound the screenshots due behind a picture are counted: each moves the tour one stop further
  before the next is stored, and each was surplus when it was asked for. The assumptions are
  facts of the code's table of stops: the deep ones come last (`DeepStopsComeLast`; otherwise a stop at the root would
  inherit the leaf's focus), and that seconds are numbers.
* `OldEventsStayBehind`. The events in the queue are in the order of their scans and
  between the one the model shows and the last one started (`EventsInOrder`); that only the
  scan that runs has a stream (in `MailTypes`) keeps them so.
* `LinesAreUnderstood`, for every line of words. The property reads the whole line at once, the
  program reads it word by word; `CommandInv` says that what it holds is what the words
  read so far mean (`Means`), and that the word ahead is no value (`Positions`), which is a
  recursion to the left. One option more changes one setting, to its last use; the fields of a scan are
  those told, each once, with the two always read in front (`Retained`).
  `CommandsAssumption` is that words are strings and an unset option is none.

**Only model-checked.** `Wire` (`EventsArriveAsSent`, `RequestsAreTerms`) is recursive over
terms (RECURSIVE operators), which keeps it out of the prover altogether. `TilesFillTheCanvas`
is about fractions of products of unknowns, where the arithmetic of the solver ends.
`ViewsAreHonest` speaks of the leaderboard and the shares that the charts draw, functions over
lists of every length; its part `InspectorListsFiles` is not even true of every tree (section 4). All
liveness properties stay with TLC: fairness rests on ENABLED, which is beyond this prover.

## 6. Not modelled

Ranking policies, aggregating accessors, validation of malformed requests, the conversion
of the client's answers into types, the packed bytes of a block; drawing, colours, text
formats, anonymized names, the diagnostics tab with its rate histories, panning of the graph;
benchmarks, packaging and the capture example. They keep no state that the properties could be about, or
are pure functions from text to text. Floats that are not finite, and integers that the runtime sends with more
than 255 bytes, are left out of `Wire`.

## 7. Plan

Done: every module of the table above; theorems about the safety of every component but the
drawing and the wire. Next, in this order:

1. Proofs: the leaderboard and the failures (`ListsAreRight`) by the induction over batches that
   `TreeStaysRight` uses; the shares of the charts after it.
2. An abstract `Scan` (asked, finished, awaited) that `Session` over `Indexer` implements.
