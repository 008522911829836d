--------------------------- MODULE DirectoryCursor ---------------------------
(***************************************************************************)
(* The directory cursor (findex/native/findex_directory.c, wrapped by      *)
(* findex/lib/findex/directory.ex): a runtime resource that owns an open   *)
(* descriptor.  Any process that holds the handle may read the next batch  *)
(* or close it, on parallel dirty scheduler threads; the runtime runs the  *)
(* destructor when the last handle is gone.  Descriptors are small numbers *)
(* that the rest of the process opens and closes too, so to close one      *)
(* twice is to close somebody else's file.                                 *)
(***************************************************************************)
EXTENDS Naturals, FiniteSets

CONSTANTS Processes,     \* that may come to hold the handle
          Opener,        \* the one that opens the cursor
          Descriptors,   \* descriptor numbers of the process
          EntryCount,    \* entries of the directory
          BatchLimit,    \* most entries one call can return
          NULL           \* no process, no descriptor (-1)

ASSUME OpenerAssumption == Opener \in Processes
ASSUME CountAssumption == EntryCount \in Nat /\ BatchLimit \in Nat
ASSUME NULLAssumption == NULL \notin Processes \cup Descriptors

Answers == {"none", "batch", "done", "closed", "error"}

VARIABLES
    files,      \* [Descriptors -> who has it open]: the table of the kernel
    foreign,    \* descriptors that other code believes it holds
    resource,   \* stage of the cursor
    listing,    \* the opener runs Directory.list: read to the end, then close
    fd,         \* of the cursor, or of the open call before there is one
    exhausted,  \* of the cursor
    lock,       \* who holds the mutex of the cursor across a system call
    position,   \* entries the kernel has handed out of this descriptor
    holders,    \* processes with a handle
    at,         \* [Processes -> "idle", "reading" or "decoding"]
    batch,      \* [Processes -> entries in the buffer of the call]
    answer,     \* [Processes -> answer to the last call]
    received,   \* [Processes -> entries returned to it] (history)
    lost        \* entries read by a call that then failed (history)

cursor == <<resource, listing, fd, exhausted, lock>>
calls == <<at, batch, answer, received, lost>>
vars == <<files, foreign, cursor, position, holders, calls>>

Init ==
    /\ files = [d \in Descriptors |-> "closed"]
    /\ foreign = {}
    /\ resource = "none"
    /\ listing \in BOOLEAN
    /\ fd = NULL
    /\ exhausted = FALSE
    /\ lock = NULL
    /\ position = 0
    /\ holders = {}
    /\ at = [p \in Processes |-> "idle"]
    /\ batch = [p \in Processes |-> {}]
    /\ answer = [p \in Processes |-> "none"]
    /\ received = [p \in Processes |-> {}]
    /\ lost = {}

-----------------------------------------------------------------------------
(* Opening *)

\* findex_open_directory_path: open again while EINTR; a failure leaves nothing.
OpenPath ==
    /\ resource = "none"
    /\ \E d \in Descriptors :
          /\ files[d] = "closed"
          /\ files' = [files EXCEPT ![d] = "cursor"]
          /\ fd' = d
    /\ resource' = "opened"
    /\ UNCHANGED <<foreign, listing, exhausted, lock, position, holders, calls>>

\* A slip: the number of the closed descriptor stays in the cursor.
KeepNumberBug ==
    /\ files' = IF fd = NULL THEN files ELSE [files EXCEPT ![fd] = "closed"]
    /\ exhausted' = TRUE
    /\ UNCHANGED fd

\* close_cursor.
CloseCursor ==
    /\ files' = IF fd = NULL THEN files ELSE [files EXCEPT ![fd] = "closed"]
    /\ fd' = NULL
    /\ exhausted' = TRUE

\* findex_make_directory_cursor: no memory for the resource closes the
\* descriptor; no lock, or fields that configure_attributes refuses, closes the
\* cursor and releases it, which runs the destructor later.
MakeCursor ==
    /\ resource = "opened"
    /\ \/ resource' = "destroyed" /\ CloseCursor /\ UNCHANGED holders
       \/ resource' = "refused" /\ CloseCursor /\ UNCHANGED holders
       \/ /\ resource' = "live" /\ holders' = {Opener}
          /\ UNCHANGED <<files, fd, exhausted>>
    /\ UNCHANGED <<foreign, listing, lock, position, calls>>

-----------------------------------------------------------------------------
(* Handles *)

Share(p) ==
    /\ resource = "live" /\ holders # {} /\ ~ listing
    /\ p \notin holders
    /\ holders' = holders \cup {p}
    /\ UNCHANGED <<files, foreign, cursor, position, calls>>

\* The process forgets the handle or dies; not in the middle of a NIF call.
DropHandle(p) ==
    /\ p \in holders /\ at[p] = "idle"
    /\ holders' = holders \ {p}
    /\ UNCHANGED <<files, foreign, cursor, position, calls>>

\* directory_cursor_destructor, after the last handle or after a refusal.
Destruct ==
    /\ \/ resource = "live" /\ holders = {}
       \/ resource = "refused"
    /\ lock = NULL
    /\ CloseCursor
    /\ resource' = "destroyed"
    /\ UNCHANGED <<foreign, listing, lock, position, holders, calls>>

-----------------------------------------------------------------------------
(* findex_nif_next_directory_batch *)

\* collect/2 of Directory.list asks again only after a batch.
MayRead(p) == p \in holders /\ at[p] = "idle" /\ (listing => answer[p] \in {"none", "batch"})

Answered(p, what) == answer' = [answer EXCEPT ![p] = what]

\* A slip: the end of the directory is tested before the descriptor.
RefuseInOtherOrderBug(p) ==
    /\ MayRead(p)
    /\ \/ Answered(p, "error")
       \/ lock = NULL /\ exhausted /\ Answered(p, "done")
       \/ lock = NULL /\ ~ exhausted /\ fd = NULL /\ Answered(p, "closed")
    /\ UNCHANGED <<files, foreign, cursor, position, holders, at, batch, received, lost>>

\* No memory for the buffer; or the locked section, when it does not reach the
\* system call.
RefuseNext(p) ==
    /\ MayRead(p)
    /\ \/ Answered(p, "error")
       \/ lock = NULL /\ fd = NULL /\ Answered(p, "closed")
       \/ lock = NULL /\ fd # NULL /\ exhausted /\ Answered(p, "done")
    /\ UNCHANGED <<files, foreign, cursor, position, holders, at, batch, received, lost>>

\* The lock is held across getattrlistbulk.
StartRead(p) ==
    /\ MayRead(p) /\ lock = NULL
    /\ fd # NULL /\ ~ exhausted
    /\ lock' = p
    /\ at' = [at EXCEPT ![p] = "reading"]
    /\ UNCHANGED <<files, foreign, resource, listing, fd, exhausted, position, holders, batch, answer, received, lost>>

\* getattrlistbulk returns some entries, which move the position, and the lock
\* is given up before they are decoded.
ReadBatch(p) ==
    /\ at[p] = "reading"
    /\ \E n \in 1 .. BatchLimit :
          /\ position + n <= EntryCount
          /\ position' = position + n
          /\ batch' = [batch EXCEPT ![p] = position + 1 .. position + n]
    /\ lock' = NULL
    /\ at' = [at EXCEPT ![p] = "decoding"]
    /\ UNCHANGED <<files, foreign, resource, listing, fd, exhausted, holders, answer, received, lost>>

\* It returns no entry, at the end, or fails: EINTR is tried again inside, and
\* any other error is the answer, the cursor staying as it is.
ReadNothing(p) ==
    /\ at[p] = "reading"
    /\ \/ position = EntryCount /\ exhausted' = TRUE /\ Answered(p, "done")
       \/ UNCHANGED exhausted /\ Answered(p, "error")
    /\ lock' = NULL
    /\ at' = [at EXCEPT ![p] = "idle"]
    /\ UNCHANGED <<files, foreign, resource, listing, fd, position, holders, batch, received, lost>>

\* The records are decoded without the lock; one that is not valid, or a lack
\* of memory, loses the batch and is the answer.
Decode(p) ==
    /\ at[p] = "decoding"
    /\ \/ /\ Answered(p, "batch")
          /\ received' = [received EXCEPT ![p] = @ \cup batch[p]]
          /\ UNCHANGED lost
       \/ /\ Answered(p, "error")
          /\ lost' = lost \cup batch[p]
          /\ UNCHANGED received
    /\ batch' = [batch EXCEPT ![p] = {}]
    /\ at' = [at EXCEPT ![p] = "idle"]
    /\ UNCHANGED <<files, foreign, cursor, position, holders>>

\* findex_nif_close_directory.  Directory.list closes when it has its answer,
\* and an exception on the way closes too.
Close(p) ==
    /\ p \in holders /\ at[p] = "idle" /\ lock = NULL
    /\ CloseCursor
    /\ UNCHANGED <<foreign, resource, listing, lock, position, holders, calls>>

-----------------------------------------------------------------------------
(* The rest of the process *)

OpenElsewhere(d) ==
    /\ files[d] = "closed"
    /\ files' = [files EXCEPT ![d] = "foreign"]
    /\ foreign' = foreign \cup {d}
    /\ UNCHANGED <<cursor, position, holders, calls>>

CloseElsewhere(d) ==
    /\ d \in foreign
    /\ files' = [files EXCEPT ![d] = "closed"]
    /\ foreign' = foreign \ {d}
    /\ UNCHANGED <<cursor, position, holders, calls>>

Use(p) ==
    \/ Share(p) \/ DropHandle(p) \/ Close(p)
    \/ RefuseNext(p) \/ StartRead(p) \/ ReadBatch(p) \/ ReadNothing(p) \/ Decode(p)

Next ==
    \/ OpenPath \/ MakeCursor \/ Destruct
    \/ \E p \in Processes : Use(p)
    \/ \E d \in Descriptors : OpenElsewhere(d) \/ CloseElsewhere(d)

Spec == Init /\ [][Next]_vars

-----------------------------------------------------------------------------
(* Properties *)

\* Every variable has its type.
TypeOK ==
    /\ files \in [Descriptors -> {"closed", "cursor", "foreign"}]
    /\ foreign \subseteq Descriptors
    /\ resource \in {"none", "opened", "live", "refused", "destroyed"}
    /\ listing \in BOOLEAN /\ exhausted \in BOOLEAN
    /\ fd \in Descriptors \cup {NULL}
    /\ lock \in Processes \cup {NULL}
    /\ position \in 0 .. EntryCount
    /\ holders \subseteq Processes
    /\ at \in [Processes -> {"idle", "reading", "decoding"}]
    /\ batch \in [Processes -> SUBSET (1 .. EntryCount)]
    /\ answer \in [Processes -> Answers]
    /\ received \in [Processes -> SUBSET (1 .. EntryCount)]
    /\ lost \subseteq 1 .. EntryCount

\* The cursor closes its own descriptor, once, and nothing else: no other file
\* of the process is closed under its owner, the number in the cursor is that
\* of its directory as long as it is there, also during a system call, and
\* nothing stays open behind a refused or destroyed cursor.
DescriptorsStayOurs ==
    /\ foreign = {d \in Descriptors : files[d] = "foreign"}
    /\ fd # NULL => files[fd] = "cursor"
    /\ \A p \in Processes : at[p] = "reading" => fd # NULL
    /\ \A d \in Descriptors : files[d] = "cursor" => d = fd /\ resource \in {"opened", "live"}

Has(p) == received[p] \cup batch[p]

\* Readers that share a cursor partition the directory: what the kernel handed
\* out is with one reader, or in one buffer, or was lost to a call that said so.
\* "done" is said only at the true end, never because of a close or an error,
\* so that the done of Directory.list comes with every entry.
EntriesComeOnce ==
    /\ \A n \in 1 .. EntryCount :
          n <= position <=> n \in lost \/ \E p \in Processes : n \in Has(p)
    /\ \A p \in Processes :
          /\ received[p] \cap batch[p] = {} /\ Has(p) \cap lost = {}
          /\ \A q \in Processes \ {p} : Has(p) \cap Has(q) = {}
    /\ \A p \in Processes : answer[p] = "done" => position = EntryCount
    /\ listing /\ answer[Opener] = "done" => received[Opener] = 1 .. EntryCount
=============================================================================
