------------------------------ MODULE MCNative ------------------------------
(* The three parts of the native library that share no state, each in the  *)
(* behaviours that are about it, while the others stay as they began.      *)
EXTENDS DirectoryCursor, DirectoryScan, StoreCleanup

VARIABLE part
native == <<vars, scan_vars, cleanup_vars, part>>

CONSTANTS p1, p2, s1, s2, s3, s4

\* Two readers, two descriptor numbers, three entries in batches of one or two.
MCProcesses == {p1, p2}
MCDescriptors == {3, 4}

\* Directories of up to four entries: files, directories on and off this file
\* system, two errors, a record that needs a larger buffer and one that no
\* buffer holds.
Plain(kind, size) == [kind |-> kind, error |-> 0, mount |-> "unknown", size |-> size]
Folder(mount) == [kind |-> "directory", error |-> 0, mount |-> mount, size |-> 1]
Failed(number) == [kind |-> "untyped", error |-> number, mount |-> "unknown", size |-> 1]
Small == {Plain("regular", 1), Folder("none"), Folder("mounted"), Failed(13)}
Others == {Plain("symlink", 1), Plain("other", 3), Plain("regular", 5), Folder("unknown"), Failed(5)}
MCDirectories ==
    UNION {[1 .. n -> Small \cup Others] : n \in 0 .. 2} \cup UNION {[1 .. n -> Small] : n \in 3 .. 4}

\* Four stores: one is freed while two wait in the list and one is built.
MCStores == {s1, s2, s3, s4}

NativeInit ==
    /\ part \in {"cursor", "scan", "cleanup"}
    /\ Init /\ (part # "cursor" => ~ listing)
    /\ ScanInit /\ (part # "scan" => arguments = <<<<>>, "cross_mounts", {}>> /\ buffer_size = 1)
    /\ CleanupInit

NativeNext ==
    /\ UNCHANGED part
    /\ \/ part = "cursor" /\ Next /\ UNCHANGED <<scan_vars, cleanup_vars>>
       \/ part = "scan" /\ ScanNext /\ UNCHANGED <<vars, cleanup_vars>>
       \/ part = "cleanup" /\ CleanupNext /\ UNCHANGED <<vars, scan_vars>>

NativeSpec == NativeInit /\ [][NativeNext]_native /\ CleanupFairness
=============================================================================
