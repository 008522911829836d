---------------------------- MODULE MCFindexStore ----------------------------
(***************************************************************************)
(* Small instances of FindexStore: four ids (UINT32_MAX is 4), segments of *)
(* two records, a journal that starts with one slot, and batches with      *)
(* zero, one and two subdirectories, in row order and against it, next to  *)
(* rows that are no directories.                                           *)
(***************************************************************************)
EXTENDS FindexStore, TLC

MCBatches ==
    { [types |-> <<>>, rows |-> <<>>],
      [types |-> <<"other", "directory">>, rows |-> <<2>>],
      [types |-> <<"directory", "directory">>, rows |-> <<2, 1>>],
      [types |-> <<"directory", "failed">>, rows |-> <<2>>],      \* an error row
      [types |-> <<"directory">>, rows |-> <<1, 1>>],             \* a row twice
      [types |-> <<"directory">>, rows |-> <<2>>] }               \* no such row

\* Fewer shapes for the run whose subject is the readers.
MCFewBatches ==
    { [types |-> <<>>, rows |-> <<>>],
      [types |-> <<"directory", "other", "directory">>, rows |-> <<3, 1>>] }

ThreadSymmetry == Permutations(Threads)
=============================================================================
