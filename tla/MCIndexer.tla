------------------------------ MODULE MCIndexer ------------------------------
(* Constants that make Indexer finite for TLC. *)
EXTENDS Indexer, TLC

CONSTANTS r, a, b, v, w

\* A root with two subdirectories.
MCDirs == {r, a, b}
MCChildren == (r :> {a, b}) @@ (a :> {}) @@ (b :> {})
MCRows == (r :> 3) @@ (a :> 1) @@ (b :> 0)

MCWorkers == {v, w}
=============================================================================
