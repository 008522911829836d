------------------------------ MODULE MCSession ------------------------------
(* Constants that make Session finite for TLC. *)
EXTENDS Session

\* Every operation of the bridge, as its own tests use it.
MCAllRequests == AllRequests

\* Operations of the Rust client, whose await_scan reads events instead.
MCFewRequests == {"start_scan", "index_status", "release_index", "shutdown"}
=============================================================================
