------------------------------ MODULE MCDesktop ------------------------------
(* Constants that make Desktop finite for TLC. *)
EXTENDS Desktop, TLC

CONSTANTS r, a, b

MCDirs == {r, a, b}
MCBytes == [d \in MCDirs |-> IF d = r THEN 1 ELSE 2]
=============================================================================
