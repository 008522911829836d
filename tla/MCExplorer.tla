----------------------------- MODULE MCExplorer -----------------------------
(* Constants that make Explorer finite for TLC. *)
EXTENDS Explorer

MCIds == 0 .. 6
MCNoParent == -1

\* A root, and below it a chain, siblings whose order changes with what is
\* found below them, and leaves that cannot be read.
MCTreeParent == <<0, 0, 1, 1, 4, 4>> @@ (0 :> MCNoParent)
MCFiles == <<<<1, 3, 2>>, <<>>, <<6>>, <<2, 0, 2>>, <<5>>, <<>>>> @@ (0 :> <<4>>)

MCZooms == {50, 51, 100}
MCRootName == <<"/", "data">>
MCSlash == <<"/">>
=============================================================================
