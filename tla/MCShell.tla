------------------------------ MODULE MCShell ------------------------------
(* Constants that make Shell finite for TLC. *)
EXTENDS Shell, TLC

CONSTANTS home, missing

MCRoots == {home, missing}
MCCanonical == [r \in MCRoots |-> IF r = missing THEN NO_ROOT ELSE home]
Stop(tab, night, leaf) == [tab |-> tab, dark |-> night, deep |-> leaf]
MCSteps == <<Stop("Treemap", FALSE, FALSE), Stop("Graph", TRUE, TRUE)>>
MCSeconds == {8}
MCTabs == {"Diagnostics"}
MCPhases == {"complete"}
=============================================================================
