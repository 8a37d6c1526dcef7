--------------------------- MODULE MCDenoInstall ---------------------------
(* A small instance of DenoInstall for TLC.                                *)
EXTENDS DenoInstall

CONSTANTS p1, p2, j1, j2, j3

\* Two jobs of one process, one of another.
Homes == [j \in {j1, j2, j3} |-> IF j = j3 THEN p2 ELSE p1]
=============================================================================
