---------------------------- MODULE DurableCache ----------------------------
(***************************************************************************)
(* What the metadata cache promises of its file: what is stored is always  *)
(* a whole cache, one the program held, and never gives way to an older    *)
(* one; a crash falls back to it; and a Close that reports no error leaves *)
(* nothing behind.  What the cache holds is a number that grows with every *)
(* change.                                                                 *)
(***************************************************************************)
EXTENDS Naturals

VARIABLES
  held,    \* what the cache holds
  stored,  \* what a restart finds
  status   \* "open", "closing", "flushed" or "failed" (Close has returned)

Init == held = 0 /\ stored = 0 /\ status = "open"

Change ==
  /\ status = "open"
  /\ held' = held + 1 /\ UNCHANGED <<stored, status>>

\* What is stored becomes something the cache held since.
Store ==
  /\ status \in {"open", "closing"}
  /\ stored' \in stored .. held /\ UNCHANGED <<held, status>>

Close ==
  /\ status = "open" /\ status' = "closing" /\ UNCHANGED <<held, stored>>

\* Close returns with an error, or all is stored.
Closed ==
  /\ status = "closing"
  /\ \/ status' = "flushed" /\ stored = held
     \/ status' = "failed"
  /\ UNCHANGED <<held, stored>>

Crash == held' = stored /\ status' = "open" /\ UNCHANGED stored

Next == Change \/ Store \/ Close \/ Closed \/ Crash

Spec == Init /\ [][Next]_<<held, stored, status>>
=============================================================================
