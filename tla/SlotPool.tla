------------------------------ MODULE SlotPool ------------------------------
(***************************************************************************)
(* What the download scheduler promises: clients (a track of a queue) wait *)
(* for one of a fixed number of slots, run in it and finish; nobody waits  *)
(* while a slot is free; a client that finished may come back; all clients *)
(* are forgotten together, and only when none waits or runs.               *)
(***************************************************************************)
EXTENDS Integers, FiniteSets

CONSTANTS
  Client,  \* whoever may ask for a slot
  Slots    \* how many may hold one at a time

VARIABLE phase  \* client -> where it is

Phase == {"absent", "waiting", "running", "finished"}

\* How the phase of one client may change in a step.
Moves == {<<"absent", "waiting">>, <<"absent", "running">>,
          <<"absent", "finished">>,
          <<"waiting", "running">>, <<"waiting", "finished">>,
          <<"running", "finished">>,
          <<"finished", "waiting">>, <<"finished", "running">>}

In(p, s) == {c \in Client : p[c] = s}

\* Nobody waits while a slot is free, and no slot is given out twice.
Orderly(p) == /\ Cardinality(In(p, "running")) <= Slots
              /\ In(p, "waiting") # {}
                   => Cardinality(In(p, "running")) = Slots

Init == phase = [c \in Client |-> "absent"]

Advance ==
  /\ phase' \in [Client -> Phase]
  /\ \A c \in Client : \/ phase'[c] = phase[c]
                       \/ <<phase[c], phase'[c]>> \in Moves
  /\ Orderly(phase')

Forget ==
  /\ In(phase, "waiting") \cup In(phase, "running") = {}
  /\ phase' = [c \in Client |-> "absent"]

Spec == Init /\ [][Advance \/ Forget]_phase
=============================================================================
