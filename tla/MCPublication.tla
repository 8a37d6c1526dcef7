--------------------------- MODULE MCPublication ---------------------------
(* Small instances of Publication for TLC.                                 *)
EXTENDS Publication, TLC

CONSTANTS p1, p2, t1, t2, t3, r1, r2, r3

\* Two tracks of one path, one of them forced, and a third where the original
\* of the YouTube jobs is.
TrackPaths == [t \in Track |-> IF t = t3 THEN p1 ELSE p2]

\* r1 replaces a file in place, r3 moves that file to Suspicious and puts the
\* new one where the tracks publish, as r2 does for a file that lies in
\* Suspicious already.
Originals == [r \in Redo |-> IF r = r2 THEN 1 ELSE p1]
Replacements == [r \in Redo |-> IF r = r1 THEN p1 ELSE p2]

\* A track alone, which is downloaded although its file is there.
OneTrack == t1 :> p1
NoRedo == [r \in {} |-> p1]

\* All suspicious files have one name before it is made unique.
SameNames == [j \in Job |-> Slot]

\* Bound: any two of the jobs begin, or are cancelled before they do.
TwoJobs == Cardinality({j \in Job : job[j].pc # "idle"} \cup cancelled) <= 2
=============================================================================
