---------------------------- MODULE MCMediaJobs -----------------------------
(* A small instance of MediaJobs for TLC.                                  *)
EXTENDS MediaJobs

CONSTANTS i1, qa, s1, s2, s3

OneQueue == [i \in ItemId |-> qa]
\* Every job may send its download twice.
Calls == ItemId \X {1, 2}
=============================================================================
