--------------------------- MODULE MCDownloadPage ---------------------------
(* A small instance of DownloadPage for TLC.                               *)
EXTENDS DownloadPage

CONSTANTS qa, qb

\* The first track of a playlist alone, its whole playlist, one track of which
\* is unavailable, and a track of another queue.
SmallBatches ==
  {[queue |-> qa, tracks |-> {1}], [queue |-> qa, tracks |-> {1, 2, 3}],
   [queue |-> qb, tracks |-> {2}]}
=============================================================================
