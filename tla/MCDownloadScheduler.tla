------------------------ MODULE MCDownloadScheduler ------------------------
(* Small instances of DownloadScheduler for TLC.                           *)
EXTENDS DownloadScheduler, TLC

CONSTANTS q1, q2, q3, t1, t2

Entry(t, u) == [track |-> t, unavailable |-> u]

\* One track, one track that is unavailable, two tracks, a track twice, and
\* an unavailable entry before an available one of the same track.
MixedBatches ==
  {<<Entry(t1, FALSE)>>, <<Entry(t2, TRUE)>>,
   <<Entry(t1, FALSE), Entry(t2, FALSE)>>,
   <<Entry(t2, FALSE), Entry(t2, FALSE)>>,
   <<Entry(t2, TRUE), Entry(t2, FALSE)>>}

\* Batches for the rotation: one track or two.
PlainBatches ==
  {<<Entry(t1, FALSE)>>, <<Entry(t1, FALSE), Entry(t2, FALSE)>>}

\* One result that counts as finished, one non-terminal and one exception.
MixedResults == {"completed", "queued", "throws"}

\* Without rejected settlements to tell apart, one result is enough.
OneResult == {"completed"}

QueueSymmetry == Permutations({q1, q2, q3})
=============================================================================
