---------------------------- MODULE DownloadPage ----------------------------
(***************************************************************************)
(* What the page makes of its downloads: the summary of a batch, the       *)
(* requests for redownloads from YouTube and the playlist files, written   *)
(* when a queue becomes idle (frontend/src/hooks/useDownload.ts), around   *)
(* the scheduler and the sessions of useDownloadQueues.ts and the rows of  *)
(* lib/batch-summary.ts.                                                   *)
(*                                                                         *)
(* Jobs are numbered in the order in which they are enqueued.  Which of    *)
(* them run is left to DownloadScheduler: a job is live until it ends.     *)
(* Promise callbacks run before the next event, so the callback of an idle *)
(* queue that waits for nothing comes before any other step (Quiet).       *)
(***************************************************************************)
EXTENDS FiniteSetsExt, Integers, Sequences

CONSTANTS
  Queue,
  Playlists,    \* the queues of playlists whose settings ask for a file
  Track,        \* tracks, by their index in the playlist
  Unavailable,  \* the tracks without a Spotify id
  NoQueue,
  Batches,      \* bound: the batches, a queue and tracks of it, that are enqueued
  MaxJobs,      \* bound: the jobs that are enqueued
  MaxCallbacks, \* bound: the idle callbacks of a queue that wait when it is added to
  MaxSessions   \* bound: the sessions that are started

ASSUME QueueAssumption == NoQueue \notin Queue /\ Playlists \subseteq Queue
ASSUME BatchAssumption ==
  \A b \in Batches : b.queue \in Queue /\ b.tracks \subseteq Track /\ IsFiniteSet(b.tracks)
ASSUME TrackAssumption == Track \subseteq Nat /\ Unavailable \subseteq Track

VARIABLES
  jobs,       \* the jobs so far
  listed,     \* the jobs the scheduler lists
  base,       \* the first job of this session
  resetting,  \* a new session is being started
  sessions,
  work,       \* of each queue, the snapshots its idle callbacks wait with
  writes,     \* of each queue, the playlist files being written
  summarized, \* the number of jobs a queue was last summarized with
  summary,
  requests,   \* of each queue, the rows for which there is a request
  paths,      \* of each playlist, the job whose file each track has
  file,       \* of each playlist, the file this session wrote, or Failed
  reported,   \* history: the jobs of the session an idle callback has seen
  disturbed,  \* history: the queues that had callbacks when history was cleared
  forgotten   \* history: the page was left since the summary was made

pageVars == <<summarized, summary, requests, paths, reported, forgotten>>
fileVars == <<writes, file>>
sessionVars == <<base, resetting, sessions, disturbed>>
vars == <<jobs, listed, work, pageVars, fileVars, sessionVars>>

\* A job ends completed (or skipped), as a problem (failed, or its file is
\* suspicious) or cancelled; one whose track is unavailable has never run.
Outcome == {"completed", "problem", "cancelled"}
Ids == 1 .. Len(jobs)
NoPaths == [t \in Track |-> 0]
Failed == <<>>
NoSummary(g) == [queue |-> NoQueue, generation |-> g, rows |-> <<>>]

Init ==
  /\ jobs = <<>> /\ listed = {} /\ base = 1
  /\ resetting = FALSE /\ sessions = 0
  /\ work = [q \in Queue |-> <<>>] /\ writes = [q \in Queue |-> {}]
  /\ summarized = [q \in Queue |-> 0]
  /\ summary = NoSummary(0)
  /\ requests = [q \in Queue |-> {}]
  /\ paths = [q \in Queue |-> NoPaths] /\ file = [q \in Queue |-> NoPaths]
  /\ reported = {} /\ disturbed = {} /\ forgotten = FALSE

\* No callback can run before the next event.
Quiet == \A q \in Queue : work[q] # <<>> => writes[q] # {}

-----------------------------------------------------------------------------
(* The scheduler and its watcher.                                          *)

Of(q) == {j \in listed : jobs[j].queue = q}
Live(q) == {j \in Of(q) : jobs[j].status = "live"}

\* scheduleQueueIdle: the callback is chained to those of the same queue.
ScheduleQueueIdle(Q) ==
  work' = [q \in Queue |->
             IF q \in Q THEN Append(work[q], {j \in listed' : jobs'[j].queue = q})
             ELSE work[q]]

\* The watcher: queues that were busy and are no longer.
Settled == {q \in Queue : Live(q) # {} /\ ~\E j \in Live(q) : jobs'[j].status = "live"}

\* The newest job of this session for a track, or 0: redownloads count, and
\* clearing the history does not forget it.
Latest(q, t) ==
  Max({0} \cup {j \in Ids : j >= base /\ jobs[j].queue = q /\ jobs[j].track = t})

\* addJob: the tracks of a batch that get a job, in their order.
Added(q, T, policy) ==
  LET A == {t \in T : LET j == Latest(q, t) IN
                        j = 0 \/ (policy = "retry-terminal" /\ jobs[j].status # "live")}
      Place(t) == Cardinality({u \in A : u <= t})
  IN [n \in 1 .. Cardinality(A) |-> CHOOSE t \in A : Place(t) = n]

EnqueueMany(new) ==
  /\ Len(jobs) + Len(new) <= MaxJobs
  /\ jobs' = jobs \o new
  /\ listed' = listed \cup (Len(jobs) + 1 .. Len(jobs) + Len(new))

\* notifyQueueIdleIfSettled: a queue none of whose jobs is live is summarized
\* at once.
NotifyQueueIdleIfSettled(q) ==
  ScheduleQueueIdle(IF \E j \in listed' : jobs'[j].queue = q /\ jobs'[j].status = "live"
                    THEN {} ELSE {q})

SpotifyJob(q, t) ==
  [queue |-> q, kind |-> "spotify", track |-> t, row |-> 0, generation |-> 0,
   status |-> IF t \in Unavailable THEN "unavailable" ELSE "live"]

\* enqueueAll, enqueueSelected and retryTrack.
Enqueue(q, T, policy) ==
  /\ Quiet /\ ~resetting /\ Len(work[q]) < MaxCallbacks
  /\ policy = "retry-terminal" => Cardinality(T) = 1
  /\ LET added == Added(q, T, policy) IN
       EnqueueMany([n \in DOMAIN added |-> SpotifyJob(q, added[n])])
  /\ NotifyQueueIdleIfSettled(q)
  /\ UNCHANGED <<pageVars, fileVars, sessionVars>>

Eligible(rows) ==
  {r \in DOMAIN rows : rows[r].retryable /\ rows[r].status = "problem"}

\* enqueueYouTubeRetries, of rows of the summary that have a request.  Its
\* jobs remember the queue and the generation of the summary.
RetryFromYouTube(S) ==
  /\ Quiet /\ ~resetting
  /\ summary.queue # NoQueue /\ S # {} /\ S \subseteq Eligible(summary.rows)
  /\ LET q == summary.queue
         RowOf(t) == CHOOSE r \in S : jobs[r].track = t
         added == Added(q, {jobs[r].track : r \in S \cap requests[q]}, "retry-terminal")
     IN /\ Len(work[q]) < MaxCallbacks
        /\ EnqueueMany([n \in DOMAIN added |->
                          [queue |-> q, kind |-> "youtube", track |-> added[n], row |-> RowOf(added[n]),
                           generation |-> summary.generation, status |-> "live"]])
        /\ NotifyQueueIdleIfSettled(q)
  /\ UNCHANGED <<pageVars, fileVars, sessionVars>>

-----------------------------------------------------------------------------
(* Jobs end.                                                               *)

Ends(S, status) ==
  /\ jobs' = [j \in Ids |-> IF j \in S THEN [jobs[j] EXCEPT !.status = status] ELSE jobs[j]]
  /\ UNCHANGED listed
  /\ ScheduleQueueIdle(Settled)

\* Mutant of SpotifyEnds: what ends while a session is started is ignored.
SpotifyEndsUnlessResetting(j) ==
  /\ Quiet /\ ~resetting /\ j \in listed
  /\ jobs[j].status = "live" /\ jobs[j].kind = "spotify"
  /\ \E status \in Outcome : Ends({j}, status)
  /\ UNCHANGED <<pageVars, fileVars, sessionVars>>

SpotifyEnds(j) ==
  /\ Quiet /\ j \in listed /\ jobs[j].status = "live" /\ jobs[j].kind = "spotify"
  /\ \E status \in Outcome : Ends({j}, status)
  /\ UNCHANGED <<pageVars, fileVars, sessionVars>>

\* Mutant of Fulfils: any result uses up the request.
Answers(status) == TRUE

\* The results that use up the request for a redownload.
Fulfils(status) == status = "completed"

\* onYouTubeResult: the summary that is shown takes the result if it is the
\* one the redownload was asked from.
OnYouTubeResult(j, status) ==
  LET q == jobs[j].queue  r == jobs[j].row IN
  IF summary.queue # q \/ summary.generation # jobs[j].generation
    THEN UNCHANGED <<summary, requests>>
    ELSE
      /\ requests' = [requests EXCEPT ![q] = IF Fulfils(status) THEN @ \ {r} ELSE @]
      /\ IF status = "completed" /\ r \in DOMAIN summary.rows /\ summary.rows[r].retryable
         THEN summary' = [summary EXCEPT !.rows[r].status = "replaced",
                                         !.rows[r].retryable = FALSE]
         ELSE UNCHANGED summary

\* A rejected call ends the job without a result.
YouTubeEnds(j) ==
  /\ Quiet /\ j \in listed /\ jobs[j].status = "live" /\ jobs[j].kind = "youtube"
  /\ \E status \in Outcome :
       /\ Ends({j}, status)
       /\ \/ OnYouTubeResult(j, status)
          \/ status # "completed" /\ UNCHANGED <<summary, requests>>
  /\ UNCHANGED <<summarized, paths, reported, forgotten, fileVars, sessionVars>>

\* cancelQueue: queued jobs end at once, active ones when they notice.
StopQueue(q) ==
  /\ Quiet
  /\ \E S \in SUBSET Live(q) : S # {} /\ Ends(S, "cancelled")
  /\ UNCHANGED <<pageVars, fileVars, sessionVars>>

-----------------------------------------------------------------------------
(* A queue is idle: onQueueIdle.                                           *)

\* latestTerminalQueueJobs
LatestTerminalQueueJobs(S) ==
  {j \in S : ~\E k \in S : k > j /\ jobs[k].track = jobs[j].track}

\* The track of a row is that of its job.
Row(j) ==
  [status |-> IF jobs[j].status = "unavailable" THEN "problem" ELSE jobs[j].status,
   retryable |-> jobs[j].status = "problem"]

\* Mutant of MergeQueueSummary: the rows are made anew.
FreshQueueSummary(fresh) == fresh

\* mergeQueueSummary: rows that are shown already are kept as they are.
MergeQueueSummary(fresh) ==
  [j \in DOMAIN fresh |-> IF j \in DOMAIN summary.rows THEN summary.rows[j] ELSE fresh[j]]

\* The summary of another queue, or of none, makes way for a new one.
Summarize(q, fresh) ==
  summary' =
    IF summary.queue = q THEN [summary EXCEPT !.rows = MergeQueueSummary(fresh)]
    ELSE [queue |-> q, generation |-> summary.generation + 1, rows |-> fresh]

\* Problem rows get a request, rows that are no longer one lose theirs.
KeepRequests(q) ==
  requests' = [requests EXCEPT ![q] =
    {r \in Eligible(summary'.rows) :
       r \in requests[q] \/ jobs[r].status = "problem"}]

Finished(S) == {j \in S : jobs[j].status = "completed"}

\* Mutant of NewPaths: the file names only what this batch has brought.
BatchPaths(q, S) ==
  [t \in Track |-> Max({0} \cup {j \in Finished(S) : jobs[j].track = t})]

\* The newest file of each track, of this batch or an earlier one.
NewPaths(q, S) ==
  [t \in Track |-> LET F == {j \in Finished(S) : jobs[j].track = t} IN
                     IF F = {} THEN paths[q][t] ELSE Max(F)]

CollectPaths(q, S) ==
  IF q \notin Playlists THEN UNCHANGED <<paths, writes>>
  ELSE /\ paths' = [paths EXCEPT ![q] = NewPaths(q, S)]
       /\ writes' = IF paths'[q] = NoPaths THEN writes
                    ELSE [writes EXCEPT ![q] = @ \cup {paths'[q]}]

OnQueueIdle(q) ==
  /\ work[q] # <<>> /\ writes[q] = {}
  /\ work' = [work EXCEPT ![q] = Tail(@)]
  /\ LET S == {j \in Head(work[q]) : jobs[j].kind = "spotify"}
         fresh == [j \in LatestTerminalQueueJobs(S) |-> Row(j)]
     IN IF S = {} \/ summarized[q] = Cardinality(S)
        THEN UNCHANGED <<summarized, summary, requests, paths, writes, reported, forgotten>>
        ELSE /\ summarized' = [summarized EXCEPT ![q] = Cardinality(S)]
             /\ Summarize(q, fresh) /\ KeepRequests(q)
             /\ CollectPaths(q, S)
             /\ reported' = reported \cup S /\ forgotten' = FALSE
  /\ UNCHANGED <<jobs, listed, file, sessionVars>>

\* CreateM3U8File answers, with an error or without.
M3U8Written(q) ==
  /\ Quiet
  /\ \E written \in writes[q] :
       /\ writes' = [writes EXCEPT ![q] = @ \ {written}]
       /\ \E answer \in {written, Failed} : file' = [file EXCEPT ![q] = answer]
  /\ UNCHANGED <<jobs, listed, work, pageVars, sessionVars>>

-----------------------------------------------------------------------------
(* The history, sessions and pages.                                        *)

\* Mutant of ForgetCounts: how much was summarized is not forgotten.
KeepCounts == UNCHANGED summarized

ForgetCounts == summarized' = [q \in Queue |-> 0]

\* clearCompletedQueues
ClearCompleted ==
  /\ Quiet /\ ~resetting
  /\ \E j \in listed : jobs[j].status # "live"
  /\ listed' = {j \in listed : jobs[j].status = "live"}
  /\ ForgetCounts
  /\ disturbed' = disturbed \cup {q \in Queue : work[q] # <<>>}
  /\ UNCHANGED <<jobs, work, summary, requests, paths, reported, forgotten, fileVars,
                 base, resetting, sessions>>

\* startNewSession stops all queues, waits for their jobs and their idle
\* callbacks, and starts afresh; meanwhile nothing is enqueued.
SessionBegins ==
  /\ Quiet /\ ~resetting /\ sessions < MaxSessions
  /\ resetting' = TRUE /\ sessions' = sessions + 1
  /\ \E S \in SUBSET {j \in listed : jobs[j].status = "live"} : Ends(S, "cancelled")
  /\ UNCHANGED <<pageVars, fileVars, base, disturbed>>

\* Mutant of Stopped: the idle callbacks are not waited for.
NoneRuns == \A q \in Queue : Live(q) = {}

\* No job runs and no idle callback waits.
Stopped == \A q \in Queue : Live(q) = {} /\ work[q] = <<>> /\ writes[q] = {}

SessionEnds ==
  /\ Quiet /\ resetting /\ Stopped
  /\ resetting' = FALSE /\ base' = Len(jobs) + 1
  /\ listed' = {} /\ disturbed' = {}
  /\ ForgetCounts
  /\ summary' = NoSummary(summary.generation + 1)
  /\ requests' = [q \in Queue |-> {}] /\ paths' = [q \in Queue |-> NoPaths]
  /\ file' = [q \in Queue |-> NoPaths]
  /\ reported' = {} /\ forgotten' = FALSE
  /\ UNCHANGED <<jobs, sessions, work, writes>>

\* resetForMetadata: another page of metadata is shown.
Navigate ==
  /\ Quiet /\ \E q \in Queue : requests[q] # {}
  /\ requests' = [q \in Queue |-> {}] /\ forgotten' = TRUE
  /\ UNCHANGED <<jobs, listed, work, summarized, summary, paths, reported, fileVars, sessionVars>>

Progress ==
  \/ \E j \in Ids : SpotifyEnds(j) \/ YouTubeEnds(j)
  \/ \E q \in Queue : OnQueueIdle(q) \/ M3U8Written(q)
  \/ SessionEnds

Next ==
  \/ \E b \in Batches, policy \in {"unseen-only", "retry-terminal"} :
       Enqueue(b.queue, b.tracks, policy)
  \/ \E S \in SUBSET DOMAIN summary.rows : RetryFromYouTube(S)
  \/ Progress
  \/ \E q \in Queue : StopQueue(q)
  \/ ClearCompleted \/ SessionBegins \/ Navigate

Spec == Init /\ [][Next]_vars

\* Stopped jobs end, files are written or not, and callbacks run.
FairSpec == Spec /\ WF_vars(Progress)

-----------------------------------------------------------------------------
(* Properties.                                                             *)

\* Nothing is left to do for a queue.
Idle(q) == Live(q) = {} /\ work[q] = <<>> /\ writes[q] = {}

\* Every job that is listed for an idle queue was summarized, those that were
\* never run because their track is unavailable too.  A queue whose history
\* was cleared while a callback of it was waiting is disturbed and excluded
\* until the next session: the count the callback stores may hide a batch.
NoJobIsMissed ==
  \A q \in Queue \ disturbed :
    Idle(q) => {j \in Of(q) : jobs[j].kind = "spotify"} \subseteq reported

\* The playlist file of an idle queue names the newest file of every track of
\* the session, also those that were cleared since, unless the page has said
\* it could not be written.  Disturbed queues are excluded here as well.
PlaylistIsCurrent ==
  \A q \in Playlists \ disturbed, t \in Track :
    LET F == {j \in Finished(listed \cup reported) :
                jobs[j].kind = "spotify" /\ jobs[j].queue = q /\ jobs[j].track = t}
    IN Idle(q) /\ F # {} /\ file[q] # Failed => file[q][t] = Max(F)

\* A row offered for a redownload has its request, as long as the page stays.
OfferedRowsHaveRequests ==
  summary.queue # NoQueue /\ ~forgotten =>
    Eligible(summary.rows) \subseteq requests[summary.queue]

\* What was replaced is not offered again while its summary is shown, and its
\* row goes only if the track was tried again or the history was cleared.
ReplacedStaysReplaced ==
  [][\A r \in DOMAIN summary.rows :
       summary.rows[r].status = "replaced" /\ summary'.generation = summary.generation
         => IF r \in DOMAIN summary'.rows THEN summary'.rows[r].status = "replaced"
            ELSE r \notin listed \/ Latest(jobs[r].queue, jobs[r].track) > r]_vars

\* Nothing of an earlier session is shown, requested or listed in a file.
SessionsAreSeparate ==
  /\ \A r \in DOMAIN summary.rows : r >= base
  /\ \A q \in Queue :
       /\ \A r \in requests[q] : r >= base
       /\ \A t \in Track : paths[q][t] >= base \/ paths[q][t] = 0

\* A new session starts, whatever the jobs and callbacks it waits for do.
SessionsStart == resetting ~> ~resetting
=============================================================================
