--------------------------- MODULE TrackPipeline ---------------------------
(***************************************************************************)
(* The pipeline of one track, RunTrackPipeline of                          *)
(* backend/track_pipeline.go: audio, cover, metadata and lyrics are        *)
(* fetched by goroutines of their own into a staging directory, each sends *)
(* one result into a buffered channel, and the pipeline takes the results  *)
(* in a fixed order, tags the audio and publishes it.                      *)
(*                                                                         *)
(* Cover and metadata have a budget that starts with their goroutine,      *)
(* lyrics have an absolute deadline counted from the start of the          *)
(* pipeline.  Time is the set of the budgets that have run out.            *)
(***************************************************************************)

Optional == {"lyrics", "cover", "metadata"}
Branch   == {"audio"} \cup Optional

VARIABLES
  wanted,          \* the optional results the request asks for
  pc,              \* where the goroutine of the pipeline is
  result,          \* what it returns
  branch,          \* branch -> its goroutine, or what is in its channel
  expired,         \* optional branches whose time is over
  trackCancelled,  \* the context of the track is cancelled
  taken,           \* optional results that go into the file
  warned,          \* optional branches a warning was added for
  staging          \* the staging directory of the track

pipelineVars ==
  <<wanted, pc, result, branch, expired, trackCancelled, taken, warned, staging>>

PipelineInit ==
  /\ wanted \in SUBSET Optional
  /\ pc = "idle" /\ result = "none"
  /\ branch = [b \in Branch |-> "none"]
  /\ expired = {} /\ trackCancelled = FALSE
  /\ taken = {} /\ warned = {}
  /\ staging = "absent"

Running(b) == branch[b] = "running"
Started == pc \notin {"idle", "resolving", "done"}

-----------------------------------------------------------------------------
(* The world around: the user, the clock and the branches.                 *)

CancelTrack ==
  /\ pc # "done" /\ ~trackCancelled
  /\ trackCancelled' = TRUE
  /\ UNCHANGED <<wanted, pc, result, branch, expired, taken, warned,
                staging>>

Expire(b) ==
  /\ b \notin expired
  /\ IF b = "lyrics" THEN pc \notin {"idle", "done"} ELSE Started
  /\ expired' = expired \cup {b}
  /\ UNCHANGED <<wanted, pc, result, branch, trackCancelled, taken,
                warned, staging>>

\* A branch sends its only result, in time or late; that of the lyrics tells
\* when it was complete, which the others do not.
BranchEnds(b) ==
  /\ Running(b)
  /\ \E outcome \in IF b \in expired THEN {"late"} ELSE {"ok", "failed"} :
       branch' = [branch EXCEPT ![b] = outcome]
  /\ UNCHANGED <<wanted, pc, result, expired, trackCancelled, taken,
                warned, staging>>

\* The context of branch b is done: cancelled with the track, by its own
\* deadline, or by the end of the pipeline.
Done(b) == trackCancelled \/ b \in expired \/ pc = "closing"

-----------------------------------------------------------------------------
(* The goroutine of the pipeline.                                          *)

\* Every return after the branches started runs the deferred cleanup.
Return(r) == pc' = (IF Started THEN "closing" ELSE "done") /\ result' = r
Fail ==
  /\ Return("failed")
  /\ UNCHANGED <<wanted, branch, expired, trackCancelled, taken, warned, staging>>

\* Every step but the waits can fail, by itself or because of a cancelled
\* context.
StepFails ==
  /\ pc \in {"idle", "resolving", "probing", "finalizing", "publishing"}
  /\ Fail

ExistingFound ==
  /\ pc = "idle" /\ ~trackCancelled
  /\ Return("exists")
  /\ UNCHANGED <<wanted, branch, expired, trackCancelled, taken, warned, staging>>

ResolveTarget ==
  /\ pc = "idle" /\ ~trackCancelled
  /\ pc' = "resolving"
  /\ UNCHANGED <<wanted, result, branch, expired, trackCancelled, taken,
                warned, staging>>

\* The lyrics are not even asked for when their deadline has passed.
StartBranches ==
  /\ pc = "resolving"
  /\ LET late == wanted \cap expired \cap {"lyrics"}
     IN  /\ branch' = [b \in Branch |->
                         IF b \in (wanted \ late) \cup {"audio"}
                         THEN "running" ELSE "none"]
         /\ warned' = late
  /\ staging' = "present"
  /\ pc' = "audio"
  /\ UNCHANGED <<wanted, result, expired, trackCancelled, taken>>

AudioArrives ==
  /\ pc = "audio" /\ branch["audio"] = "ok" /\ ~trackCancelled
  /\ pc' = "probing"
  /\ UNCHANGED <<wanted, result, branch, expired, trackCancelled, taken,
                warned, staging>>

\* Without ffprobe the file is taken as it is.
Probe ==
  /\ pc = "probing"
  /\ pc' = "lyrics"
  /\ UNCHANGED <<wanted, result, branch, expired, trackCancelled, taken,
                warned, staging>>

\* The optional results are taken in this order.
After(b) == CASE b = "lyrics"   -> "cover"
              [] b = "cover"    -> "metadata"
              [] b = "metadata" -> "finalizing"

Use(b) == pc' = After(b) /\ taken' = taken \cup {b} /\ warned' = warned
Omit(b) == pc' = After(b) /\ taken' = taken /\ warned' = warned \cup {b}
Pass(b) == pc' = After(b) /\ taken' = taken /\ warned' = warned

\* A branch that was not started put an empty result into its channel.
Skip(b) ==
  /\ pc = b /\ branch[b] = "none"
  /\ Pass(b)
  /\ UNCHANGED <<wanted, result, branch, expired, trackCancelled, staging>>

\* A result that is already there counts if it was complete in time; else
\* the pipeline waits for what is left of the deadline.
TakeLyrics ==
  /\ pc = "lyrics"
  /\ \/ branch["lyrics"] = "ok" /\ Use("lyrics")
     \/ branch["lyrics"] \in {"failed", "late"} /\ Omit("lyrics")
     \/ Running("lyrics") /\ "lyrics" \in expired /\ Omit("lyrics")
  /\ UNCHANGED <<wanted, result, branch, expired, trackCancelled, staging>>

\* A select over the channel and the context of the branch, which chooses
\* at random when both are ready.
TakeResult(b) ==
  /\ pc = b /\ b \in {"cover", "metadata"}
  /\ \/ branch[b] \in {"ok", "late"} /\ Use(b)
     \/ branch[b] \in {"failed", "late"} /\ Omit(b)
     \/ b \in expired /\ Omit(b)
  /\ UNCHANGED <<wanted, result, branch, expired, trackCancelled, staging>>

\* Mutant of WaitFails: a failed download is not noticed.
WaitFailsIfCancelled ==
  /\ trackCancelled /\ pc \in {"audio", "cover", "metadata"}
  /\ Fail

\* The waits end with the context of the track; that for the audio also
\* with its failure.  Lyrics that are late are not waited for.
WaitFails ==
  /\ \/ pc = "audio" /\ (trackCancelled \/ branch["audio"] = "failed")
     \/ pc \in {"cover", "metadata"} /\ trackCancelled
     \/ pc = "lyrics" /\ Running("lyrics") /\ pc \notin expired /\ trackCancelled
  /\ Fail

\* Mutant of Finalize: lyrics that do not fit the audio vanish silently.
FinalizeSilently ==
  /\ pc = "finalizing"
  /\ \E unfit \in SUBSET (taken \cap {"lyrics"}) :
       taken' = taken \ unfit /\ warned' = warned
  /\ pc' = "publishing"
  /\ UNCHANGED <<wanted, result, branch, expired, trackCancelled, staging>>

\* Lyrics that do not fit the duration of the audio are dropped; the tags
\* are written in one pass.
Finalize ==
  /\ pc = "finalizing"
  /\ \E unfit \in SUBSET (taken \cap {"lyrics"}) :
       taken' = taken \ unfit /\ warned' = warned \cup unfit
  /\ pc' = "publishing"
  /\ UNCHANGED <<wanted, result, branch, expired, trackCancelled, staging>>

Publish ==
  /\ pc = "publishing" /\ ~trackCancelled
  /\ Return("published")
  /\ UNCHANGED <<wanted, branch, expired, trackCancelled, taken, warned, staging>>

\* Mutant of Close: branchWG.Wait is missing.
CloseAtOnce ==
  /\ pc = "closing"
  /\ pc' = "done" /\ staging' = "removed"
  /\ UNCHANGED <<wanted, result, branch, expired, trackCancelled, taken, warned>>

\* The deferred cleanup waits for all branches.
Close ==
  /\ pc = "closing" /\ \A b \in Branch : ~Running(b)
  /\ pc' = "done" /\ staging' = "removed"
  /\ UNCHANGED <<wanted, result, branch, expired, trackCancelled, taken, warned>>

Pipeline ==
  \/ StepFails \/ ExistingFound \/ ResolveTarget \/ StartBranches
  \/ AudioArrives \/ Probe \/ TakeLyrics \/ WaitFails
  \/ \E b \in Optional : Skip(b) \/ TakeResult(b)
  \/ Finalize \/ Publish \/ Close

PipelineNext ==
  \/ Pipeline \/ CancelTrack
  \/ \E b \in Branch : BranchEnds(b)
  \/ \E b \in Optional : Expire(b)

PipelineSpec == PipelineInit /\ [][PipelineNext]_pipelineVars

\* The pipeline goes on, time passes, and a branch whose context is done
\* returns.  The audio arrives or fails some day; cover, metadata and lyrics
\* need not.
FairPipelineSpec ==
  /\ PipelineSpec
  /\ WF_pipelineVars(Pipeline)
  /\ WF_pipelineVars(BranchEnds("audio"))
  /\ \A b \in Optional : WF_pipelineVars(Expire(b))
  /\ \A b \in Branch : WF_pipelineVars(Done(b) /\ BranchEnds(b))

-----------------------------------------------------------------------------
(* Properties.                                                             *)

PipelineTypeOK ==
  /\ pc \in {"idle", "resolving", "audio", "probing", "lyrics", "cover",
             "metadata", "finalizing", "publishing", "closing", "done"}
  /\ result \in {"none", "exists", "published", "failed"}
  /\ branch \in [Branch -> {"none", "running", "ok", "failed", "late"}]
  /\ expired \subseteq Optional /\ trackCancelled \in BOOLEAN
  /\ wanted \subseteq Optional /\ taken \subseteq wanted /\ warned \subseteq Optional
  /\ staging \in {"absent", "present", "removed"}

\* The staging directory is there as long as a branch may write into it, and
\* no pipeline ends without removing the one it made.
StagingOutlivesBranches ==
  /\ (\E b \in Branch : Running(b)) => staging = "present"
  /\ pc = "done" => staging # "present"

\* A published file has every result the request asked for, or a warning
\* tells which one is missing.
OmissionsAreReported ==
  result = "published" => wanted \subseteq taken \cup warned

\* Optional results that never come, or services that never answer, do not
\* keep a track from ending.
PipelineEnds == pc # "idle" ~> pc = "done"
=============================================================================
