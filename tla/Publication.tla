---------------------------- MODULE Publication ----------------------------
(***************************************************************************)
(* How finished audio reaches the music library: the existing-file check   *)
(* and publishTrackPipelineFile of backend/track_pipeline.go, the move of  *)
(* a suspicious download (app_download_helpers.go), and the transaction by *)
(* which a YouTube job replaces a suspicious file                          *)
(* (backend/track_metadata_update.go).                                     *)
(*                                                                         *)
(* Every job runs in a goroutine of its own and works on one disk; only    *)
(* YouTube jobs take the publication mutex.  A step is one file operation. *)
(* A move is a rename or, between volumes, a copy: then the destination is *)
(* truncated and holds part of the file until the copy ends.               *)
(*                                                                         *)
(* What precedes publication (download, conversion, tags) is one step      *)
(* here; the module TrackPipeline models it.                               *)
(***************************************************************************)
EXTENDS Naturals, FiniteSets, FiniteSetsExt

CONSTANTS
  Path,         \* paths in the music folder
  Slots,        \* bound: number of names in the folder of suspicious files
  Track,        \* runs of DownloadTrack
  Redo,         \* runs of RedownloadTrackFromYouTube
  PathOf,       \* track -> the path its file name stands for
  NamesOf,      \* job -> the names CollisionSafePath tries for its file
  Forced,       \* the tracks that skip the check for an existing file
  Original,     \* redo -> where the suspicious file is, or None
  Replacement,  \* redo -> the path of the replacement
  Before,       \* the places that hold a file initially
  Perhaps,      \* the places that hold a file initially or do not
  None          \* no place, no file, no job

Slot  == 1..Slots
Job   == Track \cup Redo
\* A redo job stands also for its own rollback file, which has a unique name.
Place == Path \cup Slot \cup Redo

ASSUME PathOfAssumption == PathOf \in [Track -> Path]
ASSUME NamesOfAssumption == NamesOf \in [Job -> SUBSET Slot]
ASSUME ForcedAssumption == Forced \subseteq Track
ASSUME RedoAssumption ==
  /\ Original \in [Redo -> Path \cup Slot \cup {None}]
  /\ Replacement \in [Redo -> Path]
ASSUME BeforeAssumption == Before \cup Perhaps \subseteq Path \cup Slot
ASSUME NoneAssumption == None \notin Place \cup Job
\* A path, a name for a suspicious file, a track and a redo are told apart.
ASSUME KindsAssumption ==
  /\ Slots \in Nat
  /\ Path \cap (Slot \cup Job) = {} /\ Slot \cap Job = {} /\ Track \cap Redo = {}

VARIABLES
  disk,       \* place -> the file in it
  job,        \* job -> where its goroutine is
  cancelled,  \* jobs whose context is cancelled
  mutex,      \* the holder of youtubePublicationMu, or None
  crowded     \* history: the places where a track met another job

\* The state of the program; no step of it reads the history.
jobVars == <<disk, job, cancelled, mutex>>
vars == <<disk, job, cancelled, mutex, crowded>>

\* A file is named for the job that made it, or for the place it was in.
File(origin, whole) == [origin |-> origin, whole |-> whole]
NoFile == File(None, FALSE)
Whole(p) == disk[p].whole

Init ==
  /\ \E held \in SUBSET Perhaps :
       disk = [p \in Place |->
                 IF p \in Before \cup held THEN File(p, TRUE) ELSE NoFile]
  /\ job = [j \in Job |->
              [pc |-> "idle", slot |-> None, existed |-> FALSE,
               copying |-> FALSE, broken |-> FALSE, outcome |-> "none",
               found |-> <<NoFile, NoFile>>]]
  /\ cancelled = {}
  /\ mutex = None
  /\ crowded = {}

\* The path job j publishes to.
Target(j) == IF j \in Track THEN PathOf[j] ELSE Replacement[j]

GoTo(j, pc) == job' = [job EXCEPT ![j].pc = pc]
\* "failed" stands for the cancelled too.
EndAs(j, outcome) == job' = [job EXCEPT ![j].pc = "done", ![j].outcome = outcome]

Cancel(j) ==
  /\ job[j].pc # "done" /\ j \notin cancelled
  /\ cancelled' = cancelled \cup {j}
  /\ UNCHANGED <<disk, job, mutex>>

-----------------------------------------------------------------------------
(* A track before its publication.                                         *)

\* A non-empty file at the path ends the job at once; a file that is being
\* copied may be empty still.
FindExisting(t) ==
  /\ job[t].pc = "idle" /\ t \notin Forced \cup cancelled
  /\ disk[PathOf[t]] # NoFile
  /\ EndAs(t, "exists")
  /\ UNCHANGED <<disk, cancelled, mutex>>

\* Mutant of StartTrack: the file at the path is not looked for.
StartUnlooked(t) ==
  /\ job[t].pc = "idle"
  /\ GoTo(t, "working")
  /\ UNCHANGED <<disk, cancelled, mutex>>

\* The track starts its download: nothing it could keep is there.
StartTrack(t) ==
  /\ job[t].pc = "idle"
  /\ t \notin Forced => ~Whole(PathOf[t])
  /\ GoTo(t, "working")
  /\ UNCHANGED <<disk, cancelled, mutex>>

\* Resolution, download, conversion, probe or tags fail or are cancelled.
TrackFails(t) ==
  /\ job[t].pc = "working"
  /\ EndAs(t, "failed")
  /\ UNCHANGED <<disk, cancelled, mutex>>

TrackStaged(t) ==
  /\ job[t].pc = "working"
  /\ GoTo(t, "staged")
  /\ UNCHANGED <<disk, cancelled, mutex>>

-----------------------------------------------------------------------------
(* publishTrackPipelineFile, for tracks and for YouTube jobs.  The staged  *)
(* file lies in the directory of the job and is not on this disk.          *)

\* Mutant of AfterRollbackFile: the original is not put back.
AfterRollbackFileOnly(j) == "leave"

AfterRollbackFile(j) ==
  IF job[j].slot # None THEN "restoreOriginal" ELSE "leave"

\* What a job does when its publication failed, after the file was or was
\* not attempted to be written: the rollback of a YouTube job, or the end.
PublishFailed(j, attempted) ==
  IF j \in Track
  THEN EndAs(j, "failed")
  ELSE GoTo(j, CASE disk[j] # NoFile -> "restoreDestination"
                 [] disk[j] = NoFile /\ attempted /\ ~job[j].existed
                      -> "removeReplacement"
                 [] OTHER -> AfterRollbackFile(j))

\* The context was cancelled before, or a folder cannot be made or a file
\* not be opened.  A YouTube job asks for its context before it tries.
PublishRefused(j) ==
  /\ job[j].pc = "staged"
  /\ \E attempted \in IF j \in cancelled THEN BOOLEAN ELSE {TRUE} :
       PublishFailed(j, attempted)
  /\ UNCHANGED <<disk, cancelled, mutex>>

PublishRename(j) ==
  /\ job[j].pc = "staged" /\ j \notin cancelled
  /\ disk' = [disk EXCEPT ![Target(j)] = File(j, TRUE)]
  /\ GoTo(j, "placed")
  /\ UNCHANGED <<cancelled, mutex>>

\* The rename failed: the destination is opened with O_TRUNC.
PublishOpen(j) ==
  /\ job[j].pc = "staged" /\ j \notin cancelled
  /\ disk' = [disk EXCEPT ![Target(j)] = File(j, FALSE)]
  /\ GoTo(j, "copying")
  /\ UNCHANGED <<cancelled, mutex>>

PublishCopied(j) ==
  /\ job[j].pc = "copying"
  /\ disk' = [disk EXCEPT ![Target(j)] = File(j, TRUE)]
  /\ GoTo(j, "copied")
  /\ UNCHANGED <<cancelled, mutex>>

\* The destination is removed: the context is cancelled, or the copy, the
\* chmod or the removal of the source failed.
Withdraw(j) ==
  /\ \/ job[j].pc = "placed" /\ j \in cancelled
     \/ job[j].pc \in {"copying", "copied"}
  /\ disk' = [disk EXCEPT ![Target(j)] = NoFile]
  /\ PublishFailed(j, TRUE)
  /\ UNCHANGED <<cancelled, mutex>>

PublishReturns(j) ==
  /\ job[j].pc \in {"placed", "copied"} /\ j \notin cancelled
  /\ GoTo(j, "published")
  /\ UNCHANGED <<disk, cancelled, mutex>>

-----------------------------------------------------------------------------
(* DownloadTrack after the pipeline returned a published file.             *)

\* The file is gone by the time it is looked for, or the context is
\* cancelled: the published file, if any, is kept.
TrackRecheck(t) ==
  /\ job[t].pc = "published"
  /\ \/ disk[PathOf[t]] = NoFile /\ EndAs(t, "failed")
     \/ t \in cancelled /\ EndAs(t, "failed")
  /\ UNCHANGED <<disk, cancelled, mutex>>

TrackCompletes(t) ==
  /\ job[t].pc = "published" /\ t \notin cancelled
  /\ disk[PathOf[t]] # NoFile
  /\ EndAs(t, "completed")
  /\ UNCHANGED <<disk, cancelled, mutex>>

\* CollisionSafePath: the names of job j's file that are free right now.
FreeNames(j) == {k \in NamesOf[j] : disk[k] = NoFile}

\* The duration is wrong: the file goes to the folder Suspicious, under the
\* first name that is free when CollisionSafePath looks.
TrackSuspicious(t) ==
  /\ job[t].pc = "published" /\ t \notin cancelled
  /\ disk[PathOf[t]] # NoFile /\ FreeNames(t) # {}
  /\ job' = [job EXCEPT ![t].pc = "quarantine", ![t].slot = Min(FreeNames(t))]
  /\ UNCHANGED <<disk, cancelled, mutex>>

-----------------------------------------------------------------------------
(* RedownloadTrackFromYouTube until it moves a file.                       *)

StartRedo(r) ==
  /\ job[r].pc = "idle"
  /\ GoTo(r, "working")
  /\ UNCHANGED <<disk, cancelled, mutex>>

\* The download, the tags or the probe failed or were cancelled, or the new
\* file is suspicious too.  Nothing outside the job's directory was touched.
RedoFails(r) ==
  /\ job[r].pc = "working"
  /\ EndAs(r, "failed")
  /\ UNCHANGED <<disk, cancelled, mutex>>

\* Mutant of NeedsBackup: a file that is replaced in place is not kept.
NeedsBackupElsewhere(r) ==
  Original[r] \in Path /\ Original[r] # Replacement[r]

NeedsBackup(r) == Original[r] \in Path \/ Original[r] = Replacement[r]

RedoStaged(r) ==
  /\ job[r].pc = "working"
  /\ GoTo(r, "waiting")
  /\ UNCHANGED <<disk, cancelled, mutex>>

Lock(r) ==
  /\ job[r].pc = "waiting" /\ mutex = None
  /\ mutex' = r
  /\ GoTo(r, "locked")
  /\ UNCHANGED <<disk, cancelled>>

\* After the context check and the stat of the destination: the next thing
\* is to move the original, or an unrelated file at the destination, away.
FileAt(p) == IF p = None THEN NoFile ELSE disk[p]

AfterBackup(r, existed) ==
  IF existed /\ (Original[r] # Replacement[r] \/ ~NeedsBackup(r)) THEN "preserve" ELSE "staged"

Examine(r) ==
  /\ job[r].pc = "locked" /\ r \notin cancelled
  /\ \E existed \in {disk[Replacement[r]] # NoFile} :
       job' = [job EXCEPT
         ![r].pc = IF NeedsBackup(r) THEN "choose" ELSE AfterBackup(r, existed),
         ![r].existed = existed,
         ![r].found = <<FileAt(Original[r]), disk[Replacement[r]]>>]
  /\ UNCHANGED <<disk, cancelled, mutex>>

ExamineRefuses(r) ==
  /\ job[r].pc = "locked"
  /\ job' = [job EXCEPT ![r].pc = "leave",
               ![r].found = <<FileAt(Original[r]), disk[Replacement[r]]>>]
  /\ UNCHANGED <<disk, cancelled, mutex>>

\* CollisionSafePath of MoveSuspiciousOriginal.
ChooseSlot(r) ==
  /\ job[r].pc = "choose" /\ FreeNames(r) # {}
  /\ job' = [job EXCEPT ![r].pc = "backup", ![r].slot = Min(FreeNames(r))]
  /\ UNCHANGED <<disk, cancelled, mutex>>

-----------------------------------------------------------------------------
(* MoveFileWithFallback, for the moves of tracks and of YouTube jobs.      *)

From(j) == CASE job[j].pc = "quarantine"         -> Target(j)
             [] job[j].pc = "backup"             -> Original[j]
             [] job[j].pc = "preserve"           -> Target(j)
             [] job[j].pc = "restoreDestination" -> j
             [] job[j].pc = "restoreOriginal"    -> job[j].slot
To(j) == CASE job[j].pc \in {"quarantine", "backup"} -> job[j].slot
           [] job[j].pc = "preserve"                 -> j
           [] job[j].pc = "restoreDestination"       -> Target(j)
           [] job[j].pc = "restoreOriginal"          -> Original[j]

Moving(j, copying) ==
  /\ job[j].pc \in {"quarantine", "backup", "preserve", "restoreDestination",
                    "restoreOriginal"}
  /\ job[j].copying = copying

\* Where job j goes when its move ended.
Moved(j, ok) ==
  LET k == [job[j] EXCEPT !.copying = FALSE]
      restored == [k EXCEPT !.broken = k.broken \/ ~ok] IN
  job' = [job EXCEPT ![j] =
    CASE k.pc = "quarantine" ->
           [k EXCEPT !.pc = "done",
                     !.outcome = IF ok THEN "suspicious" ELSE "failed"]
      [] k.pc = "backup" /\ ok -> [k EXCEPT !.pc = AfterBackup(j, k.existed)]
      [] k.pc = "backup" /\ ~ok -> [k EXCEPT !.pc = "leave"]
      [] k.pc = "preserve" ->
           [k EXCEPT !.pc = IF ok THEN "staged" ELSE AfterRollbackFile(j)]
      [] k.pc = "restoreDestination" ->
           [restored EXCEPT !.pc = AfterRollbackFile(j)]
      [] k.pc = "restoreOriginal" -> [restored EXCEPT !.pc = "leave"]]

\* The disk after the file of place p arrived at place q.
Copied(p, q) == [disk EXCEPT ![q] = disk[p]]

MoveRename(j) ==
  /\ Moving(j, FALSE) /\ disk[From(j)] # NoFile
  /\ disk' = [Copied(From(j), To(j)) EXCEPT ![From(j)] = NoFile]
  /\ Moved(j, TRUE)
  /\ UNCHANGED <<cancelled, mutex>>

MoveOpen(j) ==
  /\ Moving(j, FALSE) /\ disk[From(j)] # NoFile
  /\ disk' = [Copied(From(j), To(j)) EXCEPT ![To(j)].whole = FALSE]
  /\ job' = [job EXCEPT ![j].copying = TRUE]
  /\ UNCHANGED <<cancelled, mutex>>

\* The copy ended and the source is removed.
MoveCopied(j) ==
  /\ Moving(j, TRUE)
  /\ disk' = [Copied(From(j), To(j)) EXCEPT ![From(j)] = NoFile]
  /\ Moved(j, TRUE)
  /\ UNCHANGED <<cancelled, mutex>>

\* There is no source, a file cannot be opened, the copy stops half-way, or
\* the source cannot be removed after it.  What the destination holds then
\* stays there; only moveToUniqueYouTubeRollback removes it.
MoveFails(j) ==
  /\ \E copying \in BOOLEAN : Moving(j, copying)
  /\ \E left \in {disk} \cup (IF job[j].copying THEN {Copied(From(j), To(j))}
                              ELSE {}) :
       disk' = IF job[j].pc = "preserve" THEN [left EXCEPT ![j] = NoFile]
               ELSE left
  /\ Moved(j, FALSE)
  /\ UNCHANGED <<cancelled, mutex>>

-----------------------------------------------------------------------------
(* The end of a YouTube job.                                               *)

\* Published, the context still live: the rollback file is removed.
RedoCompletes(r) ==
  /\ job[r].pc = "published" /\ r \in Redo \ cancelled
  /\ disk' = [disk EXCEPT ![r] = NoFile]
  /\ mutex' = None
  /\ EndAs(r, "replaced")
  /\ UNCHANGED cancelled

\* The context is cancelled after the publication, or the rollback file
\* cannot be removed.
RedoRollsBack(r) ==
  /\ job[r].pc = "published" /\ r \in Redo
  /\ r \in cancelled \/ disk[r] # NoFile
  /\ PublishFailed(r, TRUE)
  /\ UNCHANGED <<disk, cancelled, mutex>>

\* The destination was free before: what the job put there is removed.
RemoveReplacement(r) ==
  /\ job[r].pc = "removeReplacement"
  /\ \/ /\ disk' = [disk EXCEPT ![Target(r)] = NoFile]
        /\ GoTo(r, AfterRollbackFile(r))
     \/ /\ disk[Target(r)] # NoFile
        /\ disk' = disk
        /\ job' = [job EXCEPT ![r].pc = AfterRollbackFile(r),
                              ![r].broken = TRUE]
  /\ UNCHANGED <<cancelled, mutex>>

\* Mutant of RedoLeaves: a failure returns without the Unlock.
RedoLeavesLocked(r) ==
  /\ job[r].pc = "leave"
  /\ EndAs(r, "failed")
  /\ UNCHANGED <<disk, cancelled, mutex>>

\* fail: the deferred Unlock, and the status of the result.
RedoLeaves(r) ==
  /\ job[r].pc = "leave"
  /\ mutex' = None
  /\ EndAs(r, "failed")
  /\ UNCHANGED <<disk, cancelled>>

-----------------------------------------------------------------------------
TrackStep(t) ==
  \/ FindExisting(t) \/ StartTrack(t) \/ TrackFails(t) \/ TrackStaged(t)
  \/ TrackRecheck(t) \/ TrackCompletes(t) \/ TrackSuspicious(t)

RedoStep(r) ==
  \/ StartRedo(r) \/ RedoFails(r) \/ RedoStaged(r) \/ Lock(r)
  \/ Examine(r) \/ ExamineRefuses(r) \/ ChooseSlot(r) \/ RedoCompletes(r) \/ RedoRollsBack(r)
  \/ RemoveReplacement(r) \/ RedoLeaves(r)

FileStep(j) ==
  \/ PublishRefused(j) \/ PublishRename(j) \/ PublishOpen(j)
  \/ PublishCopied(j) \/ Withdraw(j) \/ PublishReturns(j)
  \/ MoveRename(j) \/ MoveOpen(j) \/ MoveCopied(j) \/ MoveFails(j)

JobStep ==
  \/ \E t \in Track : TrackStep(t)
  \/ \E r \in Redo : RedoStep(r)
  \/ \E j \in Job : FileStep(j) \/ Cancel(j)

\* The places job j works at: no lock keeps a track away from those of
\* another job, and the mutex only the YouTube jobs from each other.
Busy(j) ==
  IF j \in Track
  THEN IF job[j].pc \in {"idle", "done"} THEN {} ELSE {PathOf[j], job[j].slot}
  ELSE IF mutex = j THEN {Original[j], Replacement[j], job[j].slot} ELSE {}

\* The history of this step: a track works, or has just looked for its file,
\* where another job works.
Meet ==
  crowded' = crowded \cup
    {p \in Path \cup Slot :
       \E t \in Track : \E j \in Job \ {t} :
         /\ p \in Busy(t)' \/ (p = PathOf[t] /\ job'[t] # job[t])
         /\ p \in Busy(j)'}

Next == JobStep /\ Meet

Spec == Init /\ [][Next]_vars

\* A goroutine that runs goes on; starting a job is up to the caller.
FairSpec ==
  /\ Spec
  /\ \A t \in Track : WF_jobVars(job[t].pc # "idle" /\ (TrackStep(t) \/ FileStep(t)))
  /\ \A r \in Redo : WF_jobVars(job[r].pc # "idle" /\ (RedoStep(r) \/ FileStep(r)))

-----------------------------------------------------------------------------
(* Properties.                                                             *)

\* A track was at work at a place of YouTube job r while r held the mutex, or
\* has met another job there before.
Disturbed(r) == {Original[r], Replacement[r], job[r].slot} \cap crowded # {}

\* What the code does not keep of the file at place o: a forced download puts
\* another one there, a track works at the places of the YouTube job that
\* moves it, or a YouTube job with another original takes its place.
GivenUp(o) ==
  \/ \E t \in Forced : PathOf[t] = o /\ job[t].pc # "idle"
  \/ \E r \in Redo : o \in {Original[r], Replacement[r]} /\ Disturbed(r)
  \/ \E r \in Redo : /\ job[r].outcome = "replaced"
                     /\ Replacement[r] = o /\ Original[r] # o

\* The suspicious file a YouTube job is to replace is never lost to the jobs
\* that keep to its places: at every moment, whatever failed or was cancelled
\* so far, and even if the process dies now, one whole copy of it is on the
\* disk.
OriginalSurvives ==
  \A r \in Redo :
    Original[r] \in Before /\ ~GivenUp(Original[r]) =>
      \E p \in Place : disk[p] = File(Original[r], TRUE)

\* A YouTube job that fails, and does not report that its rollback failed,
\* leaves original and destination as they were when it took the mutex, unless
\* a track worked at its places meanwhile.
FailureRestores ==
  [][\A r \in Redo :
       (/\ mutex = r /\ mutex' # r
        /\ job'[r].outcome = "failed" /\ ~job'[r].broken /\ ~Disturbed(r)')
       => job[r].found = <<FileAt(Original[r])', disk'[Replacement[r]]>>]_vars

\* A YouTube job that has begun may move the file at path p.
Redone(p) ==
  \E r \in Redo : job[r].pc # "idle" /\ p \in {Original[r], Replacement[r]}

\* Two jobs met at p, or a YouTube job may have moved what was there.
Spoiled(p) == p \in crowded \/ Redone(p)

\* A forced download of the file at p has begun and is not complete.
Endangered(p) ==
  \E t \in Forced :
    PathOf[t] = p /\ job[t].pc # "idle" /\ job[t].outcome # "completed"

\* What DownloadTrack reported to be on the disk is there, and whole: no later
\* download of the same name takes it away, whether it finds the file, ends
\* early, fails or is cancelled, but a forced one that is not complete; nor
\* does the move of another suspicious file.  A half-written file in the music
\* folder is one that a track is copying right now.  Where two jobs worked at
\* once nothing is claimed: the later one withdraws or replaces the file.
AnnouncedFilesAreWhole ==
  /\ \A t \in Track :
       /\ job[t].outcome \in {"exists", "completed"} =>
            Whole(PathOf[t]) \/ Spoiled(PathOf[t]) \/ Endangered(PathOf[t])
       /\ job[t].outcome = "suspicious" =>
            Whole(job[t].slot) \/ Spoiled(job[t].slot) \/ Spoiled(PathOf[t])
  /\ \A p \in Path :
       \/ disk[p] = NoFile \/ Whole(p) \/ Spoiled(p)
       \/ \E t \in Track : PathOf[t] = p /\ job[t].pc = "copying"

\* Everything a job that has begun waits for ends: no YouTube job keeps the
\* publication mutex for good.
JobsEnd == \A j \in Job : job[j].pc # "idle" ~> job[j].pc = "done"

\* No rollback failed, and nothing runs.
AtRest == \A j \in Job : job[j].pc \in {"idle", "done"} /\ ~job[j].broken

\* What the project's status claims: publication protects existing files.
\* A file that was there before is replaced by a new one or kept.
ExistingFilesSurvive ==
  \A p \in Path : p \in Before /\ AtRest => Whole(p)
=============================================================================
