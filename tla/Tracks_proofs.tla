---------------------------- MODULE Tracks_proofs ----------------------------
(***************************************************************************)
(* Proofs about the way of a track: TrackPipeline, for every request, and  *)
(* Publication, for any number of tracks, YouTube jobs and places.         *)
(*                                                                         *)
(* TrackPipeline: the staging directory is there exactly from the start of *)
(* the branches to the end of the cleanup, which no branch survives        *)
(* (Staged); a branch that was not started was not asked for, or a warning *)
(* says so (Asked); and each wait that is behind the pipeline has put its  *)
(* result into the file or into the warnings (Settled), which no later     *)
(* step takes out of both.                                                 *)
(*                                                                         *)
(* Publication: nothing is supposed of the places the jobs share.  Tracks  *)
(* take no lock, so two jobs may be at one place: the history `crowded`    *)
(* notes the places where a track met another job (Met).  Where every job  *)
(* is in the code holds even then (Typed, Courses); of the YouTube jobs    *)
(* only the holder of the mutex touches files.  While no track meets the   *)
(* holder, its place in the code says where the two files it found are     *)
(* (Undisturbed, Holder); so a failure without a broken rollback leaves    *)
(* both as they were.  What a track published is whole until a YouTube     *)
(* job may have moved it (PlacedFiles), and only forced downloads are at   *)
(* work at a file that was announced (LeftAlone).  A whole copy of an      *)
(* original lies only where the job that replaces it put it (Homes), hence *)
(* neither a track, nor a disturbed job, nor the rollback file another job *)
(* deletes takes away the last one, unless the file is given up: a forced  *)
(* download replaces it, a track met its job, or it lay in the place where *)
(* another job was to put its file.                                        *)
(* Each step has one of a few shapes (TrackShape, RedoShape), which the    *)
(* proofs of the invariant split on instead of the actions.                *)
(***************************************************************************)
EXTENDS TrackPipeline, Publication, WellFoundedInduction, TLAPS

(***************************************************************************)
(* TrackPipeline.                                                          *)
(***************************************************************************)

\* The staging directory is there while branches run, and only then.
Staged ==
  /\ staging = "present" <=> Started
  /\ ~Started => \A b \in Branch : ~Running(b)
  /\ result # "none" => pc \in {"closing", "done"}

\* An optional branch that was not started was not asked for or is warned of.
Asked ==
  \A b \in Optional :
    /\ branch[b] # "none" => b \in wanted
    /\ Started /\ b \in wanted /\ branch[b] = "none" => b \in warned

\* The results the pipeline has waited for when it is at place p.
Behind(p) == CASE p = "cover" -> {"lyrics"}
               [] p = "metadata" -> {"lyrics", "cover"}
               [] p \in {"finalizing", "publishing"} -> Optional
               [] OTHER -> {}

\* What the pipeline has waited for is in the file or in the warnings.
Settled == wanted \cap Behind(pc) \subseteq taken \cup warned

\* The inductive invariant of the pipeline.
PipelineInv == PipelineTypeOK /\ Staged /\ Asked /\ Settled /\ OmissionsAreReported

-----------------------------------------------------------------------------
\* Before the pipeline runs there is no branch and no directory.
LEMMA PipelineInitInv == PipelineInit => PipelineInv
  BY DEF PipelineInit, PipelineInv, PipelineTypeOK, Staged, Asked, Settled, Behind, Branch,
         OmissionsAreReported, Started, Running, Optional

\* The user, the clock and the branches change no wait that is behind.
LEMMA WorldInv ==
  ASSUME PipelineInv,
         \/ CancelTrack
         \/ \E b \in Branch : BranchEnds(b)
         \/ \E b \in Optional : Expire(b)
  PROVE  PipelineInv'
<1> USE DEF PipelineInv, PipelineTypeOK, Staged, Asked, Settled, Behind,
            OmissionsAreReported, Started, Running, Branch, Optional
<1>1. CASE CancelTrack
  BY <1>1 DEF CancelTrack
<1>2. CASE \E b \in Branch : BranchEnds(b)
  <2> PICK b \in Branch : BranchEnds(b)
    BY <1>2
  <2>1. PICK outcome \in {"late", "ok", "failed"} :
          branch' = [branch EXCEPT ![b] = outcome]
    BY DEF BranchEnds
  <2>2. /\ branch[b] = "running"
        /\ UNCHANGED <<wanted, pc, result, expired, trackCancelled, taken, warned, staging>>
    BY DEF BranchEnds
  <2>3. \A x \in Branch : branch'[x] = IF x = b THEN outcome ELSE branch[x]
    BY <2>1
  <2>4. branch' \in [Branch -> {"none", "running", "ok", "failed", "late"}]
    BY <2>1
  <2> QED
    BY <2>2, <2>3, <2>4
<1>3. CASE \E b \in Optional : Expire(b)
  BY <1>3 DEF Expire
<1> QED
  BY <1>1, <1>2, <1>3

\* A return leaves the branches and what is settled as they are.
LEMMA ReturnInv ==
  ASSUME PipelineInv, StepFails \/ WaitFails \/ ExistingFound \/ Publish
  PROVE  PipelineInv'
<1> USE DEF PipelineInv, PipelineTypeOK, Staged, Asked, Settled, Behind,
            OmissionsAreReported, Started, Running
<1>1. CASE StepFails \/ WaitFails \/ ExistingFound
  BY <1>1 DEF StepFails, WaitFails, ExistingFound, Fail, Return
<1>2. CASE Publish
  <2>1. wanted \subseteq taken \cup warned
    BY <1>2 DEF Publish
  <2> QED
    BY <1>2, <2>1 DEF Publish, Return
<1> QED
  BY <1>1, <1>2

\* The branches start together with the directory and with a warning for
\* each result that is not asked for.
LEMMA StartInv ==
  ASSUME PipelineInv, ResolveTarget \/ StartBranches \/ AudioArrives \/ Probe \/ Close
  PROVE  PipelineInv'
<1> USE DEF PipelineInv, PipelineTypeOK, Staged, Asked, Settled, Behind,
            OmissionsAreReported, Started, Running
<1>1. CASE ResolveTarget \/ AudioArrives \/ Probe \/ Close
  BY <1>1 DEF ResolveTarget, AudioArrives, Probe, Close
<1>2. CASE StartBranches
  <2> DEFINE late == wanted \cap expired \cap {"lyrics"}
  <2>1. /\ branch' = [b \in Branch |-> IF b \in (wanted \ late) \cup {"audio"}
                                       THEN "running" ELSE "none"]
        /\ warned' = late
        /\ pc = "resolving" /\ pc' = "audio" /\ staging' = "present"
        /\ UNCHANGED <<wanted, result, expired, trackCancelled, taken>>
    BY <1>2 DEF StartBranches
  <2>2. \A b \in Optional : b \in Branch /\ b # "audio"
    BY DEF Branch, Optional
  <2>3. result # "published"
    BY <2>1
  <2> QED
    BY <2>1, <2>2, <2>3
<1> QED
  BY <1>1, <1>2

\* Each wait ends with its result taken, or with a warning.
LEMMA TakeInv ==
  ASSUME PipelineInv, TakeLyrics \/ \E b \in Optional : Skip(b) \/ TakeResult(b)
  PROVE  PipelineInv'
<1> USE DEF PipelineInv, PipelineTypeOK, Staged, Asked, Settled, Behind,
            OmissionsAreReported, Started, Running, Optional
<1>1. CASE TakeLyrics
  BY <1>1 DEF TakeLyrics, Use, Omit, After
<1>2. CASE \E b \in Optional : Skip(b)
  BY <1>2 DEF Skip, Pass, After
<1>3. CASE \E b \in Optional : TakeResult(b)
  BY <1>3 DEF TakeResult, Use, Omit, After
<1> QED
  BY <1>1, <1>2, <1>3

\* Lyrics that are dropped late are warned of.
LEMMA FinalizeInv == ASSUME PipelineInv, Finalize PROVE PipelineInv'
  BY DEF Finalize, PipelineInv, PipelineTypeOK, Staged, Asked, Settled, Behind,
         OmissionsAreReported, Started, Running

\* Every step keeps the invariant.
LEMMA PipelineNextInv == PipelineInv /\ [PipelineNext]_pipelineVars => PipelineInv'
<1> SUFFICES ASSUME PipelineInv, [PipelineNext]_pipelineVars PROVE PipelineInv'
  OBVIOUS
<1>1. CASE PipelineNext
  BY <1>1, WorldInv, ReturnInv, StartInv, TakeInv, FinalizeInv DEF PipelineNext, Pipeline
<1>2. CASE UNCHANGED pipelineVars
  BY <1>2 DEF pipelineVars, PipelineInv, PipelineTypeOK, Staged, Asked, Settled,
              OmissionsAreReported, Started, Running
<1> QED
  BY <1>1, <1>2

\* Every reachable state satisfies the invariant.
THEOREM PipelineInvariant == PipelineSpec => []PipelineInv
  BY PipelineInitInv, PipelineNextInv, PTL DEF PipelineSpec

\* Every variable keeps its type, and nothing goes into the file that was not
\* asked for.
THEOREM PipelineTypeCorrect == PipelineSpec => []PipelineTypeOK
  BY PipelineInvariant, PTL DEF PipelineInv

\* A branch that still runs finds the staging directory of its track, and no
\* pipeline leaves the directory behind.
THEOREM StagingIsKept == PipelineSpec => []StagingOutlivesBranches
<1>1. PipelineInv => StagingOutlivesBranches
  BY DEF PipelineInv, Staged, StagingOutlivesBranches, Started
<1> QED
  BY <1>1, PipelineInvariant, PTL

\* What a published file lacks has been warned of.
THEOREM NothingIsOmittedSilently == PipelineSpec => []OmissionsAreReported
  BY PipelineInvariant, PTL DEF PipelineInv

(***************************************************************************)
(* Publication: definitions.                                               *)
(***************************************************************************)

\* Files, whole ones or none, and what an interrupted copy leaves of one.
Files == [origin : Path \cup Slot \cup Job \cup {None}, whole : BOOLEAN]
Half(f) == [f EXCEPT !.whole = FALSE]

\* The places of a track and of a YouTube job in the code, the latter without
\* and with the mutex.
TrackPc == {"idle", "working", "staged", "copying", "placed", "copied",
            "published", "quarantine", "done"}
OutsidePc == {"idle", "working", "waiting", "done"}
WritingPc == {"staged", "copying", "placed", "copied", "published"}
MovingPc == {"backup", "preserve", "restoreDestination", "restoreOriginal"}
HolderPc == {"locked", "choose", "removeReplacement", "leave"} \cup WritingPc \cup MovingPc

\* The record of a job.
Jobs == [pc : TrackPc \cup OutsidePc \cup HolderPc, slot : Slot \cup {None},
         existed : BOOLEAN, copying : BOOLEAN, broken : BOOLEAN,
         outcome : {"none", "exists", "completed", "suspicious", "replaced", "failed"},
         found : Files \X Files]

\* Types.
Typed ==
  /\ disk \in [Place -> Files]
  /\ job \in [Job -> Jobs]
  /\ cancelled \subseteq Job
  /\ mutex \in Redo \cup {None}
  /\ crowded \subseteq Path \cup Slot

\* A track publishes to its path, and moves its file to a name of its own.
TrackCourse(t) ==
  /\ job[t].pc \in TrackPc
  /\ job[t].copying => job[t].pc = "quarantine"
  /\ job[t].pc = "quarantine" => job[t].slot \in NamesOf[t]
  /\ job[t].outcome = "suspicious" => job[t].slot \in NamesOf[t]
  /\ job[t].pc \notin {"quarantine", "done"} => job[t].slot = None
  /\ job[t].outcome # "none" => job[t].pc = "done"

\* Only the holder of the mutex is between Lock and its release.
Outside(r) ==
  /\ job[r].pc \in OutsidePc
  /\ ~job[r].copying
  /\ job[r].pc # "done" => /\ disk[r] = NoFile /\ job[r].slot = None
                           /\ ~job[r].broken /\ job[r].outcome = "none"

\* What the holder knows, whatever the tracks do to its files.
Inside(r) ==
  /\ job[r].pc \in HolderPc /\ job[r].outcome = "none"
  /\ job[r].copying => job[r].pc \in MovingPc
  /\ job[r].slot # None => job[r].slot \in NamesOf[r] /\ Original[r] \in Path
  /\ job[r].pc = "choose" => Original[r] \in Path
  /\ job[r].pc \in {"backup", "restoreOriginal"} => job[r].slot # None
  /\ job[r].pc \in {"locked", "choose"} => job[r].slot = None

\* A YouTube job without and with the mutex.
RedoCourse(r) == IF mutex = r THEN Inside(r) ELSE Outside(r)

\* The files a YouTube job found under the mutex.
OriginalFound(r) == job[r].found[1]
DestinationFound(r) == job[r].found[2]

\* The original lies in Suspicious under the chosen name, or was there before.
OriginalKept(r) ==
  IF job[r].slot = None
  THEN Original[r] \notin Path /\ FileAt(Original[r]) = OriginalFound(r)
  ELSE /\ Original[r] \in Path /\ job[r].slot \in NamesOf[r]
       /\ OriginalFound(r) # NoFile /\ disk[job[r].slot] = OriginalFound(r)
       /\ Original[r] # Replacement[r] => disk[Original[r]] = NoFile

\* The new file takes the place of the suspicious one.
InPlace(r) == Original[r] = Replacement[r]

\* The mutex was taken just now.
Locked(r) == disk[r] = NoFile /\ job[r].slot = None /\ ~job[r].broken

\* Both files are where the job found them.
Untouched(r) ==
  FileAt(Original[r]) = OriginalFound(r) /\ disk[Replacement[r]] = DestinationFound(r)

\* What the disk holds at each place of the transaction: a name is chosen,
Choosing(r) ==
  /\ Original[r] \in Path /\ job[r].slot = None
  /\ Untouched(r) /\ disk[r] = NoFile

\* the original is moved to Suspicious,
BackingUp(r) ==
  /\ Original[r] \in Path /\ job[r].slot \in NamesOf[r]
  /\ Untouched(r) /\ disk[r] = NoFile
  /\ IF job[r].copying
     THEN OriginalFound(r) # NoFile /\ disk[job[r].slot] = Half(OriginalFound(r))
     ELSE disk[job[r].slot] = NoFile

\* an unrelated file at the destination is moved to the rollback file,
Preserving(r) ==
  /\ ~InPlace(r) /\ DestinationFound(r) # NoFile
  /\ OriginalKept(r)
  /\ disk[Replacement[r]] = DestinationFound(r)
  /\ disk[r] = IF job[r].copying THEN Half(DestinationFound(r)) ELSE NoFile

\* the new file is published,
Writing(r) ==
  /\ OriginalKept(r)
  /\ disk[r] = IF InPlace(r) THEN NoFile ELSE DestinationFound(r)
  /\ disk[Replacement[r]] = IF job[r].pc = "staged" THEN NoFile
                            ELSE File(r, job[r].pc # "copying")

\* the rollback file is moved back,
RestoringDestination(r) ==
  /\ ~InPlace(r) /\ DestinationFound(r) # NoFile
  /\ OriginalKept(r)
  /\ disk[r] = DestinationFound(r)
  /\ IF job[r].copying THEN disk[Replacement[r]] = Half(DestinationFound(r))
     ELSE disk[Replacement[r]] \in {NoFile, File(r, TRUE)}

\* the new file is removed where none was before,
RemovingReplacement(r) ==
  /\ ~InPlace(r) /\ DestinationFound(r) = NoFile
  /\ OriginalKept(r)
  /\ disk[r] = NoFile
  /\ disk[Replacement[r]] \in {NoFile, File(r, TRUE)}

\* the original is moved back from Suspicious,
RestoringOriginal(r) ==
  /\ Original[r] \in Path /\ job[r].slot \in NamesOf[r]
  /\ OriginalFound(r) # NoFile /\ disk[job[r].slot] = OriginalFound(r)
  /\ ~InPlace(r) => job[r].broken \/ disk[Replacement[r]] = DestinationFound(r)
  /\ IF job[r].copying THEN disk[Original[r]] = Half(OriginalFound(r))
     ELSE disk[Original[r]] \in {NoFile} \cup (IF InPlace(r) THEN {File(r, TRUE)} ELSE {})

\* and the job returns.
Leaving(r) == job[r].broken \/ Untouched(r)

\* What a job found is still what its flags say.
Examined(r) ==
  /\ job[r].pc # "leave" => job[r].existed = (DestinationFound(r) # NoFile)
  /\ InPlace(r) => OriginalFound(r) = DestinationFound(r)

\* The holder of the mutex is at a place of the transaction whose files are
\* where that place expects them.
Holder(r) ==
  /\ job[r].pc \in HolderPc
  /\ job[r].copying => job[r].pc \in MovingPc
  /\ job[r].broken => job[r].pc \in {"restoreOriginal", "leave"}
  /\ job[r].pc # "locked" => Examined(r)
  /\ job[r].pc = "locked" => Locked(r)
  /\ job[r].pc = "choose" => Choosing(r)
  /\ job[r].pc = "backup" => BackingUp(r)
  /\ job[r].pc = "preserve" => Preserving(r)
  /\ job[r].pc \in WritingPc => Writing(r)
  /\ job[r].pc = "restoreDestination" => RestoringDestination(r)
  /\ job[r].pc = "removeReplacement" => RemovingReplacement(r)
  /\ job[r].pc = "restoreOriginal" => RestoringOriginal(r)
  /\ job[r].pc = "leave" => Leaving(r)

\* The files of a YouTube job without and with the mutex.
RedoInv(r) == IF mutex = r THEN Holder(r) ELSE Outside(r)

\* Every job is where its steps lead.
Courses == (\A t \in Track : TrackCourse(t)) /\ (\A r \in Redo : RedoCourse(r))

\* The files of a holder are where it expects them, unless a track was there.
Undisturbed == \A r \in Redo : Disturbed(r) \/ RedoInv(r)

\* A track works where another job does only at the places noted.
Met ==
  \A t \in Track : \A j \in Job \ {t} : \A p \in Path \cup Slot :
    p \in Busy(t) /\ p \in Busy(j) => p \in crowded

\* A track that has begun and not ended.
Active(t) == job[t].pc \notin {"idle", "done"}

\* What a track has published is whole.
PlacedFiles ==
  \A t \in Track :
    job[t].pc \in {"placed", "copied", "published", "quarantine"} =>
      Whole(PathOf[t]) \/ Spoiled(PathOf[t])

\* Nobody is at work where a file was announced.
LeftAlone ==
  \A t \in Track :
    /\ job[t].outcome \in {"exists", "completed"} =>
         \/ Spoiled(PathOf[t]) \/ Endangered(PathOf[t])
         \/ \A u \in Track \ Forced : PathOf[u] = PathOf[t] => ~Active(u)
    /\ job[t].outcome = "suspicious" =>
         \/ Spoiled(job[t].slot) \/ Spoiled(PathOf[t])
         \/ \A j \in Job \ {t} : job[t].slot \notin Busy(j)

\* Where a whole copy of the file of place o can be: there, in the rollback
\* file of a YouTube job that replaces it, or under the name it was given in
\* Suspicious.  A track at work never has it at hand.
Home(o) ==
  /\ \A p \in Path \ {o} : disk[p] # File(o, TRUE)
  /\ \A r \in Redo :
       /\ disk[r] = File(o, TRUE) => Replacement[r] = o
       /\ mutex = r /\ job[r].slot # None /\ disk[job[r].slot] = File(o, TRUE)
            => Original[r] = o
  /\ \A t \in Track :
       /\ Active(t) => disk[PathOf[t]] # File(o, TRUE)
       /\ job[t].pc = "quarantine" => disk[job[t].slot] # File(o, TRUE)

Homes == \A o \in Path \cup Slot : GivenUp(o) \/ Home(o)

\* The inductive invariant of the publication.
PublicationInv ==
  /\ Typed /\ Courses /\ Met
  /\ Undisturbed
  /\ PlacedFiles /\ LeftAlone /\ AnnouncedFilesAreWhole
  /\ Homes /\ OriginalSurvives

\* Everything of job j but its place in the code and its outcome.
Kept(j) ==
  /\ job'[j].slot = job[j].slot /\ job'[j].existed = job[j].existed
  /\ job'[j].copying = job[j].copying /\ job'[j].broken = job[j].broken
  /\ job'[j].found = job[j].found

\* A step of job j leaves the other jobs alone.
Others(j) == \A k \in Job \ {j} : job'[k] = job[k]

-----------------------------------------------------------------------------
\* The kinds of names are apart.
LEMMA Kinds ==
  /\ \A r \in Redo : /\ r \in Job /\ r \in Place /\ r # None /\ r \notin Path
                     /\ r \notin Slot /\ r \notin Track
                     /\ Replacement[r] \in Path /\ NamesOf[r] \subseteq Slot
                     /\ Original[r] \in Path \cup Slot \cup {None}
                     /\ Original[r] # r
  /\ \A t \in Track : /\ t \in Job /\ t \notin Place /\ t # None /\ t \notin Redo
                      /\ PathOf[t] \in Path /\ NamesOf[t] \subseteq Slot
  /\ \A p \in Path : p \in Place /\ p \notin Slot /\ p \notin Job /\ p # None
  /\ \A p \in Slot : p \in Place /\ p \notin Path /\ p \notin Job /\ p # None
  BY KindsAssumption, NoneAssumption, RedoAssumption, PathOfAssumption,
     NamesOfAssumption
  DEF Job, Place

\* A file with an origin is a file, and the absent one is told apart.
LEMMA FileTypes ==
  /\ NoFile \in Files
  /\ ~NoFile.whole /\ NoFile.origin = None
  /\ \A j \in Path \cup Slot \cup Job, w \in BOOLEAN :
       /\ File(j, w) \in Files /\ File(j, w).origin = j /\ File(j, w).whole = w
       /\ File(j, w) # NoFile
  /\ \A f \in Files : /\ Half(f) \in Files /\ Half(f).origin = f.origin
                      /\ ~Half(f).whole
<1>1. None \notin Path \cup Slot \cup Job
  BY NoneAssumption DEF Place
<1> QED
  BY <1>1 DEF File, NoFile, Files, Half

\* What GoTo and EndAs leave alone.
LEMMA GoToFields ==
  ASSUME Typed, NEW j \in Job, NEW place, GoTo(j, place)
  PROVE  /\ job'[j].pc = place /\ job'[j].outcome = job[j].outcome
         /\ Kept(j) /\ Others(j)
         /\ place \in TrackPc \cup OutsidePc \cup HolderPc => job' \in [Job -> Jobs]
<1>1. job \in [Job -> Jobs]
  BY DEF Typed
<1>2. job' = [job EXCEPT ![j] = [job[j] EXCEPT !.pc = place]]
  BY <1>1 DEF GoTo
<1>3. job'[j] = [job[j] EXCEPT !.pc = place] /\ job[j] \in Jobs
  BY <1>1, <1>2
<1>4. /\ job'[j].pc = place /\ job'[j].outcome = job[j].outcome
      /\ Kept(j)
  BY <1>3 DEF Jobs, Kept
<1>5. place \in TrackPc \cup OutsidePc \cup HolderPc => job'[j] \in Jobs
  BY <1>3 DEF Jobs
<1> QED
  BY <1>1, <1>2, <1>4, <1>5 DEF Others

\* What the end of a job leaves alone.
LEMMA EndAsFields ==
  ASSUME Typed, NEW j \in Job, NEW a, EndAs(j, a)
  PROVE  /\ job'[j].pc = "done" /\ job'[j].outcome = a
         /\ Kept(j) /\ Others(j)
         /\ a \in {"exists", "completed", "suspicious", "replaced", "failed"}
              => job' \in [Job -> Jobs]
<1>1. job \in [Job -> Jobs]
  BY DEF Typed
<1>2. job' = [job EXCEPT ![j] = [job[j] EXCEPT !.pc = "done", !.outcome = a]]
  BY <1>1 DEF EndAs
<1>3. /\ job'[j] = [job[j] EXCEPT !.pc = "done", !.outcome = a]
      /\ job[j] \in Jobs
  BY <1>1, <1>2
<1>4. /\ job'[j].pc = "done" /\ job'[j].outcome = a
      /\ Kept(j)
  BY <1>3 DEF Jobs, Kept
<1>5. a \in {"exists", "completed", "suspicious", "replaced", "failed"} => job'[j] \in Jobs
  BY <1>3 DEF Jobs, OutsidePc
<1> QED
  BY <1>1, <1>2, <1>4, <1>5 DEF Others

\* A name is chosen.
Chooses(j, place, s) == job' = [job EXCEPT ![j].pc = place, ![j].slot = s]

\* A job with another name is well formed.
LEMMA SlotTypes ==
  ASSUME NEW k \in Jobs, NEW s \in Slot
  PROVE  [k EXCEPT !.slot = s] \in Jobs
  BY DEF Jobs

\* What the choice of a name leaves alone.
LEMMA SlotFields ==
  ASSUME Typed, NEW j \in Job, NEW place \in TrackPc \cup OutsidePc \cup HolderPc,
         NEW s \in Slot, Chooses(j, place, s)
  PROVE  /\ job' \in [Job -> Jobs] /\ Others(j)
         /\ job'[j].pc = place /\ job'[j].slot = s
         /\ job'[j].outcome = job[j].outcome /\ job'[j].existed = job[j].existed
         /\ job'[j].copying = job[j].copying /\ job'[j].broken = job[j].broken
         /\ job'[j].found = job[j].found
<1>1. job \in [Job -> Jobs]
  BY DEF Typed
<1>2. job' = [job EXCEPT ![j] = [job[j] EXCEPT !.pc = place, !.slot = s]]
  BY <1>1 DEF Chooses
<1>3. job'[j] = [job[j] EXCEPT !.pc = place, !.slot = s] /\ job[j] \in Jobs
  BY <1>1, <1>2
<1>4. job'[j] \in Jobs
  <2> DEFINE k == [job[j] EXCEPT !.pc = place]
  <2>1. k \in Jobs
    BY <1>3 DEF Jobs
  <2>2. job'[j] = [k EXCEPT !.slot = s]
    BY <1>3 DEF Jobs
  <2> HIDE DEF k
  <2> QED
    BY <2>1, <2>2, SlotTypes
<1> QED
  BY <1>1, <1>2, <1>3, <1>4 DEF Jobs, Others

\* The place in the code and what an examination found are noted.
Finds(j, place, e, f) ==
  job' = [job EXCEPT ![j].pc = place, ![j].existed = e, ![j].found = f]
\* A job that found its context cancelled leaves.
GivesUp(j, f) == job' = [job EXCEPT ![j].pc = "leave", ![j].found = f]

\* A job that has found something is well formed.
LEMMA FindTypes ==
  ASSUME NEW k \in Jobs, NEW place \in TrackPc \cup OutsidePc \cup HolderPc,
         NEW e \in BOOLEAN, NEW f \in Files \X Files
  PROVE  /\ [k EXCEPT !.pc = place] \in Jobs
         /\ [k EXCEPT !.existed = e] \in Jobs
         /\ [k EXCEPT !.found = f] \in Jobs
  BY DEF Jobs

\* What an examination leaves alone.
LEMMA FindFields ==
  ASSUME Typed, NEW j \in Job, NEW place \in TrackPc \cup OutsidePc \cup HolderPc,
         NEW e \in BOOLEAN, NEW f \in Files \X Files,
         Finds(j, place, e, f) \/ (GivesUp(j, f) /\ place = "leave")
  PROVE  /\ job' \in [Job -> Jobs] /\ Others(j)
         /\ job'[j].pc = place /\ job'[j].found = f
         /\ place = "leave" \/ job'[j].existed = e
         /\ job'[j].slot = job[j].slot /\ job'[j].outcome = job[j].outcome
         /\ job'[j].copying = job[j].copying /\ job'[j].broken = job[j].broken
<1>1. job \in [Job -> Jobs] /\ job[j] \in Jobs
  BY DEF Typed
<1> DEFINE k == [job[j] EXCEPT !.pc = place]
           l == [k EXCEPT !.existed = e]
<1>2. k \in Jobs /\ [k EXCEPT !.found = f] \in Jobs /\ [l EXCEPT !.found = f] \in Jobs
  <2>1. k \in Jobs
    BY <1>1, FindTypes
  <2>2. l \in Jobs
    <3> HIDE DEF k
    <3> QED
      BY <2>1, FindTypes
  <2> HIDE DEF k, l
  <2> QED
    BY <2>1, <2>2, FindTypes
<1>3. \/ /\ job' = [job EXCEPT ![j] = [k EXCEPT !.found = f]] /\ place = "leave"
      \/ job' = [job EXCEPT ![j] = [l EXCEPT !.found = f]]
  <2>1. CASE Finds(j, place, e, f)
    BY <1>1, <2>1 DEF Finds
  <2>2. CASE GivesUp(j, f) /\ place = "leave"
    BY <1>1, <2>2 DEF GivesUp
  <2> QED
    BY <2>1, <2>2
<1>4. \/ job'[j] = [k EXCEPT !.found = f] /\ place = "leave"
      \/ job'[j] = [l EXCEPT !.found = f]
  BY <1>1, <1>3
<1>5. job'[j] \in Jobs
  BY <1>2, <1>4
<1>6. job' \in [Job -> Jobs] /\ Others(j)
  BY <1>1, <1>3, <1>5 DEF Others
<1>7. /\ k.pc = place /\ k.slot = job[j].slot
      /\ k.outcome = job[j].outcome /\ l.outcome = job[j].outcome
      /\ k.copying = job[j].copying /\ k.broken = job[j].broken
      /\ l.pc = place /\ l.slot = job[j].slot /\ l.existed = e
      /\ l.copying = job[j].copying /\ l.broken = job[j].broken
  BY <1>1 DEF Jobs
<1> HIDE DEF k, l
<1>8. k \in Jobs /\ l \in Jobs
  BY <1>1, FindTypes DEF k, l
<1> QED
  BY <1>4, <1>6, <1>7, <1>8 DEF Jobs

\* The end of a move changes where the job is, and what its pc says of it.
LEMMA MovedFields ==
  ASSUME Typed, NEW j \in Job, NEW ok \in BOOLEAN, Moved(j, ok),
         job[j].pc \in MovingPc \cup {"quarantine"}
  PROVE  /\ job'[j].existed = job[j].existed /\ job'[j].found = job[j].found
         /\ ~job'[j].copying /\ Others(j)
         /\ job'[j].slot = job[j].slot
         /\ job'[j].broken = (job[j].broken \/
              (~ok /\ job[j].pc \in {"restoreDestination", "restoreOriginal"}))
         /\ job'[j].outcome = IF job[j].pc = "quarantine"
                              THEN IF ok THEN "suspicious" ELSE "failed"
                              ELSE job[j].outcome
         /\ job[j].pc = "quarantine" => job'[j].pc = "done"
         /\ job[j].pc = "backup" =>
              job'[j].pc = IF ok THEN AfterBackup(j, job[j].existed) ELSE "leave"
         /\ job[j].pc = "preserve" =>
              job'[j].pc = IF ok THEN "staged" ELSE AfterRollbackFile(j)
         /\ job[j].pc = "restoreDestination" => job'[j].pc = AfterRollbackFile(j)
         /\ job[j].pc = "restoreOriginal" => job'[j].pc = "leave"
         /\ job' \in [Job -> Jobs]
<1>1. job \in [Job -> Jobs] /\ job[j] \in Jobs
  BY DEF Typed
<1> DEFINE k == [job[j] EXCEPT !.copying = FALSE]
           restored == [k EXCEPT !.broken = k.broken \/ ~ok]
           next == CASE k.pc = "quarantine" ->
                          [k EXCEPT !.pc = "done",
                                    !.outcome = IF ok THEN "suspicious" ELSE "failed"]
                     [] k.pc = "backup" /\ ok -> [k EXCEPT !.pc = AfterBackup(j, k.existed)]
                     [] k.pc = "backup" /\ ~ok -> [k EXCEPT !.pc = "leave"]
                     [] k.pc = "preserve" ->
                          [k EXCEPT !.pc = IF ok THEN "staged" ELSE AfterRollbackFile(j)]
                     [] k.pc = "restoreDestination" ->
                          [restored EXCEPT !.pc = AfterRollbackFile(j)]
                     [] k.pc = "restoreOriginal" -> [restored EXCEPT !.pc = "leave"]
<1>2. job' = [job EXCEPT ![j] = next]
  BY DEF Moved
<1>3. job'[j] = next /\ Others(j)
  BY <1>1, <1>2 DEF Others
<1>4. /\ k \in Jobs /\ k.pc = job[j].pc /\ ~k.copying /\ k.existed = job[j].existed
      /\ k.found = job[j].found /\ k.slot = job[j].slot /\ k.broken = job[j].broken
      /\ k.outcome = job[j].outcome
  BY <1>1 DEF Jobs
<1>5. /\ restored \in Jobs /\ restored.pc = job[j].pc /\ ~restored.copying
      /\ restored.existed = job[j].existed /\ restored.found = job[j].found
      /\ restored.slot = job[j].slot /\ restored.broken = (job[j].broken \/ ~ok)
      /\ restored.outcome = job[j].outcome
  BY <1>4 DEF Jobs
<1>6. /\ AfterRollbackFile(j) \in {"restoreOriginal", "leave"}
      /\ AfterBackup(j, job[j].existed) \in {"preserve", "staged"}
  BY DEF AfterRollbackFile, AfterBackup
<1> HIDE DEF k, restored, next
<1>7. CASE job[j].pc = "quarantine"
  <2>1. next = [k EXCEPT !.pc = "done", !.outcome = IF ok THEN "suspicious" ELSE "failed"]
    BY <1>7, <1>4 DEF next
  <2>2. next \in Jobs
    BY <1>4, <2>1 DEF Jobs, OutsidePc
  <2>3. job' \in [Job -> Jobs]
    BY <1>1, <1>2, <1>3, <2>2
  <2> QED
    BY <1>3, <1>4, <1>7, <2>1, <2>3 DEF Jobs
<1>8. CASE job[j].pc = "backup"
  <2>1. next = IF ok THEN [k EXCEPT !.pc = AfterBackup(j, k.existed)]
               ELSE [k EXCEPT !.pc = "leave"]
    BY <1>8, <1>4 DEF next
  <2>2. next \in Jobs
    BY <1>4, <1>6, <2>1 DEF Jobs, HolderPc, WritingPc, MovingPc
  <2>3. job' \in [Job -> Jobs]
    BY <1>1, <1>2, <1>3, <2>2
  <2>4. job'[j].pc = IF ok THEN AfterBackup(j, job[j].existed) ELSE "leave"
    BY <1>3, <1>4, <1>6, <1>8, <2>1 DEF Jobs, AfterBackup
  <2>5. /\ job'[j].existed = job[j].existed /\ job'[j].found = job[j].found
        /\ ~job'[j].copying /\ job'[j].outcome = job[j].outcome
        /\ job'[j].slot = job[j].slot
        /\ job'[j].broken = (job[j].broken \/
             (~ok /\ job[j].pc \in {"restoreDestination", "restoreOriginal"}))
    BY <1>3, <1>4, <1>6, <1>8, <2>1 DEF Jobs
  <2> QED
    BY <1>3, <1>8, <2>3, <2>4, <2>5
<1>9. CASE job[j].pc = "preserve"
  <2>1. next = [k EXCEPT !.pc = IF ok THEN "staged" ELSE AfterRollbackFile(j)]
    BY <1>9, <1>4 DEF next
  <2>2. next \in Jobs
    BY <1>4, <1>6, <2>1 DEF Jobs, HolderPc, WritingPc, MovingPc
  <2>3. job' \in [Job -> Jobs]
    BY <1>1, <1>2, <1>3, <2>2
  <2>4. job'[j].pc = IF ok THEN "staged" ELSE AfterRollbackFile(j)
    BY <1>3, <1>4, <1>6, <1>9, <2>1 DEF Jobs, AfterBackup
  <2>5. /\ job'[j].existed = job[j].existed /\ job'[j].found = job[j].found
        /\ ~job'[j].copying /\ job'[j].outcome = job[j].outcome
        /\ job'[j].slot = job[j].slot
        /\ job'[j].broken = (job[j].broken \/
             (~ok /\ job[j].pc \in {"restoreDestination", "restoreOriginal"}))
    BY <1>3, <1>4, <1>6, <1>9, <2>1 DEF Jobs
  <2> QED
    BY <1>3, <1>9, <2>3, <2>4, <2>5
<1>10. CASE job[j].pc = "restoreDestination"
  <2>1. next = [restored EXCEPT !.pc = AfterRollbackFile(j)]
    BY <1>10, <1>4 DEF next
  <2>2. next \in Jobs
    BY <1>5, <1>6, <2>1 DEF Jobs, HolderPc, WritingPc, MovingPc
  <2>3. job' \in [Job -> Jobs]
    BY <1>1, <1>2, <1>3, <2>2
  <2>4. job'[j].pc = AfterRollbackFile(j)
    BY <1>3, <1>5, <1>6, <1>10, <2>1 DEF Jobs, AfterBackup
  <2>5. /\ job'[j].existed = job[j].existed /\ job'[j].found = job[j].found
        /\ ~job'[j].copying /\ job'[j].outcome = job[j].outcome
        /\ job'[j].slot = job[j].slot
        /\ job'[j].broken = (job[j].broken \/
             (~ok /\ job[j].pc \in {"restoreDestination", "restoreOriginal"}))
    BY <1>3, <1>5, <1>6, <1>10, <2>1 DEF Jobs
  <2> QED
    BY <1>3, <1>10, <2>3, <2>4, <2>5
<1>11. CASE job[j].pc = "restoreOriginal"
  <2>1. next = [restored EXCEPT !.pc = "leave"]
    BY <1>11, <1>4 DEF next
  <2>2. next \in Jobs
    BY <1>5, <1>6, <2>1 DEF Jobs, HolderPc, WritingPc, MovingPc
  <2>3. job' \in [Job -> Jobs]
    BY <1>1, <1>2, <1>3, <2>2
  <2> QED
    BY <1>3, <1>5, <1>6, <1>11, <2>1, <2>3 DEF Jobs
<1> QED
  BY <1>7, <1>8, <1>9, <1>10, <1>11 DEF MovingPc

\* The places of a job, but its rollback file.
Reach(j) ==
  IF j \in Track THEN {PathOf[j], job[j].slot} ELSE {Original[j], Replacement[j], job[j].slot}

\* A step of job j changes nothing of another job, and no place but its own.
Local(j) ==
  /\ Others(j)
  /\ \A p \in Place \ (Busy(j) \cup {j}) : disk'[p] = disk[p]

\* The order of the naturals is well-founded.
LEMMA LessThan ==
  \E R : IsWellFoundedOn(R, Nat) /\ \A x, y \in Nat : <<x, y>> \in R <=> x < y
<1> DEFINE R == {p \in Nat \X Nat : p[1] < p[2]}
<1>1. R = OpToRel(<, Nat)
  BY DEF OpToRel
<1>2. IsWellFoundedOn(R, Nat)
  BY <1>1, NatLessThanWellFounded
<1>3. \A x, y \in Nat : <<x, y>> \in R <=> x < y
  OBVIOUS
<1> QED
  BY <1>2, <1>3

\* The name CollisionSafePath chooses is free, and one of the job's names.
LEMMA FreeName ==
  ASSUME NEW j \in Job, FreeNames(j) # {}
  PROVE  Min(FreeNames(j)) \in NamesOf[j] /\ disk[Min(FreeNames(j))] = NoFile
<1>1. FreeNames(j) \subseteq Nat
  BY NamesOfAssumption, KindsAssumption DEF FreeNames, Slot
<1>2. PICK R : IsWellFoundedOn(R, Nat) /\ \A x, y \in Nat : <<x, y>> \in R <=> x < y
  BY LessThan
<1>3. PICK k \in FreeNames(j) : \A i \in FreeNames(j) : ~(<<i, k>> \in R)
  BY <1>1, <1>2, WFMin, Zenon
<1>4. ASSUME NEW i \in FreeNames(j) PROVE k <= i
  <2>1. i \in Nat /\ k \in Nat
    BY <1>1
  <2>2. ~(i < k)
    BY <1>2, <1>3, <2>1, Zenon
  <2> QED
    BY <2>1, <2>2
<1>5. Min(FreeNames(j)) \in FreeNames(j)
  BY <1>4 DEF Min
<1> QED
  BY <1>5 DEF FreeNames

-----------------------------------------------------------------------------
(* The moves of MoveFileWithFallback.                                      *)

\* A file is written to a place, or none.
LEMMA DiskTypes ==
  ASSUME Typed, NEW p \in Place, NEW f \in Files, disk' = [disk EXCEPT ![p] = f]
  PROVE  /\ disk' \in [Place -> Files] /\ disk'[p] = f
         /\ \A q \in Place \ {p} : disk'[q] = disk[q]
  BY DEF Typed

\* A copy starts.
Copies(j) == job' = [job EXCEPT ![j].copying = TRUE]

\* What the start of a copy leaves alone.
LEMMA CopyFields ==
  ASSUME Typed, NEW j \in Job, Copies(j)
  PROVE  /\ job' \in [Job -> Jobs] /\ Others(j)
         /\ job'[j].copying = TRUE /\ job'[j].pc = job[j].pc
         /\ job'[j].outcome = job[j].outcome
         /\ job'[j].slot = job[j].slot /\ job'[j].existed = job[j].existed
         /\ job'[j].broken = job[j].broken /\ job'[j].found = job[j].found
<1>1. job \in [Job -> Jobs] /\ job[j] \in Jobs
  BY DEF Typed
<1>2. job' = [job EXCEPT ![j] = [job[j] EXCEPT !.copying = TRUE]]
  BY <1>1 DEF Copies
<1>3. job'[j] = [job[j] EXCEPT !.copying = TRUE]
  BY <1>1, <1>2
<1>4. job'[j] \in Jobs
  BY <1>1, <1>3 DEF Jobs
<1> QED
  BY <1>1, <1>2, <1>3, <1>4 DEF Jobs, Others

\* A step of MoveFileWithFallback.
MoveStep(j) == MoveRename(j) \/ MoveOpen(j) \/ MoveCopied(j) \/ MoveFails(j)

\* The outcomes of a move from place p to place q: the file is there and its
\* source gone.
Arrives(j, p, q) ==
  /\ Moved(j, TRUE) /\ (job[j].copying \/ disk[p] # NoFile)
  /\ disk'[q] = disk[p] /\ disk'[p] = NoFile
  /\ \A x \in Place \ {p, q} : disk'[x] = disk[x]

\* The destination is opened and holds a part of the file.
Opens(j, p, q) ==
  /\ Copies(j) /\ ~job[j].copying /\ disk[p] # NoFile
  /\ disk'[q] = Half(disk[p])
  /\ \A x \in Place \ {q} : disk'[x] = disk[x]

\* The move failed: what the copy left at the destination stays, except at a
\* rollback file.
Stops(j, p, q) ==
  /\ Moved(j, FALSE)
  /\ IF job[j].pc = "preserve" THEN disk'[q] = NoFile
     ELSE \/ disk'[q] = disk[q]
          \/ job[j].copying /\ disk'[q] = disk[p]
  /\ \A x \in Place \ {q} : disk'[x] = disk[x]

\* Every move arrives, starts to copy, or stops.
LEMMA MoveOutcomes ==
  ASSUME Typed, NEW r \in Job, NEW p \in Place, NEW q \in Place \ {p},
         From(r) = p, To(r) = q, job[r].pc = "preserve" => q = r, MoveStep(r)
  PROVE  /\ Arrives(r, p, q) \/ Opens(r, p, q) \/ Stops(r, p, q)
         /\ disk' \in [Place -> Files]
         /\ UNCHANGED <<cancelled, mutex>>
<1>1. disk \in [Place -> Files] /\ disk[p] \in Files
  BY DEF Typed
<1>2. Copied(p, q) = [disk EXCEPT ![q] = disk[p]] /\ NoFile \in Files
  BY FileTypes DEF Copied
<1>3. CASE MoveRename(r) \/ MoveCopied(r)
  <2>1. disk' = [[disk EXCEPT ![q] = disk[p]] EXCEPT ![p] = NoFile]
    BY <1>2, <1>3 DEF MoveRename, MoveCopied
  <2>2. job[r].copying \/ disk[p] # NoFile
    BY <1>3 DEF MoveRename, MoveCopied, Moving
  <2>3. Moved(r, TRUE) /\ UNCHANGED <<cancelled, mutex>>
    BY <1>3 DEF MoveRename, MoveCopied
  <2>4. /\ disk' \in [Place -> Files] /\ disk'[q] = disk[p] /\ disk'[p] = NoFile
        /\ \A x \in Place \ {p, q} : disk'[x] = disk[x]
    BY <1>1, <1>2, <2>1
  <2> QED
    BY <2>2, <2>3, <2>4 DEF Arrives
<1>4. CASE MoveOpen(r)
  <2>1. /\ disk' = [[disk EXCEPT ![q] = disk[p]] EXCEPT ![q].whole = FALSE]
        /\ Copies(r) /\ ~job[r].copying /\ disk[p] # NoFile
        /\ UNCHANGED <<cancelled, mutex>>
    BY <1>2, <1>4 DEF MoveOpen, Moving, Copies
  <2>2. disk' = [disk EXCEPT ![q] = Half(disk[p])]
    BY <1>1, <2>1 DEF Half
  <2>3. Half(disk[p]) \in Files
    BY <1>1, FileTypes
  <2>4. /\ disk' \in [Place -> Files] /\ disk'[q] = Half(disk[p])
        /\ \A x \in Place \ {q} : disk'[x] = disk[x]
    BY <1>1, <2>2, <2>3
  <2> QED
    BY <2>1, <2>4 DEF Opens
<1>5. CASE MoveFails(r)
  <2>1. PICK left \in {disk} \cup (IF job[r].copying THEN {Copied(p, q)} ELSE {}) :
          disk' = IF job[r].pc = "preserve" THEN [left EXCEPT ![r] = NoFile] ELSE left
    BY <1>5 DEF MoveFails
  <2>2. Moved(r, FALSE) /\ UNCHANGED <<cancelled, mutex>>
    BY <1>5 DEF MoveFails
  <2>3. left \in [Place -> Files] /\ \A x \in Place \ {q} : left[x] = disk[x]
    BY <1>1, <1>2, <2>1
  <2>4. left[q] = disk[q] \/ (job[r].copying /\ left[q] = disk[p])
    BY <1>1, <1>2, <2>1
  <2>5. CASE job[r].pc = "preserve"
    <3>1. disk' = [left EXCEPT ![q] = NoFile]
      BY <2>1, <2>5
    <3> QED
      BY <1>2, <2>2, <2>3, <2>5, <3>1 DEF Stops
  <2>6. CASE job[r].pc # "preserve"
    <3>1. disk' = left
      BY <2>1, <2>6
    <3> QED
      BY <2>2, <2>3, <2>4, <2>6, <3>1 DEF Stops
  <2> QED
    BY <2>5, <2>6
<1> QED
  BY <1>3, <1>4, <1>5 DEF MoveStep

-----------------------------------------------------------------------------
(* The steps of a track.                                                   *)

\* The places of a track.
LEMMA TrackPlaces ==
  ASSUME NEW t \in Track
  PROVE  /\ t \in Job /\ Target(t) = PathOf[t] /\ PathOf[t] \in Place \cap Path
         /\ PathOf[t] \notin Slot /\ NamesOf[t] \subseteq Slot /\ Slot \subseteq Place
         /\ None \notin Slot
         /\ Reach(t) = {PathOf[t], job[t].slot}
         /\ Busy(t) = IF Active(t) THEN Reach(t) ELSE {}
         /\ \A a : PublishFailed(t, a) <=> EndAs(t, "failed")
  BY Kinds DEF Target, Reach, PublishFailed, Busy, Active

\* What a step can do to a track.  It begins, as nothing is there or it is
\* forced,
Begins(t) ==
  /\ job[t].pc = "idle" /\ job'[t].pc = "working" /\ job'[t].outcome = "none"
  /\ t \in Forced \/ ~Whole(PathOf[t])
  /\ job'[t].slot = job[t].slot /\ disk' = disk

\* or finds its file;
FindsFile(t) ==
  /\ job[t].pc = "idle" /\ job'[t].pc = "done" /\ job'[t].outcome = "exists"
  /\ disk[PathOf[t]] # NoFile
  /\ job'[t].slot = job[t].slot /\ disk' = disk

\* it goes on,
GoesOn(t) ==
  /\ \/ job[t].pc = "working" /\ job'[t].pc = "staged"
     \/ job[t].pc \in {"placed", "copied"} /\ job'[t].pc = "published"
  /\ job'[t].outcome = "none" /\ job'[t].slot = job[t].slot /\ disk' = disk

\* fails,
Fails(t) ==
  /\ job[t].pc \in {"working", "staged", "published"}
  /\ job'[t].pc = "done" /\ job'[t].outcome = "failed"
  /\ job'[t].slot = job[t].slot /\ disk' = disk

\* or completes;
Completes(t) ==
  /\ job[t].pc = "published" /\ job'[t].pc = "done" /\ job'[t].outcome = "completed"
  /\ job'[t].slot = job[t].slot /\ disk' = disk

\* it writes or removes the file at its path;
Writes(t, f) ==
  /\ job[t].pc \in {"staged", "copying", "placed", "copied"}
  /\ disk' = [disk EXCEPT ![PathOf[t]] = f] /\ job'[t].slot = job[t].slot
  /\ \/ f = NoFile /\ job'[t].pc = "done" /\ job'[t].outcome = "failed"
     \/ f = File(t, FALSE) /\ job'[t].pc = "copying" /\ job'[t].outcome = "none"
     \/ f = File(t, TRUE) /\ job'[t].pc \in {"placed", "copied"} /\ job'[t].outcome = "none"

\* it chooses a free name for the suspicious file,
Names(t) ==
  /\ job[t].pc = "published" /\ job'[t].pc = "quarantine" /\ job'[t].outcome = "none"
  /\ job'[t].slot \in NamesOf[t] /\ disk[job'[t].slot] = NoFile /\ disk' = disk

\* and moves it there.
Quarantines(t) ==
  /\ job[t].pc = "quarantine" /\ job'[t].slot = job[t].slot
  /\ \/ /\ Arrives(t, PathOf[t], job[t].slot)
        /\ job'[t].pc = "done" /\ job'[t].outcome = "suspicious"
     \/ /\ Opens(t, PathOf[t], job[t].slot)
        /\ job'[t].pc = "quarantine" /\ job'[t].outcome = "none"
     \/ /\ Stops(t, PathOf[t], job[t].slot)
        /\ job'[t].pc = "done" /\ job'[t].outcome = "failed"

\* Nothing else.
TrackShape(t) ==
  /\ job' \in [Job -> Jobs] /\ disk' \in [Place -> Files] /\ Others(t)
  /\ mutex' = mutex /\ TrackCourse(t)'
  /\ \/ Begins(t) \/ FindsFile(t) \/ GoesOn(t) \/ Fails(t) \/ Completes(t)
     \/ \E f \in {NoFile, File(t, FALSE), File(t, TRUE)} : Writes(t, f)
     \/ Names(t) \/ Quarantines(t)

\* A track that only goes on, or ends.
LEMMA TrackWalks ==
  ASSUME Typed, NEW t \in Track, TrackCourse(t), UNCHANGED <<disk, mutex>>,
         \/ /\ job[t].pc = "idle" /\ (t \in Forced \/ ~Whole(PathOf[t]))
            /\ GoTo(t, "working")
         \/ job[t].pc = "idle" /\ disk[PathOf[t]] # NoFile /\ EndAs(t, "exists")
         \/ job[t].pc = "working" /\ GoTo(t, "staged")
         \/ job[t].pc \in {"placed", "copied"} /\ GoTo(t, "published")
         \/ job[t].pc \in {"working", "staged", "published"} /\ EndAs(t, "failed")
         \/ job[t].pc = "published" /\ EndAs(t, "completed")
  PROVE  TrackShape(t)
<1> USE TrackPlaces
<1>1. job[t].outcome = "none" /\ ~job[t].copying /\ job[t].slot = None /\ t \in Job
  BY DEF TrackCourse
<1>2. /\ job' \in [Job -> Jobs] /\ Kept(t) /\ Others(t)
      /\ \/ /\ job[t].pc = "idle" /\ (t \in Forced \/ ~Whole(PathOf[t]))
            /\ job'[t].pc = "working" /\ job'[t].outcome = "none"
         \/ /\ job[t].pc = "idle" /\ disk[PathOf[t]] # NoFile
            /\ job'[t].pc = "done" /\ job'[t].outcome = "exists"
         \/ /\ job[t].pc = "working"
            /\ job'[t].pc = "staged" /\ job'[t].outcome = "none"
         \/ /\ job[t].pc \in {"placed", "copied"}
            /\ job'[t].pc = "published" /\ job'[t].outcome = "none"
         \/ /\ job[t].pc \in {"working", "staged", "published"}
            /\ job'[t].pc = "done" /\ job'[t].outcome = "failed"
         \/ /\ job[t].pc = "published"
            /\ job'[t].pc = "done" /\ job'[t].outcome = "completed"
  BY <1>1, GoToFields, EndAsFields DEF TrackPc
<1>3. TrackCourse(t)'
  BY <1>1, <1>2 DEF TrackCourse, Kept, TrackPc
<1>4. Begins(t) \/ FindsFile(t) \/ GoesOn(t) \/ Fails(t) \/ Completes(t)
  BY <1>2 DEF Begins, FindsFile, GoesOn, Fails, Completes, Kept
<1> QED
  BY <1>2, <1>3, <1>4 DEF TrackShape, Typed

\* A track that writes or removes the file at its path.
LEMMA TrackWrites ==
  ASSUME Typed, NEW t \in Track, TrackCourse(t),
         \/ PublishRename(t) \/ PublishOpen(t) \/ PublishCopied(t) \/ Withdraw(t)
  PROVE  TrackShape(t)
<1> USE TrackPlaces, FileTypes
<1>1. /\ job[t].outcome = "none" /\ ~job[t].copying /\ job[t].slot = None
      /\ job[t].pc \in {"staged", "copying", "placed", "copied"} /\ mutex' = mutex
  BY DEF TrackCourse, PublishRename, PublishOpen, PublishCopied, Withdraw
<1>2. PICK f \in {NoFile, File(t, FALSE), File(t, TRUE)} :
        /\ disk' = [disk EXCEPT ![PathOf[t]] = f]
        /\ \/ f = NoFile /\ EndAs(t, "failed")
           \/ f = File(t, FALSE) /\ GoTo(t, "copying")
           \/ f = File(t, TRUE) /\ GoTo(t, "placed")
           \/ f = File(t, TRUE) /\ GoTo(t, "copied")
  BY DEF PublishRename, PublishOpen, PublishCopied, Withdraw
<1>3. f \in Files
  <2>1. File(t, FALSE) \in Files /\ File(t, TRUE) \in Files
    OBVIOUS
  <2> QED
    BY <1>2, <2>1
<1>4. disk' \in [Place -> Files]
  BY <1>2, <1>3, DiskTypes
<1>5. /\ job' \in [Job -> Jobs] /\ Kept(t) /\ Others(t)
      /\ \/ f = NoFile /\ job'[t].pc = "done" /\ job'[t].outcome = "failed"
         \/ f = File(t, FALSE) /\ job'[t].pc = "copying" /\ job'[t].outcome = "none"
         \/ f = File(t, TRUE) /\ job'[t].pc \in {"placed", "copied"} /\ job'[t].outcome = "none"
  BY <1>1, <1>2, GoToFields, EndAsFields DEF TrackPc
<1>6. TrackCourse(t)'
  BY <1>1, <1>5 DEF TrackCourse, Kept, TrackPc
<1>7. Writes(t, f)
  BY <1>1, <1>2, <1>5 DEF Writes, Kept
<1> QED
  BY <1>1, <1>4, <1>5, <1>6, <1>7 DEF TrackShape

\* A track that takes its suspicious file away.
LEMMA TrackMoves ==
  ASSUME Typed, NEW t \in Track, TrackCourse(t), TrackSuspicious(t) \/ MoveStep(t)
  PROVE  TrackShape(t)
<1> USE TrackPlaces, FileTypes
<1>1. CASE TrackSuspicious(t)
  <2>1. /\ job[t].pc = "published" /\ FreeNames(t) # {} /\ UNCHANGED <<disk, mutex>>
        /\ job' = [job EXCEPT ![t].pc = "quarantine", ![t].slot = Min(FreeNames(t))]
        /\ job[t].outcome = "none" /\ ~job[t].copying
    BY <1>1 DEF TrackSuspicious, TrackCourse
  <2>2. PICK k \in Slot : k \in NamesOf[t] /\ disk[k] = NoFile /\ Chooses(t, "quarantine", k)
    BY <2>1, FreeName DEF Chooses
  <2>3. "quarantine" \in TrackPc \cup OutsidePc \cup HolderPc
    BY DEF TrackPc
  <2>4. /\ job' \in [Job -> Jobs] /\ Others(t)
        /\ job'[t].pc = "quarantine" /\ job'[t].slot = k
        /\ job'[t].outcome = job[t].outcome /\ job'[t].copying = job[t].copying
    BY <2>2, <2>3, SlotFields
  <2>5. TrackCourse(t)'
    BY <2>1, <2>2, <2>4 DEF TrackCourse, TrackPc
  <2>6. Names(t)
    BY <2>1, <2>2, <2>4 DEF Names
  <2> QED
    BY <2>1, <2>4, <2>5, <2>6 DEF TrackShape, Typed
<1>2. CASE MoveStep(t)
  <2> DEFINE p == PathOf[t]
             s == job[t].slot
  <2>1. /\ job[t].pc = "quarantine" /\ s \in NamesOf[t] /\ job[t].outcome = "none"
        /\ job[t].pc \in MovingPc \cup {"quarantine"}
    BY <1>2 DEF MoveStep, MoveRename, MoveOpen, MoveCopied, MoveFails, Moving,
      TrackCourse, TrackPc
  <2>2. From(t) = p /\ To(t) = s /\ s \in Place /\ p \in Place /\ s # p
    BY <2>1 DEF From, To
  <2>3. /\ Arrives(t, p, s) \/ Opens(t, p, s) \/ Stops(t, p, s)
        /\ disk' \in [Place -> Files] /\ UNCHANGED <<cancelled, mutex>>
    BY <1>2, <2>1, <2>2, MoveOutcomes
  <2>4. CASE Arrives(t, p, s)
    <3>1. /\ job' \in [Job -> Jobs] /\ Others(t) /\ job'[t].pc = "done"
          /\ job'[t].outcome = "suspicious" /\ job'[t].slot = s /\ ~job'[t].copying
      BY <2>1, <2>4, MovedFields DEF Arrives
    <3>2. TrackCourse(t)' /\ Quarantines(t)
      BY <2>1, <2>4, <3>1 DEF TrackCourse, TrackPc, Quarantines
    <3> QED
      BY <2>3, <3>1, <3>2 DEF TrackShape
  <2>5. CASE Opens(t, p, s)
    <3>1. /\ job' \in [Job -> Jobs] /\ Others(t) /\ job'[t].pc = "quarantine"
          /\ job'[t].slot = s /\ job'[t].outcome = "none"
      BY <2>1, <2>5, CopyFields DEF Opens
    <3>2. TrackCourse(t)' /\ Quarantines(t)
      BY <2>1, <2>5, <3>1 DEF TrackCourse, TrackPc, Quarantines
    <3> QED
      BY <2>3, <3>1, <3>2 DEF TrackShape
  <2>6. CASE Stops(t, p, s)
    <3>1. /\ job' \in [Job -> Jobs] /\ Others(t) /\ job'[t].pc = "done"
          /\ job'[t].outcome = "failed" /\ job'[t].slot = s /\ ~job'[t].copying
      BY <2>1, <2>6, MovedFields DEF Stops
    <3>2. TrackCourse(t)' /\ Quarantines(t)
      BY <2>1, <2>6, <3>1 DEF TrackCourse, TrackPc, Quarantines
    <3> QED
      BY <2>3, <3>1, <3>2 DEF TrackShape
  <2> QED
    BY <2>3, <2>4, <2>5, <2>6
<1> QED
  BY <1>1, <1>2

\* Every step of a track has one of the shapes.
LEMMA TrackShapes ==
  ASSUME Typed, NEW t \in Track, TrackCourse(t), TrackStep(t) \/ FileStep(t)
  PROVE  TrackShape(t)
<1> USE TrackPlaces
<1>1. CASE FindExisting(t) \/ StartTrack(t) \/ TrackFails(t) \/ TrackStaged(t)
  BY <1>1, TrackWalks DEF FindExisting, StartTrack, TrackFails, TrackStaged
<1>2. CASE TrackRecheck(t) \/ TrackCompletes(t) \/ PublishReturns(t)
  BY <1>2, TrackWalks DEF TrackRecheck, TrackCompletes, PublishReturns
<1>3. CASE PublishRefused(t)
  BY <1>3, TrackWalks DEF PublishRefused
<1>4. CASE PublishRename(t) \/ PublishOpen(t) \/ PublishCopied(t) \/ Withdraw(t)
  BY <1>4, TrackWrites
<1>5. CASE TrackSuspicious(t) \/ MoveStep(t)
  BY <1>5, TrackMoves
<1> QED
  BY <1>1, <1>2, <1>3, <1>4, <1>5 DEF TrackStep, FileStep, MoveStep

\* The places of a YouTube job are apart.
LEMMA RedoPlaces ==
  ASSUME NEW r \in Redo
  PROVE  /\ r \in Job /\ r \in Place /\ r \notin Path \cup Slot /\ r # None
         /\ r \notin Track
         /\ Target(r) = Replacement[r]
         /\ Replacement[r] \in Path /\ Replacement[r] \in Place
         /\ Replacement[r] \notin NamesOf[r] /\ Replacement[r] # None
         /\ NamesOf[r] \subseteq Slot /\ NamesOf[r] \subseteq Place
         /\ None \notin NamesOf[r] /\ None \notin Path
         /\ Original[r] \in Path \cup Slot \cup {None} /\ Original[r] # r
         /\ Original[r] \in Path => Original[r] \in Place /\ Original[r] \notin NamesOf[r]
         /\ Original[r] # None => Original[r] \in Place
         /\ Reach(r) = {Original[r], Replacement[r], job[r].slot}
         /\ Busy(r) = IF mutex = r THEN Reach(r) ELSE {}
  BY Kinds, NoneAssumption DEF Target, Reach, Busy, Place

\* A step that changes nothing a YouTube job looks at keeps its invariant.
LEMMA RedoFrame ==
  ASSUME NEW r \in Redo, RedoInv(r), job'[r] = job[r], mutex' = r <=> mutex = r,
         disk'[r] = disk[r],
         mutex = r => \A p \in Reach(r) \ {None} : disk'[p] = disk[p]
  PROVE  RedoInv(r)'
<1> USE RedoPlaces
<1>1. CASE mutex # r
  BY <1>1 DEF RedoInv, Outside
<1>2. CASE mutex = r
  <2>1. /\ disk'[Replacement[r]] = disk[Replacement[r]]
        /\ FileAt(Original[r])' = FileAt(Original[r])
        /\ Original[r] \in Path => disk'[Original[r]] = disk[Original[r]]
        /\ job[r].slot \in NamesOf[r] => disk'[job[r].slot] = disk[job[r].slot]
        /\ Examined(r)' = Examined(r)
        /\ OriginalFound(r)' = OriginalFound(r)
        /\ DestinationFound(r)' = DestinationFound(r)
    BY <1>2 DEF FileAt, Examined, OriginalFound, DestinationFound
  <2>2. Holder(r)
    BY <1>2 DEF RedoInv
  <2>3. OriginalKept(r) => OriginalKept(r)'
    BY <2>1 DEF OriginalKept
  <2>4. Untouched(r) => Untouched(r)'
    BY <2>1 DEF Untouched
  <2>5. Locked(r) => Locked(r)'
    BY DEF Locked
  <2>6. /\ Choosing(r) => Choosing(r)'
        /\ BackingUp(r) => BackingUp(r)'
    BY <2>1, <2>4 DEF Choosing, BackingUp
  <2>7. /\ Preserving(r) => Preserving(r)'
        /\ Writing(r) => Writing(r)'
    BY <2>1, <2>3 DEF Preserving, Writing
  <2>8. /\ RestoringDestination(r) => RestoringDestination(r)'
        /\ RemovingReplacement(r) => RemovingReplacement(r)'
    BY <2>1, <2>3 DEF RestoringDestination, RemovingReplacement
  <2>9. RestoringOriginal(r) => RestoringOriginal(r)'
    BY <2>1 DEF RestoringOriginal
  <2>10. Leaving(r) => Leaving(r)'
    BY <2>4 DEF Leaving
  <2>11. Holder(r)'
    BY <2>1, <2>2, <2>5, <2>6, <2>7, <2>8, <2>9, <2>10 DEF Holder
  <2> QED
    BY <1>2, <2>11 DEF RedoInv
<1> QED
  BY <1>1, <1>2

-----------------------------------------------------------------------------
(* The steps of a YouTube job that no track disturbs.                      *)

\* A whole file that some YouTube job is to replace.
OfOriginal(f) ==
  \E r \in Redo : Original[r] \in Path \cup Slot /\ f = File(Original[r], TRUE)

\* A step that loses no original.
KeepsOriginals ==
  \A p \in Place :
    OfOriginal(disk[p]) => \E q \in Place : disk'[q] = disk[p]

\* A YouTube job undisturbed.
RedoKept(r) == RedoInv(r)' /\ KeepsOriginals

\* An original is whole, and no file of a job.
LEMMA Precious ==
  ASSUME NEW f, OfOriginal(f)
  PROVE  f.whole /\ f.origin \notin Job \cup {None} /\ f # NoFile
<1>1. PICK p \in Path \cup Slot : f = File(p, TRUE)
  BY DEF OfOriginal
<1>2. p \notin Job \cup {None}
  BY Kinds
<1>3. /\ File(p, TRUE).origin = p /\ File(p, TRUE).whole = TRUE
      /\ File(p, TRUE) # NoFile
  BY FileTypes
<1> QED
  BY <1>1, <1>2, <1>3

\* A place that holds no original is written.
LEMMA WriteKeeps ==
  ASSUME Typed, NEW p \in Place, NEW f \in Files, disk' = [disk EXCEPT ![p] = f],
         ~OfOriginal(disk[p])
  PROVE  KeepsOriginals
  BY DEF Typed, KeepsOriginals

\* An original is moved to a place that holds none.
LEMMA MoveKeeps ==
  ASSUME NEW p \in Place, NEW q \in Place \ {p},
         disk'[q] = disk[p], ~OfOriginal(disk[q]),
         \A x \in Place \ {p, q} : disk'[x] = disk[x]
  PROVE  KeepsOriginals
<1> SUFFICES ASSUME NEW x \in Place, OfOriginal(disk[x])
             PROVE  \E y \in Place : disk'[y] = disk[x]
  BY DEF KeepsOriginals
<1>1. x # q
  OBVIOUS
<1> QED
  BY <1>1

\* A step that leaves the disk alone.
LEMMA DiskKept ==
  ASSUME disk' = disk
  PROVE  KeepsOriginals
  BY DEF KeepsOriginals

\* Before the mutex is taken, and when it is.
LEMMA RedoEnters ==
  ASSUME Typed, NEW r \in Redo, RedoInv(r),
         StartRedo(r) \/ RedoFails(r) \/ RedoStaged(r) \/ Lock(r)
  PROVE  RedoKept(r)
<1> USE RedoPlaces
<1>1. /\ job[r].pc \in {"idle", "working", "waiting"} /\ mutex # r
      /\ Outside(r) /\ UNCHANGED <<disk, cancelled>>
  BY DEF StartRedo, RedoFails, RedoStaged, Lock, RedoInv, Holder, HolderPc,
         WritingPc, MovingPc
<1>2. CASE Lock(r)
  <2>1. GoTo(r, "locked") /\ mutex = None /\ mutex' = r
    BY <1>2 DEF Lock
  <2>2. /\ job'[r].pc = "locked" /\ Kept(r) /\ Others(r) /\ job' \in [Job -> Jobs]
    BY <2>1, GoToFields DEF HolderPc
  <2>3. Holder(r)'
    BY <1>1, <2>2 DEF Holder, HolderPc, Outside, Locked, Kept, WritingPc
  <2> QED
    BY <1>1, <2>1, <2>2, <2>3, DiskKept DEF RedoKept, RedoInv
<1>3. CASE StartRedo(r) \/ RedoFails(r) \/ RedoStaged(r)
  <2>1. /\ UNCHANGED mutex
        /\ GoTo(r, "working") \/ EndAs(r, "failed") \/ GoTo(r, "waiting")
    BY <1>3 DEF StartRedo, RedoFails, RedoStaged
  <2>2. /\ job'[r].pc \in OutsidePc /\ Kept(r) /\ Others(r) /\ job' \in [Job -> Jobs]
        /\ job'[r].pc # "done" => job'[r].outcome = job[r].outcome
    BY <2>1, GoToFields, EndAsFields DEF OutsidePc
  <2>3. Outside(r)'
    BY <1>1, <2>2 DEF Outside, Kept
  <2> QED
    BY <1>1, <2>1, <2>2, <2>3, DiskKept DEF RedoKept, RedoInv
<1> QED
  BY <1>2, <1>3

\* Only the holder of the mutex is in the transaction.
LEMMA HolderOf ==
  ASSUME NEW r \in Redo, RedoInv(r), job[r].pc \in HolderPc
  PROVE  mutex = r /\ Holder(r)
  BY DEF RedoInv, Outside, OutsidePc, HolderPc, WritingPc, MovingPc

\* What an examination finds, and that nothing is done if it fails.
LEMMA RedoExamines ==
  ASSUME Typed, NEW r \in Redo, RedoInv(r), Examine(r) \/ ExamineRefuses(r)
  PROVE  RedoKept(r)
<1> USE RedoPlaces
<1> DEFINE found == <<FileAt(Original[r]), disk[Replacement[r]]>>
           existed == disk[Replacement[r]] # NoFile
<1>1. /\ job[r].pc = "locked" /\ UNCHANGED <<disk, cancelled, mutex>>
      /\ mutex = r /\ Holder(r) /\ Locked(r) /\ ~job[r].copying
  BY HolderOf DEF Examine, ExamineRefuses, HolderPc, Holder, MovingPc
<1>2. found \in Files \X Files
  BY FileTypes DEF FileAt, Typed
<1>3. PICK place \in HolderPc, e \in BOOLEAN :
        \/ GivesUp(r, found) /\ place = "leave"
        \/ /\ Finds(r, place, e, found)
           /\ e = existed
           /\ place = IF NeedsBackup(r) THEN "choose" ELSE AfterBackup(r, existed)
  <2>1. CASE Examine(r)
    <3>1. Finds(r, IF NeedsBackup(r) THEN "choose" ELSE AfterBackup(r, existed),
                existed, found)
      BY <2>1 DEF Examine, Finds
    <3>2. (IF NeedsBackup(r) THEN "choose" ELSE AfterBackup(r, existed)) \in HolderPc
      BY DEF HolderPc, AfterBackup, WritingPc, MovingPc
    <3> HIDE DEF found, existed
    <3> QED
      BY <3>1, <3>2 DEF existed
  <2>2. CASE ExamineRefuses(r)
    <3>1. GivesUp(r, found)
      BY <2>2 DEF ExamineRefuses, GivesUp
    <3>2. "leave" \in HolderPc
      BY DEF HolderPc
    <3> HIDE DEF found
    <3> QED
      BY <3>1, <3>2
  <2> QED
    BY <2>1, <2>2
<1> HIDE DEF found, existed
<1>5. /\ job' \in [Job -> Jobs] /\ Others(r)
      /\ job'[r].pc = place /\ job'[r].found = found
      /\ place = "leave" \/ job'[r].existed = e
      /\ job'[r].slot = job[r].slot
      /\ job'[r].copying = job[r].copying /\ job'[r].broken = job[r].broken
  <2>1. place \in TrackPc \cup OutsidePc \cup HolderPc /\ r \in Job
    OBVIOUS
  <2>2. Finds(r, place, e, found) \/ (GivesUp(r, found) /\ place = "leave")
    BY <1>3
  <2> QED
    BY <1>2, <2>1, <2>2, FindFields
<1>7. /\ OriginalFound(r)' = FileAt(Original[r])
      /\ DestinationFound(r)' = disk[Replacement[r]]
  BY <1>5 DEF OriginalFound, DestinationFound, found
<1>8. /\ Untouched(r)' /\ ~job'[r].copying /\ ~job'[r].broken
      /\ job'[r].slot = None /\ disk'[r] = NoFile
  BY <1>1, <1>5, <1>7 DEF Untouched, Locked, FileAt
<1>9. Examined(r)'
  BY <1>1, <1>3, <1>5, <1>7 DEF Examined, InPlace, existed, FileAt
<1>10. Holder(r)'
  <2>1. CASE place = "leave"
    BY <1>5, <1>8, <1>9, <2>1 DEF Holder, HolderPc, WritingPc, Leaving
  <2>2. CASE place # "leave" /\ NeedsBackup(r)
    BY <1>3, <1>5, <1>8, <1>9, <2>2
    DEF Holder, HolderPc, WritingPc, Choosing, NeedsBackup
  <2>3. CASE place # "leave" /\ ~NeedsBackup(r)
    <3>1. /\ ~InPlace(r) /\ Original[r] \notin Path
          /\ place = IF existed THEN "preserve" ELSE "staged"
      BY <1>3, <2>3 DEF NeedsBackup, InPlace, AfterBackup
    <3>2. OriginalKept(r)'
      BY <1>7, <1>8, <3>1 DEF OriginalKept, Untouched
    <3>3. CASE existed
      BY <1>1, <1>5, <1>7, <1>8, <1>9, <3>1, <3>2, <3>3
      DEF Holder, HolderPc, WritingPc, MovingPc, Preserving, existed
    <3>4. CASE ~existed
      BY <1>1, <1>5, <1>7, <1>8, <1>9, <3>1, <3>2, <3>4
      DEF Holder, HolderPc, WritingPc, MovingPc, Writing, existed
    <3> QED
      BY <3>3, <3>4
  <2> QED
    BY <2>1, <2>2, <2>3
<1> QED
  BY <1>1, <1>5, <1>10, DiskKept DEF RedoKept, RedoInv

\* A free name is chosen for the original.
LEMMA RedoChooses ==
  ASSUME Typed, NEW r \in Redo, RedoInv(r), ChooseSlot(r)
  PROVE  RedoKept(r)
<1> USE RedoPlaces
<1>1. /\ job[r].pc = "choose" /\ UNCHANGED <<disk, cancelled, mutex>>
      /\ mutex = r /\ Holder(r) /\ Choosing(r) /\ Examined(r)
      /\ ~job[r].copying /\ ~job[r].broken
  BY HolderOf DEF ChooseSlot, HolderPc, Holder, MovingPc
<1>2. PICK k \in Slot : /\ k \in NamesOf[r] /\ disk[k] = NoFile
                        /\ Chooses(r, "backup", k)
  BY FreeName DEF ChooseSlot, Chooses
<1>3. "backup" \in HolderPc
  BY DEF HolderPc, MovingPc
<1>4. /\ job' \in [Job -> Jobs] /\ Others(r)
      /\ job'[r].pc = "backup" /\ job'[r].slot = k
      /\ job'[r].existed = job[r].existed
      /\ job'[r].copying = job[r].copying /\ job'[r].broken = job[r].broken
      /\ job'[r].found = job[r].found
  BY <1>2, <1>3, SlotFields
<1>5. BackingUp(r)'
  BY <1>1, <1>2, <1>4
  DEF BackingUp, Choosing, Untouched, FileAt, OriginalFound, DestinationFound
<1>6. Examined(r)'
  BY <1>1, <1>4 DEF Examined, OriginalFound, DestinationFound
<1>7. Holder(r)'
  BY <1>1, <1>4, <1>5, <1>6 DEF Holder, HolderPc, WritingPc, MovingPc
<1> QED
  BY <1>1, <1>4, <1>7, DiskKept DEF RedoKept, RedoInv

\* What lies aside stays there while the destination is written.
LEMMA OriginalStays ==
  ASSUME NEW r \in Redo, OriginalKept(r), job'[r].slot = job[r].slot,
         job'[r].found = job[r].found,
         \A p \in Place \ {Replacement[r]} : disk'[p] = disk[p]
  PROVE  OriginalKept(r)'
  BY RedoPlaces DEF OriginalKept, FileAt, OriginalFound

\* What a job found does not change after its examination.
LEMMA ExaminedStays ==
  ASSUME NEW r \in Redo, Examined(r), job'[r].found = job[r].found,
         job[r].pc # "leave", job'[r].existed = job[r].existed
  PROVE  Examined(r)' /\ OriginalFound(r)' = OriginalFound(r)
         /\ DestinationFound(r)' = DestinationFound(r)
  BY DEF Examined, OriginalFound, DestinationFound

\* A failed publication leads to the step of the rollback that fits.
LEMMA RollbackStarts ==
  ASSUME Typed, NEW r \in Redo, RedoInv(r), job[r].pc \in WritingPc,
         NEW attempted \in BOOLEAN, PublishFailed(r, attempted),
         disk'[Replacement[r]] \in {NoFile, File(r, TRUE)},
         ~attempted => disk'[Replacement[r]] = NoFile,
         \A p \in Place \ {Replacement[r]} : disk'[p] = disk[p]
  PROVE  Holder(r)' /\ Others(r) /\ job' \in [Job -> Jobs]
<1> USE RedoPlaces
<1>1. /\ Holder(r) /\ Writing(r) /\ Examined(r) /\ ~job[r].copying /\ ~job[r].broken
      /\ job[r].pc # "leave"
  BY HolderOf DEF Holder, HolderPc, WritingPc, MovingPc
<1> DEFINE place == CASE disk[r] # NoFile -> "restoreDestination"
                      [] disk[r] = NoFile /\ attempted /\ ~job[r].existed
                           -> "removeReplacement"
                      [] OTHER -> AfterRollbackFile(r)
<1>2. GoTo(r, place)
  BY DEF PublishFailed
<1>3. place = IF disk[r] # NoFile THEN "restoreDestination"
              ELSE IF attempted /\ ~job[r].existed THEN "removeReplacement"
              ELSE IF job[r].slot # None THEN "restoreOriginal" ELSE "leave"
  BY DEF AfterRollbackFile
<1> HIDE DEF place
<1>4. place \in HolderPc
  BY <1>3 DEF HolderPc, MovingPc
<1>5. job'[r].pc = place /\ Kept(r) /\ Others(r) /\ job' \in [Job -> Jobs]
  BY <1>2, <1>4, GoToFields
<1>6. OriginalKept(r)'
  BY <1>1, <1>5, OriginalStays DEF Writing, Kept
<1>7. /\ Examined(r)' /\ OriginalFound(r)' = OriginalFound(r)
      /\ DestinationFound(r)' = DestinationFound(r)
  BY <1>1, <1>5, ExaminedStays DEF Kept
<1>8. /\ job'[r].slot = job[r].slot /\ ~job'[r].copying /\ ~job'[r].broken
      /\ disk'[r] = disk[r]
      /\ disk[r] = IF InPlace(r) THEN NoFile ELSE DestinationFound(r)
      /\ job[r].existed = (DestinationFound(r) # NoFile)
      /\ InPlace(r) => OriginalFound(r) = DestinationFound(r)
  BY <1>1, <1>5 DEF Kept, Writing, Examined
<1>9. CASE place = "restoreDestination"
  <2>1. RestoringDestination(r)'
    BY <1>3, <1>6, <1>7, <1>8, <1>9 DEF RestoringDestination, InPlace
  <2> QED
    BY <1>5, <1>7, <1>8, <1>9, <2>1 DEF Holder, HolderPc, WritingPc, MovingPc
<1>10. CASE place = "removeReplacement"
  <2>1. DestinationFound(r) = NoFile
    BY <1>3, <1>8, <1>10 DEF AfterRollbackFile
  <2>2. ~InPlace(r)
    BY <1>1, <1>8, <2>1 DEF Writing, OriginalKept, InPlace
  <2>3. RemovingReplacement(r)'
    BY <1>3, <1>6, <1>7, <1>8, <1>10, <2>1, <2>2 DEF RemovingReplacement, InPlace
  <2> QED
    BY <1>5, <1>7, <1>8, <1>10, <2>3 DEF Holder, HolderPc, WritingPc, MovingPc
<1>11. CASE place = "restoreOriginal"
  <2>1. disk[r] = NoFile /\ job[r].slot # None /\ ~(attempted /\ ~job[r].existed)
    BY <1>3, <1>11
  <2>2. /\ Original[r] \in Path /\ job[r].slot \in NamesOf[r]
        /\ OriginalFound(r) # NoFile /\ disk[job[r].slot] = OriginalFound(r)
        /\ ~InPlace(r) => disk[Original[r]] = NoFile
    BY <1>1, <2>1 DEF Writing, OriginalKept, InPlace
  <2>3. ~InPlace(r) => disk'[Replacement[r]] = DestinationFound(r)
    BY <1>8, <2>1
  <2>4. /\ disk'[job[r].slot] = disk[job[r].slot]
        /\ ~InPlace(r) => disk'[Original[r]] = disk[Original[r]]
        /\ InPlace(r) => disk'[Original[r]] \in {NoFile, File(r, TRUE)}
    BY <2>2 DEF InPlace
  <2>5. RestoringOriginal(r)'
    BY <1>7, <1>8, <2>2, <2>3, <2>4 DEF RestoringOriginal, InPlace
  <2> QED
    BY <1>5, <1>7, <1>8, <1>11, <2>5 DEF Holder, HolderPc, WritingPc, MovingPc
<1>12. CASE place = "leave"
  <2>1. disk[r] = NoFile /\ job[r].slot = None /\ ~(attempted /\ ~job[r].existed)
    BY <1>3, <1>12
  <2>2. Original[r] \notin Path /\ FileAt(Original[r]) = OriginalFound(r) /\ ~InPlace(r)
    BY <1>1, <2>1 DEF Writing, OriginalKept, InPlace
  <2>3. disk'[Replacement[r]] = DestinationFound(r)
    BY <1>8, <2>1, <2>2
  <2>4. Untouched(r)'
    BY <1>7, <2>2, <2>3 DEF Untouched, FileAt
  <2> QED
    BY <1>5, <1>7, <1>8, <1>12, <2>4 DEF Holder, HolderPc, WritingPc, MovingPc, Leaving
<1> QED
  BY <1>3, <1>9, <1>10, <1>11, <1>12

\* A job that publishes its file.
LEMMA RedoPublishes ==
  ASSUME Typed, NEW r \in Redo, RedoInv(r),
         \/ PublishRefused(r) \/ PublishRename(r) \/ PublishOpen(r)
         \/ PublishCopied(r) \/ Withdraw(r) \/ PublishReturns(r) \/ RedoRollsBack(r)
  PROVE  RedoKept(r)
<1> USE RedoPlaces
<1> DEFINE d == Replacement[r]
<1>1. /\ job[r].pc \in WritingPc /\ mutex = r /\ Holder(r) /\ Writing(r) /\ Examined(r)
      /\ ~job[r].copying /\ ~job[r].broken /\ job[r].pc # "leave"
      /\ UNCHANGED <<cancelled, mutex>>
  BY HolderOf DEF PublishRefused, PublishRename, PublishOpen, PublishCopied,
    Withdraw, PublishReturns, RedoRollsBack, Holder, HolderPc, WritingPc, MovingPc
<1>2. /\ disk[d] \in {NoFile, File(r, FALSE), File(r, TRUE)}
      /\ job[r].pc = "staged" => disk[d] = NoFile
      /\ job[r].pc \in {"placed", "copied", "published"} => disk[d] = File(r, TRUE)
  BY <1>1 DEF Writing, WritingPc
<1>3. /\ NoFile \in Files /\ File(r, TRUE) \in Files /\ File(r, FALSE) \in Files
      /\ NoFile.origin = None /\ File(r, TRUE).origin = r /\ File(r, FALSE).origin = r
  BY FileTypes
<1>4. ~OfOriginal(disk[d])
  <2>1. disk[d].origin = None \/ disk[d].origin = r
    BY <1>2, <1>3, Zenon
  <2> QED
    BY <2>1, RedoPlaces, Precious
<1>5. ASSUME NEW f \in {NoFile, File(r, FALSE), File(r, TRUE)}, disk' = [disk EXCEPT ![d] = f]
      PROVE  /\ disk' \in [Place -> Files] /\ disk'[d] = f
             /\ \A p \in Place \ {d} : disk'[p] = disk[p]
             /\ KeepsOriginals
  <2>1. f \in Files
    BY <1>3
  <2>2. /\ disk' \in [Place -> Files] /\ disk'[d] = f
        /\ \A p \in Place \ {d} : disk'[p] = disk[p]
    BY <1>5, <2>1, DiskTypes
  <2> QED
    BY <1>4, <1>5, <2>1, <2>2, WriteKeeps
<1>6. ASSUME Holder(r)', KeepsOriginals
      PROVE  RedoKept(r)
  BY <1>1, <1>6 DEF RedoKept, RedoInv
<1>7. CASE PublishRefused(r) \/ RedoRollsBack(r)
  <2>1. /\ disk' = disk /\ job[r].pc # "copying"
        /\ \/ PublishFailed(r, TRUE)
           \/ PublishFailed(r, FALSE) /\ disk[d] = NoFile
    BY <1>2, <1>7 DEF PublishRefused, RedoRollsBack
  <2>2. /\ disk'[d] \in {NoFile, File(r, TRUE)}
        /\ \A p \in Place \ {d} : disk'[p] = disk[p]
    BY <1>1, <1>2, <2>1 DEF WritingPc
  <2>3. CASE PublishFailed(r, TRUE)
    BY <1>1, <1>6, <2>1, <2>2, <2>3, RollbackStarts, DiskKept DEF Typed
  <2>4. CASE PublishFailed(r, FALSE) /\ disk'[d] = NoFile
    BY <1>1, <1>6, <2>1, <2>2, <2>4, RollbackStarts, DiskKept DEF Typed
  <2> QED
    BY <2>1, <2>3, <2>4
<1>8. CASE Withdraw(r)
  <2>1. PublishFailed(r, TRUE) /\ disk' = [disk EXCEPT ![d] = NoFile]
    BY <1>8 DEF Withdraw
  <2>2. Holder(r)' /\ Others(r) /\ job' \in [Job -> Jobs]
    BY <1>1, <1>5, <2>1, RollbackStarts
  <2> QED
    BY <1>5, <1>6, <2>1, <2>2
<1>9. CASE PublishRename(r) \/ PublishOpen(r) \/ PublishCopied(r) \/ PublishReturns(r)
  <2>1. PICK f \in {File(r, FALSE), File(r, TRUE)},
             place \in {"placed", "copying", "copied", "published"} :
          /\ disk' = [disk EXCEPT ![d] = f] /\ GoTo(r, place)
          /\ f = File(r, place # "copying")
    <3>1. CASE PublishReturns(r)
      <4>1. disk' = [disk EXCEPT ![d] = File(r, TRUE)]
        BY <1>2, <3>1 DEF PublishReturns, Typed
      <4> QED
        BY <3>1, <4>1 DEF PublishReturns
    <3>2. CASE PublishRename(r) \/ PublishOpen(r) \/ PublishCopied(r)
      BY <3>2 DEF PublishRename, PublishOpen, PublishCopied
    <3> QED
      BY <1>9, <3>1, <3>2
  <2>2. job'[r].pc = place /\ Kept(r) /\ Others(r) /\ job' \in [Job -> Jobs]
    BY <2>1, GoToFields DEF HolderPc, WritingPc
  <2>3. /\ disk' \in [Place -> Files] /\ disk'[d] = f
        /\ \A p \in Place \ {d} : disk'[p] = disk[p]
        /\ KeepsOriginals
    BY <1>5, <2>1
  <2>4. OriginalKept(r)'
    BY <1>1, <2>2, <2>3, OriginalStays DEF Writing, Kept
  <2>5. /\ Examined(r)' /\ OriginalFound(r)' = OriginalFound(r)
        /\ DestinationFound(r)' = DestinationFound(r)
    BY <1>1, <2>2, ExaminedStays DEF Kept
  <2>6. Writing(r)'
    BY <1>1, <2>1, <2>2, <2>3, <2>4, <2>5 DEF Writing, InPlace
  <2>7. Holder(r)'
    BY <1>1, <2>1, <2>2, <2>5, <2>6 DEF Holder, HolderPc, WritingPc, MovingPc, Kept
  <2> QED
    BY <1>6, <2>2, <2>3, <2>7
<1> QED
  BY <1>7, <1>8, <1>9

\* What is left of a file, and what a job wrote, are no originals.
LEMMA NoOriginals ==
  /\ ~OfOriginal(NoFile)
  /\ \A r \in Redo : ~OfOriginal(File(r, TRUE))
  /\ \A f \in Files : ~OfOriginal(Half(f))
<1>1. ASSUME NEW r \in Redo PROVE ~OfOriginal(File(r, TRUE))
  <2>1. r \in Job /\ File(r, TRUE).origin = r
    BY FileTypes, RedoPlaces
  <2> QED
    BY <2>1, Precious
<1>2. ASSUME NEW f \in Files PROVE ~OfOriginal(Half(f))
  <2>1. ~Half(f).whole
    BY FileTypes
  <2> QED
    BY <2>1, Precious
<1> QED
  BY <1>1, <1>2, Precious

\* What an examination found are files.
LEMMA FoundFiles ==
  ASSUME Typed, NEW r \in Redo
  PROVE  OriginalFound(r) \in Files /\ DestinationFound(r) \in Files
  BY RedoPlaces DEF Typed, Jobs, OriginalFound, DestinationFound

\* A move that leaves the job's own invariant intact loses no original.
LEMMA MoveKeepsAll ==
  ASSUME Typed, NEW r \in Redo, mutex = r,
         NEW p \in Place, NEW q \in Place \ {p},
         From(r) = p, To(r) = q, job[r].pc = "preserve" => q = r, MoveStep(r),
         ~OfOriginal(disk[q]), Holder(r)'
  PROVE  RedoKept(r)
<1> USE RedoPlaces
<1>1. /\ Arrives(r, p, q) \/ Opens(r, p, q) \/ Stops(r, p, q)
      /\ mutex' = mutex
  BY MoveOutcomes
<1>2. KeepsOriginals
  <2>1. CASE Arrives(r, p, q)
    <3>1. disk'[q] = disk[p] /\ \A x \in Place \ {p, q} : disk'[x] = disk[x]
      BY <2>1 DEF Arrives
    <3> QED
      BY <3>1, MoveKeeps
  <2>2. CASE Opens(r, p, q) \/ Stops(r, p, q)
    <3>1. \A x \in Place \ {q} : disk'[x] = disk[x]
      BY <2>2 DEF Opens, Stops
    <3>2. \A x \in Place : OfOriginal(disk[x]) => x # q
      OBVIOUS
    <3> QED
      BY <3>1, <3>2 DEF KeepsOriginals
  <2> QED
    BY <1>1, <2>1, <2>2
<1> QED
  BY <1>1, <1>2 DEF RedoKept, RedoInv

\* After the destination the original is put back, if it lies aside.
LEMMA OriginalNext ==
  ASSUME NEW r \in Redo, job'[r].pc = AfterRollbackFile(r), job'[r].slot = job[r].slot,
         ~job'[r].copying, OriginalKept(r)', Examined(r)', ~InPlace(r),
         job'[r].broken \/ disk'[Replacement[r]] = DestinationFound(r)'
  PROVE  Holder(r)'
<1> USE RedoPlaces
<1>1. CASE job[r].slot = None
  <2>1. job'[r].pc = "leave"
    BY <1>1 DEF AfterRollbackFile
  <2>2. Leaving(r)'
    BY <1>1 DEF OriginalKept, Leaving, Untouched
  <2> QED
    BY <2>1, <2>2 DEF Holder, HolderPc, WritingPc, MovingPc
<1>2. CASE job[r].slot # None
  <2>1. job'[r].pc = "restoreOriginal"
    BY <1>2 DEF AfterRollbackFile
  <2>2. RestoringOriginal(r)'
    BY <1>2 DEF OriginalKept, RestoringOriginal, InPlace
  <2> QED
    BY <2>1, <2>2 DEF Holder, HolderPc, WritingPc, MovingPc
<1> QED
  BY <1>1, <1>2

\* The original is moved to Suspicious.
LEMMA RedoBacksUp ==
  ASSUME Typed, NEW r \in Redo, RedoInv(r), job[r].pc = "backup", MoveStep(r)
  PROVE  RedoKept(r)
<1> USE RedoPlaces
<1> DEFINE p == Original[r]
           q == job[r].slot
           f1 == OriginalFound(r)
           f2 == DestinationFound(r)
<1>1. /\ mutex = r /\ Holder(r) /\ BackingUp(r) /\ Examined(r) /\ ~job[r].broken
  BY HolderOf DEF Holder, HolderPc, WritingPc, MovingPc
<1>2. /\ p \in Path /\ q \in NamesOf[r] /\ p # q /\ p \in Place /\ q \in Place
      /\ disk[p] = f1 /\ disk[Replacement[r]] = f2 /\ disk[r] = NoFile
      /\ IF job[r].copying THEN f1 # NoFile /\ disk[q] = Half(f1) ELSE disk[q] = NoFile
      /\ job[r].existed = (f2 # NoFile)
      /\ InPlace(r) => f1 = f2
      /\ Original[r] # None
  BY <1>1 DEF BackingUp, Untouched, FileAt, Examined
<1>4. f1 \in Files /\ f2 \in Files
  BY FoundFiles
<1>5. ~OfOriginal(disk[q])
  BY <1>2, <1>4, NoOriginals
<1>6. From(r) = p /\ To(r) = q
  BY DEF From, To
<1>7. /\ Arrives(r, p, q) \/ Opens(r, p, q) \/ Stops(r, p, q)
      /\ disk' \in [Place -> Files]
  BY <1>2, <1>6, MoveOutcomes
<1>8. Holder(r)'
  <2>1. CASE Arrives(r, p, q)
    <3>1. /\ disk'[q] = f1 /\ disk'[p] = NoFile /\ f1 # NoFile
          /\ \A x \in Place \ {p, q} : disk'[x] = disk[x]
          /\ Moved(r, TRUE)
      BY <1>2, <2>1 DEF Arrives
    <3>2. /\ job'[r].existed = job[r].existed /\ job'[r].found = job[r].found
          /\ ~job'[r].copying /\ job'[r].slot = q /\ ~job'[r].broken
          /\ job'[r].pc = AfterBackup(r, job[r].existed)
      BY <1>1, <3>1, MovedFields DEF MovingPc
    <3>3. /\ Examined(r)' /\ OriginalFound(r)' = f1 /\ DestinationFound(r)' = f2
      BY <1>1, <3>2, ExaminedStays
    <3>4. OriginalKept(r)'
      BY <1>2, <3>1, <3>2, <3>3 DEF OriginalKept, FileAt
    <3>5. job'[r].pc = IF job[r].existed /\ ~InPlace(r) THEN "preserve" ELSE "staged"
      BY <1>2, <3>2 DEF AfterBackup, NeedsBackup, InPlace
    <3>6. CASE job[r].existed /\ ~InPlace(r)
      <4>1. disk'[Replacement[r]] = f2 /\ disk'[r] = NoFile
        BY <1>2, <3>1, <3>6 DEF InPlace
      <4>2. Preserving(r)'
        BY <1>2, <3>2, <3>3, <3>4, <3>6, <4>1 DEF Preserving, InPlace
      <4> QED
        BY <3>2, <3>3, <3>5, <3>6, <4>2 DEF Holder, HolderPc, WritingPc, MovingPc
    <3>7. CASE ~(job[r].existed /\ ~InPlace(r))
      <4>1. disk'[r] = NoFile
        BY <1>2, <3>1
      <4>2. disk'[Replacement[r]] = NoFile /\ (~InPlace(r) => f2 = NoFile)
        BY <1>2, <3>1, <3>7 DEF InPlace
      <4>3. Writing(r)'
        BY <3>3, <3>4, <3>5, <3>7, <4>1, <4>2 DEF Writing, InPlace
      <4> QED
        BY <3>2, <3>3, <3>5, <3>7, <4>3 DEF Holder, HolderPc, WritingPc, MovingPc
    <3> QED
      BY <3>6, <3>7
  <2>2. CASE Opens(r, p, q)
    <3>1. /\ disk'[q] = Half(f1) /\ f1 # NoFile
          /\ \A x \in Place \ {q} : disk'[x] = disk[x]
          /\ Copies(r)
      BY <1>2, <2>2 DEF Opens
    <3>2. /\ job'[r].existed = job[r].existed /\ job'[r].found = job[r].found
          /\ job'[r].copying /\ job'[r].slot = q /\ ~job'[r].broken
          /\ job'[r].pc = "backup"
      BY <1>1, <3>1, CopyFields
    <3>3. /\ Examined(r)' /\ OriginalFound(r)' = f1 /\ DestinationFound(r)' = f2
      BY <1>1, <3>2, ExaminedStays
    <3>4. BackingUp(r)'
      BY <1>2, <3>1, <3>2, <3>3 DEF BackingUp, Untouched, FileAt
    <3> QED
      BY <3>2, <3>3, <3>4 DEF Holder, HolderPc, WritingPc, MovingPc
  <2>3. CASE Stops(r, p, q)
    <3>1. /\ \A x \in Place \ {q} : disk'[x] = disk[x]
          /\ Moved(r, FALSE)
      BY <2>3 DEF Stops
    <3>2. /\ job'[r].existed = job[r].existed /\ job'[r].found = job[r].found
          /\ ~job'[r].copying /\ ~job'[r].broken
          /\ job'[r].pc = "leave"
      BY <1>1, <3>1, MovedFields DEF MovingPc
    <3>3. /\ Examined(r)' /\ OriginalFound(r)' = f1 /\ DestinationFound(r)' = f2
      BY <1>1, <3>2, ExaminedStays
    <3>4. Leaving(r)'
      BY <1>2, <3>1, <3>3 DEF Leaving, Untouched, FileAt
    <3> QED
      BY <3>2, <3>3, <3>4 DEF Holder, HolderPc, WritingPc, MovingPc
  <2> QED
    BY <1>7, <2>1, <2>2, <2>3
<1> QED
  BY <1>1, <1>2, <1>5, <1>6, <1>8, MoveKeepsAll

\* The unrelated file at the destination is moved to the rollback file.
LEMMA RedoPreserves ==
  ASSUME Typed, NEW r \in Redo, RedoInv(r), job[r].pc = "preserve", MoveStep(r)
  PROVE  RedoKept(r)
<1> USE RedoPlaces
<1> DEFINE p == Replacement[r]
           f1 == OriginalFound(r)
           f2 == DestinationFound(r)
<1>1. /\ mutex = r /\ Holder(r) /\ Preserving(r) /\ Examined(r) /\ ~job[r].broken
  BY HolderOf DEF Holder, HolderPc, WritingPc, MovingPc
<1>2. /\ p \in Path /\ p # r /\ p \in Place /\ r \in Place
      /\ disk[p] = f2 /\ f2 # NoFile /\ ~InPlace(r) /\ OriginalKept(r)
      /\ disk[r] = IF job[r].copying THEN Half(f2) ELSE NoFile
  BY <1>1 DEF Preserving
<1>4. f1 \in Files /\ f2 \in Files
  BY FoundFiles
<1>5. ~OfOriginal(disk[r])
  BY <1>2, <1>4, NoOriginals
<1>6. From(r) = p /\ To(r) = r
  BY DEF From, To
<1>7. /\ Arrives(r, p, r) \/ Opens(r, p, r) \/ Stops(r, p, r)
      /\ disk' \in [Place -> Files]
  BY <1>2, <1>6, MoveOutcomes
<1>8. Holder(r)'
  <2>1. CASE Arrives(r, p, r)
    <3>1. /\ disk'[r] = f2 /\ disk'[p] = NoFile
          /\ \A x \in Place \ {p, r} : disk'[x] = disk[x]
          /\ Moved(r, TRUE)
      BY <1>2, <2>1 DEF Arrives
    <3>2. /\ job'[r].existed = job[r].existed /\ job'[r].found = job[r].found
          /\ ~job'[r].copying /\ job'[r].slot = job[r].slot /\ ~job'[r].broken
          /\ job'[r].pc = "staged"
      BY <1>1, <3>1, MovedFields DEF MovingPc
    <3>3. /\ Examined(r)' /\ OriginalFound(r)' = f1 /\ DestinationFound(r)' = f2
      BY <1>1, <3>2, ExaminedStays
    <3>4. OriginalKept(r)'
      BY <1>2, <3>1, <3>2, <3>3 DEF OriginalKept, FileAt, InPlace
    <3>5. Writing(r)'
      BY <1>2, <3>1, <3>2, <3>3, <3>4 DEF Writing, InPlace
    <3> QED
      BY <3>2, <3>3, <3>5 DEF Holder, HolderPc, WritingPc, MovingPc
  <2>2. CASE Opens(r, p, r)
    <3>1. /\ disk'[r] = Half(f2)
          /\ \A x \in Place \ {r} : disk'[x] = disk[x]
          /\ Copies(r)
      BY <1>2, <2>2 DEF Opens
    <3>2. /\ job'[r].existed = job[r].existed /\ job'[r].found = job[r].found
          /\ job'[r].copying /\ job'[r].slot = job[r].slot /\ ~job'[r].broken
          /\ job'[r].pc = "preserve"
      BY <1>1, <3>1, CopyFields
    <3>3. /\ Examined(r)' /\ OriginalFound(r)' = f1 /\ DestinationFound(r)' = f2
      BY <1>1, <3>2, ExaminedStays
    <3>4. OriginalKept(r)'
      BY <1>2, <3>1, <3>2, <3>3 DEF OriginalKept, FileAt
    <3>5. Preserving(r)'
      BY <1>2, <3>1, <3>2, <3>3, <3>4 DEF Preserving, InPlace
    <3> QED
      BY <3>2, <3>3, <3>5 DEF Holder, HolderPc, WritingPc, MovingPc
  <2>3. CASE Stops(r, p, r)
    <3>1. /\ \A x \in Place \ {r} : disk'[x] = disk[x]
          /\ Moved(r, FALSE)
      BY <2>3 DEF Stops
    <3>2. /\ job'[r].existed = job[r].existed /\ job'[r].found = job[r].found
          /\ ~job'[r].copying /\ job'[r].slot = job[r].slot /\ ~job'[r].broken
          /\ job'[r].pc = AfterRollbackFile(r)
      BY <1>1, <3>1, MovedFields DEF MovingPc
    <3>3. /\ Examined(r)' /\ OriginalFound(r)' = f1 /\ DestinationFound(r)' = f2
      BY <1>1, <3>2, ExaminedStays
    <3>4. OriginalKept(r)'
      BY <1>2, <3>1, <3>2, <3>3 DEF OriginalKept, FileAt
    <3> QED
      BY <1>2, <3>1, <3>2, <3>3, <3>4, OriginalNext
  <2> QED
    BY <1>7, <2>1, <2>2, <2>3
<1> QED
  BY <1>1, <1>2, <1>5, <1>6, <1>8, MoveKeepsAll

\* The file that was at the destination is put back.
LEMMA RedoRestoresDestination ==
  ASSUME Typed, NEW r \in Redo, RedoInv(r), job[r].pc = "restoreDestination",
         MoveStep(r)
  PROVE  RedoKept(r)
<1> USE RedoPlaces
<1> DEFINE q == Replacement[r]
           f1 == OriginalFound(r)
           f2 == DestinationFound(r)
<1>1. /\ mutex = r /\ Holder(r) /\ RestoringDestination(r) /\ Examined(r)
      /\ ~job[r].broken
  BY HolderOf DEF Holder, HolderPc, WritingPc, MovingPc
<1>2. /\ q \in Path /\ q # r /\ q \in Place /\ r \in Place
      /\ disk[r] = f2 /\ f2 # NoFile /\ ~InPlace(r) /\ OriginalKept(r)
      /\ disk[q] = Half(f2) \/ disk[q] = NoFile \/ disk[q] = File(r, TRUE)
  BY <1>1 DEF RestoringDestination
<1>4. f1 \in Files /\ f2 \in Files
  BY FoundFiles
<1>5. ~OfOriginal(disk[q])
  <2>1. ~OfOriginal(Half(f2)) /\ ~OfOriginal(NoFile) /\ ~OfOriginal(File(r, TRUE))
    BY <1>4, NoOriginals
  <2> QED
    BY <1>2, <2>1, Zenon
<1>6. From(r) = r /\ To(r) = q
  BY DEF From, To
<1>7. /\ Arrives(r, r, q) \/ Opens(r, r, q) \/ Stops(r, r, q)
      /\ disk' \in [Place -> Files]
  BY <1>2, <1>6, MoveOutcomes
<1>8. Holder(r)'
  <2>1. CASE Arrives(r, r, q) \/ Stops(r, r, q)
    <3>1. /\ \A x \in Place \ {r, q} : disk'[x] = disk[x]
          /\ \/ disk'[q] = f2 /\ Moved(r, TRUE)
             \/ Moved(r, FALSE)
      BY <1>2, <2>1 DEF Arrives, Stops
    <3>2. /\ job'[r].existed = job[r].existed /\ job'[r].found = job[r].found
          /\ ~job'[r].copying /\ job'[r].slot = job[r].slot
          /\ job'[r].broken \/ disk'[q] = f2
          /\ job'[r].pc = AfterRollbackFile(r)
      BY <1>1, <3>1, MovedFields DEF MovingPc
    <3>3. /\ Examined(r)' /\ OriginalFound(r)' = f1 /\ DestinationFound(r)' = f2
      BY <1>1, <3>2, ExaminedStays
    <3>4. OriginalKept(r)'
      BY <1>2, <3>1, <3>2, <3>3 DEF OriginalKept, FileAt, InPlace
    <3> QED
      BY <1>2, <3>1, <3>2, <3>3, <3>4, OriginalNext
  <2>2. CASE Opens(r, r, q)
    <3>1. /\ disk'[q] = Half(f2)
          /\ \A x \in Place \ {q} : disk'[x] = disk[x]
          /\ Copies(r)
      BY <1>2, <2>2 DEF Opens
    <3>2. /\ job'[r].existed = job[r].existed /\ job'[r].found = job[r].found
          /\ job'[r].copying /\ job'[r].slot = job[r].slot /\ ~job'[r].broken
          /\ job'[r].pc = "restoreDestination"
      BY <1>1, <3>1, CopyFields
    <3>3. /\ Examined(r)' /\ OriginalFound(r)' = f1 /\ DestinationFound(r)' = f2
      BY <1>1, <3>2, ExaminedStays
    <3>4. OriginalKept(r)'
      BY <1>2, <3>1, <3>2, <3>3 DEF OriginalKept, FileAt, InPlace
    <3>5. RestoringDestination(r)'
      BY <1>2, <3>1, <3>2, <3>3, <3>4 DEF RestoringDestination, InPlace
    <3> QED
      BY <3>2, <3>3, <3>5 DEF Holder, HolderPc, WritingPc, MovingPc
  <2> QED
    BY <1>7, <2>1, <2>2
<1> QED
  BY <1>1, <1>2, <1>5, <1>6, <1>8, MoveKeepsAll

\* The original is put back.
LEMMA RedoRestoresOriginal ==
  ASSUME Typed, NEW r \in Redo, RedoInv(r), job[r].pc = "restoreOriginal",
         MoveStep(r)
  PROVE  RedoKept(r)
<1> USE RedoPlaces
<1> DEFINE p == job[r].slot
           q == Original[r]
           f1 == OriginalFound(r)
           f2 == DestinationFound(r)
<1>1. /\ mutex = r /\ Holder(r) /\ RestoringOriginal(r) /\ Examined(r)
  BY HolderOf DEF Holder, HolderPc, WritingPc, MovingPc
<1>2. /\ q \in Path /\ p \in NamesOf[r] /\ q # p /\ q \in Place /\ p \in Place
      /\ disk[p] = f1 /\ f1 # NoFile
      /\ ~InPlace(r) => job[r].broken \/ disk[Replacement[r]] = f2
      /\ disk[q] \in {Half(f1), NoFile, File(r, TRUE)}
      /\ ~job[r].copying /\ ~InPlace(r) => disk[q] = NoFile
      /\ InPlace(r) => f1 = f2
  BY <1>1 DEF RestoringOriginal, Examined
<1>4. f1 \in Files /\ f2 \in Files
  BY FoundFiles
<1>5. ~OfOriginal(disk[q])
  <2>1. ~OfOriginal(Half(f1)) /\ ~OfOriginal(NoFile) /\ ~OfOriginal(File(r, TRUE))
    BY <1>4, NoOriginals
  <2>2. disk[q] = Half(f1) \/ disk[q] = NoFile \/ disk[q] = File(r, TRUE)
    BY <1>2
  <2> QED
    BY <2>1, <2>2, Zenon
<1>6. From(r) = p /\ To(r) = q
  BY DEF From, To
<1>7. /\ Arrives(r, p, q) \/ Opens(r, p, q) \/ Stops(r, p, q)
      /\ disk' \in [Place -> Files]
  BY <1>2, <1>6, MoveOutcomes
<1>8. Holder(r)'
  <2>1. CASE Arrives(r, p, q) \/ Stops(r, p, q)
    <3>1. /\ \A x \in Place \ {p, q} : disk'[x] = disk[x]
          /\ \/ disk'[q] = f1 /\ Moved(r, TRUE)
             \/ Moved(r, FALSE)
      BY <1>2, <2>1 DEF Arrives, Stops
    <3>2. /\ job'[r].existed = job[r].existed /\ job'[r].found = job[r].found
          /\ ~job'[r].copying
          /\ job'[r].broken \/ (disk'[q] = f1 /\ ~job[r].broken)
          /\ job'[r].pc = "leave"
      BY <1>1, <3>1, MovedFields DEF MovingPc
    <3>3. /\ Examined(r)' /\ OriginalFound(r)' = f1 /\ DestinationFound(r)' = f2
      BY <1>1, <3>2, ExaminedStays
    <3>4. Leaving(r)'
      BY <1>2, <3>1, <3>2, <3>3 DEF Leaving, Untouched, FileAt, InPlace
    <3> QED
      BY <3>2, <3>3, <3>4 DEF Holder, HolderPc, WritingPc, MovingPc
  <2>2. CASE Opens(r, p, q)
    <3>1. /\ disk'[q] = Half(f1)
          /\ \A x \in Place \ {q} : disk'[x] = disk[x]
          /\ Copies(r)
      BY <1>2, <2>2 DEF Opens
    <3>2. /\ job'[r].existed = job[r].existed /\ job'[r].found = job[r].found
          /\ job'[r].copying /\ job'[r].slot = p
          /\ job'[r].broken = job[r].broken
          /\ job'[r].pc = "restoreOriginal"
      BY <1>1, <3>1, CopyFields
    <3>3. /\ Examined(r)' /\ OriginalFound(r)' = f1 /\ DestinationFound(r)' = f2
      BY <1>1, <3>2, ExaminedStays
    <3>4. RestoringOriginal(r)'
      BY <1>2, <3>1, <3>2, <3>3 DEF RestoringOriginal, InPlace
    <3> QED
      BY <3>2, <3>3, <3>4 DEF Holder, HolderPc, WritingPc, MovingPc
  <2> QED
    BY <1>7, <2>1, <2>2
<1> QED
  BY <1>1, <1>2, <1>5, <1>6, <1>8, MoveKeepsAll

\* A step of the rollback failed.
Breaks(j, place) == job' = [job EXCEPT ![j].pc = place, ![j].broken = TRUE]

\* What a failed step of the rollback leaves alone.
LEMMA BrokenFields ==
  ASSUME Typed, NEW j \in Job, NEW place \in TrackPc \cup OutsidePc \cup HolderPc,
         Breaks(j, place)
  PROVE  /\ job' \in [Job -> Jobs] /\ Others(j)
         /\ job'[j].pc = place /\ job'[j].broken = TRUE
         /\ job'[j].outcome = job[j].outcome
         /\ job'[j].slot = job[j].slot /\ job'[j].existed = job[j].existed
         /\ job'[j].copying = job[j].copying /\ job'[j].found = job[j].found
<1>1. job \in [Job -> Jobs] /\ job[j] \in Jobs
  BY DEF Typed
<1>2. job' = [job EXCEPT ![j] = [job[j] EXCEPT !.pc = place, !.broken = TRUE]]
  BY <1>1 DEF Breaks
<1>3. job'[j] = [job[j] EXCEPT !.pc = place, !.broken = TRUE]
  BY <1>1, <1>2
<1>4. job'[j] \in Jobs
  BY <1>1, <1>3 DEF Jobs
<1> QED
  BY <1>1, <1>2, <1>3, <1>4 DEF Jobs, Others

\* What the job put at a destination that was free is removed, or stays.
LEMMA RedoRemoves ==
  ASSUME Typed, NEW r \in Redo, RedoInv(r), RemoveReplacement(r)
  PROVE  RedoKept(r)
<1> USE RedoPlaces
<1> DEFINE d == Replacement[r]
           f1 == OriginalFound(r)
           f2 == DestinationFound(r)
<1>1. /\ job[r].pc = "removeReplacement" /\ mutex = r /\ Holder(r)
      /\ RemovingReplacement(r) /\ Examined(r) /\ ~job[r].broken /\ ~job[r].copying
      /\ UNCHANGED <<cancelled, mutex>>
  BY HolderOf DEF RemoveReplacement, Holder, HolderPc, WritingPc, MovingPc
<1>2. /\ ~InPlace(r) /\ f2 = NoFile /\ OriginalKept(r) /\ disk[r] = NoFile
      /\ disk[d] \in {NoFile, File(r, TRUE)}
  BY <1>1 DEF RemovingReplacement
<1>3. ~OfOriginal(disk[d])
  <2>1. ~OfOriginal(NoFile) /\ ~OfOriginal(File(r, TRUE))
    BY NoOriginals
  <2>2. disk[d] = NoFile \/ disk[d] = File(r, TRUE)
    BY <1>2
  <2> QED
    BY <2>1, <2>2, Zenon
<1>4. AfterRollbackFile(r) \in HolderPc
  BY DEF AfterRollbackFile, HolderPc, MovingPc
<1>5. \/ disk' = [disk EXCEPT ![d] = NoFile] /\ GoTo(r, AfterRollbackFile(r))
      \/ disk' = disk /\ Breaks(r, AfterRollbackFile(r))
  BY DEF RemoveReplacement, Breaks
<1>6. /\ job' \in [Job -> Jobs] /\ Others(r)
      /\ job'[r].pc = AfterRollbackFile(r) /\ job'[r].slot = job[r].slot
      /\ job'[r].existed = job[r].existed /\ ~job'[r].copying
      /\ job'[r].found = job[r].found
      /\ job'[r].broken \/ disk' = [disk EXCEPT ![d] = NoFile]
  <2>1. CASE disk' = [disk EXCEPT ![d] = NoFile] /\ GoTo(r, AfterRollbackFile(r))
    BY <1>1, <1>4, <2>1, GoToFields DEF Kept
  <2>2. CASE disk' = disk /\ Breaks(r, AfterRollbackFile(r))
    BY <1>1, <1>4, <2>2, BrokenFields
  <2> QED
    BY <1>5, <2>1, <2>2
<1>7. /\ disk' \in [Place -> Files] /\ \A p \in Place \ {d} : disk'[p] = disk[p]
      /\ KeepsOriginals
      /\ job'[r].broken \/ disk'[d] = NoFile
  <2>1. CASE disk' = [disk EXCEPT ![d] = NoFile]
    <3>1. /\ disk' \in [Place -> Files] /\ disk'[d] = NoFile
          /\ \A p \in Place \ {d} : disk'[p] = disk[p]
      BY <2>1, DiskTypes, FileTypes
    <3> QED
      BY <1>3, <2>1, <3>1, WriteKeeps, FileTypes
  <2>2. CASE disk' = disk
    BY <1>6, <2>2, DiskKept DEF Typed
  <2> QED
    BY <1>5, <2>1, <2>2
<1>8. /\ Examined(r)' /\ OriginalFound(r)' = f1 /\ DestinationFound(r)' = f2
  BY <1>1, <1>6, ExaminedStays
<1>9. OriginalKept(r)'
  BY <1>2, <1>6, <1>7, OriginalStays
<1>10. Holder(r)'
  BY <1>2, <1>6, <1>7, <1>8, <1>9, OriginalNext
<1> QED
  BY <1>1, <1>6, <1>7, <1>10 DEF RedoKept, RedoInv

\* A job that is done deletes its rollback file.
LEMMA RedoDeletes ==
  ASSUME Typed, NEW r \in Redo, RedoInv(r), RedoCompletes(r)
  PROVE  RedoInv(r)'
<1> USE RedoPlaces
<1>1. /\ mutex' = None /\ EndAs(r, "replaced") /\ Holder(r) /\ ~job[r].copying
  BY HolderOf DEF RedoCompletes, Holder, HolderPc, WritingPc, MovingPc
<1>2. job'[r].pc = "done" /\ Kept(r)
  BY <1>1, EndAsFields
<1>3. Outside(r)'
  BY <1>1, <1>2 DEF Outside, OutsidePc, Kept
<1> QED
  BY <1>1, <1>3 DEF RedoInv

\* A failed job ends.
LEMMA RedoEnds ==
  ASSUME Typed, NEW r \in Redo, RedoInv(r), RedoLeaves(r)
  PROVE  RedoKept(r)
<1> USE RedoPlaces
<1>1. /\ job[r].pc = "leave" /\ mutex = r /\ Holder(r) /\ ~job[r].copying
      /\ mutex' = None /\ EndAs(r, "failed") /\ UNCHANGED <<disk, cancelled>>
  BY HolderOf DEF RedoLeaves, Holder, HolderPc, WritingPc, MovingPc
<1>2. job'[r].pc = "done" /\ Kept(r) /\ Others(r) /\ job' \in [Job -> Jobs]
  BY <1>1, EndAsFields
<1>3. Outside(r)'
  BY <1>1, <1>2 DEF Outside, OutsidePc, Kept
<1> QED
  BY <1>1, <1>2, <1>3, DiskKept DEF RedoKept, RedoInv

\* Every step of a YouTube job keeps its files where it expects them, and
\* loses no original unless it is done.
LEMMA RedoOwn ==
  ASSUME Typed, NEW r \in Redo, RedoInv(r), RedoStep(r) \/ FileStep(r)
  PROVE  RedoInv(r)' /\ (KeepsOriginals \/ RedoCompletes(r))
<1>1. CASE StartRedo(r) \/ RedoFails(r) \/ RedoStaged(r) \/ Lock(r)
  BY <1>1, RedoEnters DEF RedoKept
<1>2. CASE Examine(r) \/ ExamineRefuses(r) \/ ChooseSlot(r)
  BY <1>2, RedoExamines, RedoChooses DEF RedoKept
<1>3. CASE RemoveReplacement(r) \/ RedoLeaves(r)
  BY <1>3, RedoRemoves, RedoEnds DEF RedoKept
<1>4. CASE RedoCompletes(r)
  BY <1>4, RedoDeletes
<1>5. CASE \/ PublishRefused(r) \/ PublishRename(r) \/ PublishOpen(r)
           \/ PublishCopied(r) \/ Withdraw(r) \/ PublishReturns(r) \/ RedoRollsBack(r)
  BY <1>5, RedoPublishes DEF RedoKept
<1>6. CASE MoveStep(r)
  <2>1. job[r].pc \in MovingPc
    <3>1. job[r].pc \in MovingPc \cup {"quarantine"}
      BY <1>6 DEF MoveStep, MoveRename, MoveOpen, MoveCopied, MoveFails, Moving, MovingPc
    <3> QED
      BY <3>1 DEF RedoInv, Outside, OutsidePc, Holder, HolderPc, WritingPc, MovingPc
  <2> QED
    BY <1>6, <2>1, RedoBacksUp, RedoPreserves, RedoRestoresDestination,
       RedoRestoresOriginal DEF MovingPc, RedoKept
<1> QED
  BY <1>1, <1>2, <1>3, <1>4, <1>5, <1>6 DEF RedoStep, FileStep, MoveStep

-----------------------------------------------------------------------------
(* The steps of a YouTube job, wherever the tracks are.                    *)

\* What a step can do to the disk and to the mutex.  Before it has the mutex
\* a YouTube job touches nothing,
Waits(r) ==
  /\ mutex # r /\ mutex' = mutex /\ disk' = disk /\ job'[r].slot = job[r].slot
  /\ job'[r].outcome \in {"none", "failed"}

\* until it takes it;
Locks(r) ==
  /\ mutex = None /\ mutex' = r /\ disk' = disk
  /\ job[r].slot = None /\ job'[r].slot = None /\ job'[r].outcome = "none"

\* the holder goes on, or chooses a free name for the original,
Looks(r) ==
  /\ mutex = r /\ mutex' = r /\ disk' = disk /\ job'[r].outcome = "none"
  /\ \/ job'[r].slot = job[r].slot
     \/ /\ job[r].slot = None /\ job'[r].slot \in NamesOf[r]
        /\ disk[job'[r].slot] = NoFile /\ Original[r] \in Path

\* writes or removes the replacement,
Puts(r, f) ==
  /\ mutex = r /\ mutex' = r /\ disk' = [disk EXCEPT ![Replacement[r]] = f]
  /\ job'[r].slot = job[r].slot /\ job'[r].outcome = "none"

\* or moves the original or the rollback file, or moves them back;
Carries(p, q) ==
  /\ \A x \in Place \ {p, q} : disk'[x] = disk[x]
  /\ disk'[p] \in {disk[p], NoFile}
  /\ disk'[q] = disk[q] \/ disk'[q] = disk[p] \/ ~disk'[q].whole

Moves(r) ==
  /\ mutex = r /\ mutex' = r
  /\ job'[r].slot = job[r].slot /\ job'[r].outcome = "none"
  /\ \/ /\ job[r].slot \in NamesOf[r] /\ Original[r] \in Path
        /\ Carries(Original[r], job[r].slot) \/ Carries(job[r].slot, Original[r])
     \/ Carries(Replacement[r], r) \/ Carries(r, Replacement[r])

\* in the end the rollback file is deleted,
Replaces(r) ==
  /\ mutex = r /\ mutex' = None /\ disk' = [disk EXCEPT ![r] = NoFile]
  /\ job'[r].slot = job[r].slot /\ job'[r].outcome = "replaced"

\* or the job has failed.
Leaves(r) ==
  /\ mutex = r /\ mutex' = None /\ disk' = disk /\ job[r].pc = "leave"
  /\ job'[r].slot = job[r].slot /\ job'[r].outcome = "failed"
  /\ job'[r].broken = job[r].broken

\* Nothing else.
RedoShape(r) ==
  /\ job' \in [Job -> Jobs] /\ disk' \in [Place -> Files] /\ Others(r)
  /\ job[r].outcome = "none" /\ job'[r].pc # "idle" /\ RedoCourse(r)'
  /\ \/ Waits(r) \/ Locks(r) \/ Looks(r) \/ Moves(r) \/ Replaces(r) \/ Leaves(r)
     \/ \E f \in {NoFile, File(r, FALSE), File(r, TRUE)} : Puts(r, f)

\* Only the holder of the mutex is in the transaction.
LEMMA InsideOf ==
  ASSUME NEW r \in Redo, RedoCourse(r), job[r].pc \in HolderPc
  PROVE  mutex = r /\ Inside(r)
  BY DEF RedoCourse, Outside, OutsidePc, HolderPc, WritingPc, MovingPc

\* Before the mutex is taken, and when it is.
LEMMA ShapeEnters ==
  ASSUME Typed, NEW r \in Redo, RedoCourse(r),
         StartRedo(r) \/ RedoFails(r) \/ RedoStaged(r) \/ Lock(r)
  PROVE  RedoShape(r)
<1> USE RedoPlaces
<1>1. /\ job[r].pc \in {"idle", "working", "waiting"} /\ mutex # r
      /\ Outside(r) /\ job[r].outcome = "none" /\ job[r].slot = None
      /\ UNCHANGED <<disk, cancelled>>
  BY DEF StartRedo, RedoFails, RedoStaged, Lock, RedoCourse, Inside, HolderPc,
         WritingPc, MovingPc, Outside
<1>2. CASE Lock(r)
  <2>1. GoTo(r, "locked") /\ mutex = None /\ mutex' = r
    BY <1>2 DEF Lock
  <2>2. /\ job'[r].pc = "locked" /\ job'[r].outcome = "none"
        /\ Kept(r) /\ Others(r) /\ job' \in [Job -> Jobs]
    BY <1>1, <2>1, GoToFields DEF HolderPc
  <2>3. RedoCourse(r)' /\ Locks(r)
    BY <1>1, <2>1, <2>2 DEF RedoCourse, Inside, HolderPc, Outside, Kept, Locks
  <2> QED
    BY <1>1, <2>2, <2>3 DEF RedoShape, Typed
<1>3. CASE StartRedo(r) \/ RedoFails(r) \/ RedoStaged(r)
  <2>1. /\ mutex' = mutex
        /\ GoTo(r, "working") \/ EndAs(r, "failed") \/ GoTo(r, "waiting")
    BY <1>3 DEF StartRedo, RedoFails, RedoStaged
  <2>2. /\ job'[r].pc \in OutsidePc \ {"idle"} /\ Kept(r) /\ Others(r)
        /\ job' \in [Job -> Jobs]
        /\ job'[r].outcome = IF job'[r].pc = "done" THEN "failed" ELSE "none"
    BY <1>1, <2>1, GoToFields, EndAsFields DEF OutsidePc
  <2>3. RedoCourse(r)' /\ Waits(r)
    BY <1>1, <2>1, <2>2 DEF RedoCourse, Outside, Kept, Waits
  <2> QED
    BY <1>1, <2>2, <2>3 DEF RedoShape, Typed
<1> QED
  BY <1>2, <1>3

\* An examination, and the choice of a name.
LEMMA ShapeLooks ==
  ASSUME Typed, NEW r \in Redo, RedoCourse(r),
         Examine(r) \/ ExamineRefuses(r) \/ ChooseSlot(r)
  PROVE  RedoShape(r)
<1> USE RedoPlaces
<1>1. /\ job[r].pc \in {"locked", "choose"} /\ mutex = r /\ mutex' = r /\ Inside(r)
      /\ ~job[r].copying /\ job[r].outcome = "none" /\ job[r].slot = None
      /\ disk' = disk
  BY InsideOf DEF Examine, ExamineRefuses, ChooseSlot, HolderPc, Inside, MovingPc
<1>2. CASE Examine(r) \/ ExamineRefuses(r)
  <2> DEFINE found == <<FileAt(Original[r]), disk[Replacement[r]]>>
             existed == disk[Replacement[r]] # NoFile
  <2>1. found \in Files \X Files
    BY FileTypes DEF FileAt, Typed
  <2>2. PICK place \in {"choose", "preserve", "staged", "leave"}, e \in BOOLEAN :
          /\ Finds(r, place, e, found) \/ (GivesUp(r, found) /\ place = "leave")
          /\ place = "choose" => Original[r] \in Path
    <3>1. CASE Examine(r)
      <4>1. Finds(r, IF NeedsBackup(r) THEN "choose" ELSE AfterBackup(r, existed),
                  existed, found)
        BY <3>1 DEF Examine, Finds
      <4>2. /\ AfterBackup(r, existed) \in {"preserve", "staged"}
            /\ NeedsBackup(r) => Original[r] \in Path
        BY DEF AfterBackup, NeedsBackup
      <4> HIDE DEF found, existed
      <4> QED
        BY <4>1, <4>2 DEF existed
    <3>2. CASE ExamineRefuses(r)
      <4>1. GivesUp(r, found)
        BY <3>2 DEF ExamineRefuses, GivesUp
      <4> HIDE DEF found
      <4> QED
        BY <4>1
    <3> QED
      BY <1>2, <3>1, <3>2
  <2> HIDE DEF found, existed
  <2>3. place \in HolderPc
    BY DEF HolderPc, WritingPc, MovingPc
  <2>4. /\ job' \in [Job -> Jobs] /\ Others(r) /\ job'[r].pc = place
        /\ job'[r].slot = job[r].slot /\ job'[r].outcome = job[r].outcome
        /\ job'[r].copying = job[r].copying
    BY <2>1, <2>2, <2>3, FindFields
  <2>5. RedoCourse(r)' /\ Looks(r) /\ job'[r].pc # "idle"
    BY <1>1, <2>2, <2>3, <2>4 DEF RedoCourse, Inside, Looks
  <2> QED
    BY <1>1, <2>4, <2>5 DEF RedoShape, Typed
<1>3. CASE ChooseSlot(r)
  <2>1. job[r].pc = "choose" /\ Original[r] \in Path
    BY <1>1, <1>3 DEF ChooseSlot, Inside
  <2>2. PICK k \in Slot : k \in NamesOf[r] /\ disk[k] = NoFile /\ Chooses(r, "backup", k)
    BY <1>3, FreeName DEF ChooseSlot, Chooses
  <2>3. "backup" \in HolderPc
    BY DEF HolderPc, MovingPc
  <2>4. /\ job' \in [Job -> Jobs] /\ Others(r)
        /\ job'[r].pc = "backup" /\ job'[r].slot = k
        /\ job'[r].outcome = job[r].outcome /\ job'[r].copying = job[r].copying
    BY <2>2, <2>3, SlotFields
  <2>5. RedoCourse(r)' /\ Looks(r)
    BY <1>1, <2>1, <2>2, <2>3, <2>4 DEF RedoCourse, Inside, Looks
  <2> QED
    BY <1>1, <2>4, <2>5 DEF RedoShape, Typed
<1> QED
  BY <1>2, <1>3

\* The job publishes, removes what it published, or begins to roll back.
LEMMA ShapePuts ==
  ASSUME Typed, NEW r \in Redo, RedoCourse(r),
         \/ PublishRefused(r) \/ PublishRename(r) \/ PublishOpen(r)
         \/ PublishCopied(r) \/ Withdraw(r) \/ PublishReturns(r) \/ RedoRollsBack(r)
         \/ RemoveReplacement(r)
  PROVE  RedoShape(r)
<1> USE RedoPlaces
<1> DEFINE d == Replacement[r]
           rollback == {"restoreDestination", "removeReplacement",
                        "restoreOriginal", "leave"}
           next == {"placed", "copying", "copied", "published"} \cup rollback
<1>1. job[r].pc \in WritingPc \cup {"removeReplacement"} /\ mutex' = mutex
  BY DEF PublishRefused, PublishRename, PublishOpen, PublishCopied, Withdraw,
    PublishReturns, RedoRollsBack, RemoveReplacement, WritingPc
<1>2. mutex = r /\ Inside(r) /\ ~job[r].copying /\ job[r].outcome = "none"
  BY <1>1, InsideOf DEF HolderPc, Inside, WritingPc, MovingPc
<1>3. ASSUME NEW a, PublishFailed(r, a)
      PROVE  \E place \in rollback :
               GoTo(r, place) /\ (place = "restoreOriginal" => job[r].slot # None)
  BY <1>3 DEF PublishFailed, AfterRollbackFile
<1>4. PICK place \in next :
        /\ GoTo(r, place) \/ Breaks(r, place)
        /\ place = "restoreOriginal" => job[r].slot # None
        /\ \/ disk' = disk
           \/ \E f \in {NoFile, File(r, FALSE), File(r, TRUE)} :
                disk' = [disk EXCEPT ![d] = f]
  <2>1. CASE PublishRefused(r) \/ Withdraw(r) \/ RedoRollsBack(r)
    <3>1. PICK a \in BOOLEAN : PublishFailed(r, a)
      BY <2>1 DEF PublishRefused, Withdraw, RedoRollsBack
    <3>2. disk' = disk \/ disk' = [disk EXCEPT ![d] = NoFile]
      BY <2>1 DEF PublishRefused, Withdraw, RedoRollsBack
    <3> QED
      BY <1>3, <3>1, <3>2
  <2>2. CASE PublishRename(r) \/ PublishOpen(r) \/ PublishCopied(r) \/ PublishReturns(r)
    BY <2>2 DEF PublishRename, PublishOpen, PublishCopied, PublishReturns
  <2>3. CASE RemoveReplacement(r)
    <3>1. /\ GoTo(r, AfterRollbackFile(r)) \/ Breaks(r, AfterRollbackFile(r))
          /\ disk' = disk \/ disk' = [disk EXCEPT ![d] = NoFile]
      BY <2>3 DEF RemoveReplacement, Breaks
    <3>2. /\ AfterRollbackFile(r) \in next
          /\ AfterRollbackFile(r) = "restoreOriginal" => job[r].slot # None
      BY DEF AfterRollbackFile
    <3> HIDE DEF next
    <3> QED
      BY <3>1, <3>2
  <2> QED
    BY <2>1, <2>2, <2>3
<1>5. place \in HolderPc /\ place \notin {"idle", "choose", "locked", "backup"}
  BY DEF HolderPc, WritingPc, MovingPc
<1> HIDE DEF next
<1>6. /\ job' \in [Job -> Jobs] /\ Others(r) /\ job'[r].pc = place
      /\ job'[r].slot = job[r].slot /\ ~job'[r].copying /\ job'[r].outcome = "none"
  <2>1. CASE GoTo(r, place)
    BY <1>2, <1>5, <2>1, GoToFields DEF Kept
  <2>2. CASE Breaks(r, place)
    BY <1>2, <1>5, <2>2, BrokenFields
  <2> QED
    BY <1>4, <2>1, <2>2
<1>7. RedoCourse(r)'
  BY <1>1, <1>2, <1>4, <1>5, <1>6 DEF RedoCourse, Inside
<1>8. CASE disk' = disk
  <2>1. Looks(r)
    BY <1>1, <1>2, <1>6, <1>8 DEF Looks
  <2> QED
    BY <1>2, <1>5, <1>6, <1>7, <1>8, <2>1 DEF RedoShape, Typed
<1>9. CASE \E f \in {NoFile, File(r, FALSE), File(r, TRUE)} : disk' = [disk EXCEPT ![d] = f]
  <2>1. PICK f \in {NoFile, File(r, FALSE), File(r, TRUE)} : disk' = [disk EXCEPT ![d] = f]
    BY <1>9
  <2>2. f \in Files
    <3>1. NoFile \in Files /\ File(r, FALSE) \in Files /\ File(r, TRUE) \in Files
      BY FileTypes
    <3> QED
      BY <3>1
  <2>3. disk' \in [Place -> Files]
    BY <2>1, <2>2, DiskTypes
  <2>4. Puts(r, f)
    BY <1>1, <1>2, <1>6, <2>1 DEF Puts
  <2> QED
    BY <1>2, <1>5, <1>6, <1>7, <2>3, <2>4 DEF RedoShape
<1> QED
  BY <1>4, <1>8, <1>9

\* The original or the rollback file is moved.
LEMMA ShapeMoves ==
  ASSUME Typed, NEW r \in Redo, RedoCourse(r), MoveStep(r)
  PROVE  RedoShape(r)
<1> USE RedoPlaces
<1> DEFINE p == From(r)
           q == To(r)
           s == job[r].slot
<1>1. job[r].pc \in MovingPc /\ mutex = r /\ Inside(r) /\ job[r].outcome = "none"
  <2>1. job[r].pc \in MovingPc \cup {"quarantine"}
    BY DEF MoveStep, MoveRename, MoveOpen, MoveCopied, MoveFails, Moving, MovingPc
  <2>2. job[r].pc \in MovingPc
    BY <2>1 DEF RedoCourse, Inside, Outside, OutsidePc, HolderPc, WritingPc, MovingPc
  <2> QED
    BY <2>2, InsideOf DEF HolderPc, Inside
<1>2. /\ p \in Place /\ q \in Place \ {p} /\ job[r].pc = "preserve" => q = r
      /\ \/ /\ s \in NamesOf[r] /\ Original[r] \in Path
            /\ \/ p = Original[r] /\ q = s
               \/ p = s /\ q = Original[r]
         \/ p = Replacement[r] /\ q = r
         \/ p = r /\ q = Replacement[r]
  BY <1>1 DEF From, To, MovingPc, Inside
<1> HIDE DEF p, q
<1>3. /\ Arrives(r, p, q) \/ Opens(r, p, q) \/ Stops(r, p, q)
      /\ disk' \in [Place -> Files] /\ mutex' = mutex
  BY <1>2, MoveOutcomes DEF p, q
<1>4. Carries(p, q)
  <2>1. disk \in [Place -> Files] /\ disk[p] \in Files /\ ~NoFile.whole /\ ~Half(disk[p]).whole
    BY <1>2, FileTypes DEF Typed
  <2>2. CASE Arrives(r, p, q)
    BY <1>2, <2>2 DEF Carries, Arrives
  <2>3. CASE Opens(r, p, q)
    BY <1>2, <2>1, <2>3 DEF Carries, Opens
  <2>4. CASE Stops(r, p, q)
    BY <1>2, <2>1, <2>4 DEF Carries, Stops
  <2> QED
    BY <1>3, <2>2, <2>3, <2>4
<1>5. /\ job' \in [Job -> Jobs] /\ Others(r) /\ job'[r].slot = s
      /\ job'[r].outcome = "none" /\ job'[r].pc \in HolderPc \ {"choose", "locked"}
      /\ job'[r].copying => job'[r].pc \in MovingPc
      /\ job'[r].pc \in {"backup", "restoreOriginal"} => s # None
  <2>1. CASE Opens(r, p, q)
    <3>1. /\ job' \in [Job -> Jobs] /\ Others(r) /\ job'[r].slot = s
          /\ job'[r].outcome = job[r].outcome /\ job'[r].pc = job[r].pc
      BY <2>1, CopyFields DEF Opens
    <3> QED
      BY <1>1, <3>1 DEF HolderPc, MovingPc, Inside
  <2>2. CASE Arrives(r, p, q) \/ Stops(r, p, q)
    <3>1. PICK ok \in BOOLEAN : Moved(r, ok)
      BY <2>2 DEF Arrives, Stops
    <3>2. /\ job' \in [Job -> Jobs] /\ Others(r) /\ job'[r].slot = s
          /\ job'[r].outcome = job[r].outcome /\ ~job'[r].copying
          /\ \/ job'[r].pc \in {"leave", "staged"}
             \/ job'[r].pc = AfterBackup(r, job[r].existed)
             \/ job'[r].pc = AfterRollbackFile(r)
      BY <1>1, <3>1, MovedFields DEF MovingPc
    <3> QED
      BY <1>1, <3>2 DEF AfterBackup, AfterRollbackFile, HolderPc, WritingPc, MovingPc
  <2> QED
    BY <1>3, <2>1, <2>2
<1>6. RedoCourse(r)'
  BY <1>1, <1>3, <1>5 DEF RedoCourse, Inside
<1>7. Moves(r)
  BY <1>1, <1>2, <1>3, <1>4, <1>5 DEF Moves
<1> QED
  BY <1>1, <1>3, <1>5, <1>6, <1>7 DEF RedoShape, HolderPc, WritingPc, MovingPc

\* The job is done, or has failed.
LEMMA ShapeEnds ==
  ASSUME Typed, NEW r \in Redo, RedoCourse(r), RedoCompletes(r) \/ RedoLeaves(r)
  PROVE  RedoShape(r)
<1> USE RedoPlaces
<1>1. /\ job[r].pc \in {"published", "leave"} /\ mutex = r /\ mutex' = None
      /\ Inside(r) /\ ~job[r].copying /\ job[r].outcome = "none"
  BY InsideOf DEF RedoCompletes, RedoLeaves, HolderPc, WritingPc, MovingPc, Inside
<1>2. CASE RedoCompletes(r)
  <2>1. EndAs(r, "replaced") /\ disk' = [disk EXCEPT ![r] = NoFile]
    BY <1>2 DEF RedoCompletes
  <2>2. /\ job'[r].pc = "done" /\ job'[r].outcome = "replaced" /\ Kept(r) /\ Others(r)
        /\ job' \in [Job -> Jobs] /\ disk' \in [Place -> Files]
    BY <2>1, EndAsFields, DiskTypes, FileTypes
  <2>3. RedoCourse(r)' /\ Replaces(r)
    BY <1>1, <2>1, <2>2 DEF RedoCourse, Outside, OutsidePc, Kept, Replaces
  <2> QED
    BY <1>1, <2>2, <2>3 DEF RedoShape
<1>3. CASE RedoLeaves(r)
  <2>1. EndAs(r, "failed") /\ disk' = disk /\ job[r].pc = "leave"
    BY <1>3 DEF RedoLeaves
  <2>2. /\ job'[r].pc = "done" /\ job'[r].outcome = "failed" /\ Kept(r) /\ Others(r)
        /\ job' \in [Job -> Jobs]
    BY <2>1, EndAsFields
  <2>3. RedoCourse(r)' /\ Leaves(r)
    BY <1>1, <2>1, <2>2 DEF RedoCourse, Outside, OutsidePc, Kept, Leaves
  <2> QED
    BY <1>1, <2>1, <2>2, <2>3 DEF RedoShape, Typed
<1> QED
  BY <1>2, <1>3

\* Every step of a YouTube job has one of the shapes.
LEMMA RedoShapes ==
  ASSUME Typed, NEW r \in Redo, RedoCourse(r), RedoStep(r) \/ FileStep(r)
  PROVE  RedoShape(r)
  BY ShapeEnters, ShapeLooks, ShapePuts, ShapeMoves, ShapeEnds
  DEF RedoStep, FileStep, MoveStep

-----------------------------------------------------------------------------
(* The invariant of the whole.                                             *)

\* A job that has begun does not begin again, what is noted of it stays, and
\* so does what is noted of the places.
Grows ==
  /\ crowded \subseteq crowded'
  /\ \A j \in Job : /\ job[j].pc # "idle" => job'[j].pc # "idle"
                    /\ job[j].outcome # "none" => job'[j].outcome = job[j].outcome
  /\ \A r \in Redo : job[r].slot # None => job'[r].slot = job[r].slot

\* The mutex of the YouTube jobs other than r.
OthersWait(r) ==
  \A other \in Redo \ {r} : /\ mutex' = other <=> mutex = other
                            /\ mutex = other => disk' = disk

\* Who makes a step: nobody, a track or a YouTube job.
NobodySteps == UNCHANGED <<disk, job, mutex>>
TrackSteps(t) == TrackShape(t) /\ Local(t)
RedoSteps(r) ==
  /\ RedoShape(r) /\ Local(r) /\ OthersWait(r)
  /\ RedoInv(r) => RedoInv(r)' /\ (KeepsOriginals \/ RedoCompletes(r))

\* A track changes only the places it is busy at.
LEMMA TrackLocal ==
  ASSUME Typed, NEW t \in Track, TrackCourse(t), TrackShape(t)
  PROVE  Local(t)
<1> USE TrackPlaces
<1>1. ASSUME NEW p \in Place, disk'[p] # disk[p]
      PROVE  p \in Busy(t)
  <2>1. CASE \E f \in {NoFile, File(t, FALSE), File(t, TRUE)} : Writes(t, f)
    <3>1. Active(t)
      BY <2>1 DEF Writes, Active
    <3>2. p = PathOf[t]
      BY <1>1, <2>1 DEF Writes, Typed
    <3> QED
      BY <3>1, <3>2
  <2>2. CASE Quarantines(t)
    <3>1. Active(t) /\ job[t].slot \in NamesOf[t]
      BY <2>2 DEF Quarantines, Active, TrackCourse
    <3>2. p \in {PathOf[t], job[t].slot}
      BY <1>1, <2>2 DEF Quarantines, Arrives, Opens, Stops
    <3> QED
      BY <3>1, <3>2
  <2> QED
    BY <1>1, <2>1, <2>2 DEF TrackShape, Begins, FindsFile, GoesOn, Fails, Completes, Names
<1> QED
  BY <1>1 DEF Local, TrackShape

\* A YouTube job changes only the places it is busy at and its rollback file,
\* and nothing while another holds the mutex.
LEMMA RedoLocal ==
  ASSUME Typed, NEW r \in Redo, RedoCourse(r), RedoShape(r)
  PROVE  Local(r) /\ OthersWait(r)
<1> USE RedoPlaces
<1>1. ASSUME NEW p \in Place, disk'[p] # disk[p]
      PROVE  p \in Busy(r) \cup {r}
  <2>1. CASE \E f \in {NoFile, File(r, FALSE), File(r, TRUE)} : Puts(r, f)
    BY <1>1, <2>1 DEF Puts, Typed
  <2>2. CASE Moves(r)
    <3>1. mutex = r /\ p \in {Original[r], Replacement[r], job[r].slot, r}
      BY <1>1, <2>2 DEF Moves, Carries
    <3> QED
      BY <3>1
  <2>3. CASE Replaces(r)
    BY <1>1, <2>3 DEF Replaces, Typed
  <2> QED
    BY <1>1, <2>1, <2>2, <2>3 DEF RedoShape, Waits, Locks, Looks, Leaves
<1>2. OthersWait(r)
  <2> SUFFICES ASSUME NEW other \in Redo \ {r}
               PROVE  (mutex' = other <=> mutex = other) /\ (mutex = other => disk' = disk)
    BY DEF OthersWait
  <2>1. other # None
    OBVIOUS
  <2> QED
    BY <2>1 DEF RedoShape, Waits, Locks, Looks, Puts, Moves, Replaces, Leaves
<1> QED
  BY <1>1, <1>2 DEF Local, RedoShape

\* Every step is that of nobody, a track or a YouTube job.
LEMMA Steps ==
  ASSUME PublicationInv, [Next]_vars
  PROVE  \/ NobodySteps
         \/ \E t \in Track : TrackSteps(t)
         \/ \E r \in Redo : RedoSteps(r)
<1>1. Typed /\ Courses
  BY DEF PublicationInv
<1>2. ASSUME NEW t \in Track, TrackStep(t) \/ FileStep(t)
      PROVE  TrackSteps(t)
  BY <1>1, <1>2, TrackShapes, TrackLocal DEF Courses, TrackSteps
<1>3. ASSUME NEW r \in Redo, RedoStep(r) \/ FileStep(r)
      PROVE  RedoSteps(r)
  <2>1. RedoShape(r) /\ Local(r) /\ OthersWait(r)
    BY <1>1, <1>3, RedoShapes, RedoLocal DEF Courses
  <2>2. RedoInv(r) => RedoInv(r)' /\ (KeepsOriginals \/ RedoCompletes(r))
    BY <1>1, <1>3, RedoOwn
  <2> QED
    BY <2>1, <2>2 DEF RedoSteps
<1>4. CASE UNCHANGED vars
  BY <1>4 DEF vars, NobodySteps
<1>5. CASE JobStep
  BY <1>2, <1>3, <1>5 DEF JobStep, Job, Cancel, NobodySteps
<1> QED
  BY <1>4, <1>5 DEF Next

\* What is noted stays.
LEMMA StepsGrow ==
  ASSUME PublicationInv, [Next]_vars
  PROVE  Grows
<1>1. Typed /\ Courses
  BY DEF PublicationInv
<1>2. crowded \subseteq crowded'
  BY DEF Next, Meet, vars
<1>3. CASE NobodySteps
  BY <1>2, <1>3 DEF Grows, NobodySteps
<1>4. CASE \E t \in Track : TrackSteps(t)
  <2> PICK t \in Track : TrackSteps(t)
    BY <1>4
  <2>1. /\ job'[t].pc # "idle" /\ job[t].pc # "done" /\ job[t].outcome = "none"
    BY <1>1 DEF TrackSteps, TrackShape, Begins, FindsFile, GoesOn, Fails, Completes,
       Writes, Names, Quarantines, Courses, TrackCourse
  <2>2. \A j \in Job \ {t} : job'[j] = job[j]
    BY DEF TrackSteps, Local, Others
  <2>3. \A r \in Redo : r \in Job \ {t}
    BY Kinds
  <2> QED
    BY <1>2, <2>1, <2>2, <2>3 DEF Grows
<1>5. CASE \E r \in Redo : RedoSteps(r)
  <2> PICK r \in Redo : RedoSteps(r)
    BY <1>5
  <2>1. /\ job'[r].pc # "idle" /\ job[r].outcome = "none"
        /\ job[r].slot # None => job'[r].slot = job[r].slot
    BY DEF RedoSteps, RedoShape, Waits, Locks, Looks, Puts, Moves, Replaces, Leaves
  <2>2. \A j \in Job \ {r} : job'[j] = job[j]
    BY DEF RedoSteps, Local, Others
  <2> QED
    BY <1>2, <2>1, <2>2 DEF Grows, Job
<1> QED
  BY <1>3, <1>4, <1>5, Steps

\* What a YouTube job suffered, what was spoiled and what was given up, stays
\* so.
LEMMA GrowsKeeps ==
  ASSUME Typed, Grows
  PROVE  /\ \A r \in Redo : Disturbed(r) => Disturbed(r)'
         /\ \A p : Spoiled(p) => Spoiled(p)'
         /\ \A o : GivenUp(o) => GivenUp(o)'
<1>1. ASSUME NEW r \in Redo, Disturbed(r) PROVE Disturbed(r)'
  <2>1. PICK p \in {Original[r], Replacement[r], job[r].slot} : p \in crowded
    BY <1>1 DEF Disturbed
  <2>2. p # None
    BY <2>1, Kinds DEF Typed
  <2>3. p \in {Original[r], Replacement[r], job'[r].slot} /\ p \in crowded'
    BY <2>1, <2>2 DEF Grows
  <2> QED
    BY <2>3 DEF Disturbed
<1>2. ASSUME NEW p, Spoiled(p) PROVE Spoiled(p)'
  BY <1>2 DEF Spoiled, Redone, Grows, Job
<1>3. ASSUME NEW o, GivenUp(o) PROVE GivenUp(o)'
  <2>1. CASE \E t \in Forced : PathOf[t] = o /\ job[t].pc # "idle"
    BY <2>1, ForcedAssumption DEF GivenUp, Grows, Job
  <2>2. CASE \E r \in Redo : o \in {Original[r], Replacement[r]} /\ Disturbed(r)
    BY <1>1, <2>2 DEF GivenUp
  <2>3. CASE \E r \in Redo : /\ job[r].outcome = "replaced"
                             /\ Replacement[r] = o /\ Original[r] # o
    BY <2>3 DEF GivenUp, Grows, Job
  <2> QED
    BY <1>3, <2>1, <2>2, <2>3 DEF GivenUp
<1> QED
  BY <1>1, <1>2, <1>3

\* Nobody cancels what is no job.
LEMMA CancelledJobs ==
  ASSUME cancelled \subseteq Job, [Next]_vars
  PROVE  cancelled' \subseteq Job
<1>1. CASE UNCHANGED vars
  BY <1>1 DEF vars
<1>2. CASE \E t \in Track : TrackStep(t)
  BY <1>2 DEF TrackStep, FindExisting, StartTrack, TrackFails, TrackStaged,
     TrackRecheck, TrackCompletes, TrackSuspicious
<1>3. CASE \E r \in Redo : RedoStep(r)
  BY <1>3 DEF RedoStep, StartRedo, RedoFails, RedoStaged, Lock, Examine, ExamineRefuses,
     ChooseSlot, RedoCompletes, RedoRollsBack, RemoveReplacement, RedoLeaves
<1>4. CASE \E j \in Job : FileStep(j)
  BY <1>4 DEF FileStep, PublishRefused, PublishRename, PublishOpen, PublishCopied,
     Withdraw, PublishReturns, MoveRename, MoveOpen, MoveCopied, MoveFails
<1>5. CASE \E j \in Job : Cancel(j)
  BY <1>5 DEF Cancel
<1> QED
  BY <1>1, <1>2, <1>3, <1>4, <1>5 DEF Next, JobStep

\* A track is noted where it works with another job, or looks for its file
\* while another job works there.
LEMMA Noted ==
  ASSUME [Next]_vars, Met, NEW t \in Track, NEW j \in Job \ {t}, NEW p \in Path \cup Slot,
         (p \in Busy(j))', (p \in Busy(t))' \/ (p = PathOf[t] /\ job'[t] # job[t])
  PROVE  p \in crowded'
<1>1. CASE Meet
  BY <1>1 DEF Meet
<1>2. CASE UNCHANGED vars
  BY <1>2 DEF vars, Met, Busy
<1> QED
  BY <1>1, <1>2 DEF Next

\* What a job other than that of the step is busy at.
LEMMA BusyStays ==
  /\ NobodySteps => \A j \in Job : Busy(j)' = Busy(j)
  /\ \A t \in Track : TrackSteps(t) => \A j \in Job \ {t} : Busy(j)' = Busy(j)
  /\ \A r \in Redo : RedoSteps(r) => \A j \in Job \ {r} : Busy(j)' = Busy(j)
<1>1. NobodySteps => \A j \in Job : Busy(j)' = Busy(j)
  BY DEF NobodySteps, Busy
<1>2. ASSUME NEW t \in Track, TrackSteps(t), NEW j \in Job \ {t}
      PROVE  Busy(j)' = Busy(j)
  BY <1>2 DEF TrackSteps, TrackShape, Local, Others, Busy
<1>3. ASSUME NEW r \in Redo, RedoSteps(r), NEW j \in Job \ {r}
      PROVE  Busy(j)' = Busy(j)
  <2>1. job'[j] = job[j]
    BY <1>3 DEF RedoSteps, Local, Others
  <2>2. j \in Redo => (mutex' = j <=> mutex = j)
    BY <1>3 DEF RedoSteps, OthersWait
  <2> QED
    BY <2>1, <2>2 DEF Busy, Job
<1> QED
  BY <1>1, <1>2, <1>3

\* The types, and the places of the jobs in the code.
LEMMA CoursesNext ==
  ASSUME PublicationInv, [Next]_vars
  PROVE  Typed' /\ Courses' /\ Met'
<1>1. Typed /\ Courses /\ Met
  BY DEF PublicationInv
<1>2. cancelled' \subseteq Job /\ crowded' \subseteq Path \cup Slot
  BY <1>1, CancelledJobs DEF Typed, Next, Meet, vars
<1>3. Met'
  <2> SUFFICES ASSUME NEW t \in Track, NEW j \in Job \ {t}, NEW p \in Path \cup Slot,
                      (p \in Busy(t))', (p \in Busy(j))'
               PROVE  p \in crowded'
    BY DEF Met
  <2> QED
    BY <1>1, Noted
<1>4. CASE NobodySteps
  BY <1>1, <1>2, <1>3, <1>4
  DEF NobodySteps, Typed, Courses, TrackCourse, RedoCourse, Inside, Outside
<1>5. CASE \E t \in Track : TrackSteps(t)
  <2> PICK t \in Track : TrackSteps(t)
    BY <1>5
  <2>1. Typed'
    BY <1>1, <1>2 DEF TrackSteps, TrackShape, Typed
  <2>2. \A u \in Track : TrackCourse(u)'
    BY <1>1 DEF TrackSteps, TrackShape, Local, Others, Courses, TrackCourse, Job
  <2>3. ASSUME NEW r \in Redo PROVE RedoCourse(r)'
    <3>1. job'[r] = job[r] /\ mutex' = mutex
      BY Kinds DEF TrackSteps, TrackShape, Local, Others
    <3>2. r \in Place \ (Busy(t) \cup {t})
      BY <1>1, Kinds DEF Busy, Courses, TrackCourse, Typed, Jobs
    <3>3. disk'[r] = disk[r]
      BY <3>2 DEF TrackSteps, Local
    <3> QED
      BY <1>1, <3>1, <3>3 DEF Courses, RedoCourse, Inside, Outside
  <2> QED
    BY <1>3, <2>1, <2>2, <2>3 DEF Courses
<1>6. CASE \E r \in Redo : RedoSteps(r)
  <2> PICK r \in Redo : RedoSteps(r)
    BY <1>6
  <2>1. Typed'
    <3>1. mutex' \in Redo \cup {None}
      BY <1>1 DEF RedoSteps, RedoShape, Waits, Locks, Looks, Puts, Moves, Replaces,
         Leaves, Typed
    <3> QED
      BY <1>1, <1>2, <3>1 DEF RedoSteps, RedoShape, Typed
  <2>2. \A j \in Job \ {r} : job'[j] = job[j]
    BY DEF RedoSteps, Local, Others
  <2>3. ASSUME NEW t \in Track PROVE TrackCourse(t)'
    BY <1>1, <2>2, Kinds DEF Courses, TrackCourse
  <2>4. ASSUME NEW other \in Redo \ {r} PROVE RedoCourse(other)'
    <3>1. job'[other] = job[other] /\ (mutex' = other <=> mutex = other)
      BY <2>2, Kinds DEF RedoSteps, OthersWait
    <3>2. other \in Place \ (Busy(r) \cup {r})
      BY <1>1, Kinds DEF Busy, Typed, Jobs
    <3>3. disk'[other] = disk[other]
      BY <3>2 DEF RedoSteps, Local
    <3> QED
      BY <1>1, <3>1, <3>3 DEF Courses, RedoCourse, Inside, Outside
  <2>5. RedoCourse(r)'
    BY DEF RedoSteps, RedoShape
  <2> QED
    BY <1>3, <2>1, <2>3, <2>4, <2>5 DEF Courses
<1> QED
  BY <1>4, <1>5, <1>6, Steps

\* What no track disturbs stays where its job expects it.
LEMMA UndisturbedNext ==
  ASSUME PublicationInv, [Next]_vars
  PROVE  Undisturbed'
<1>1. Typed /\ Courses /\ Met /\ Undisturbed
  BY DEF PublicationInv
<1>2. \A r \in Redo : Disturbed(r) => Disturbed(r)'
  BY <1>1, StepsGrow, GrowsKeeps
<1> SUFFICES ASSUME NEW r \in Redo, ~Disturbed(r), RedoInv(r)
             PROVE  Disturbed(r)' \/ RedoInv(r)'
  BY <1>1, <1>2 DEF Undisturbed
<1>3. ASSUME NEW p \in Reach(r) \ {None} PROVE p \in Path \cup Slot
  BY <1>1, RedoPlaces DEF Typed, Jobs
<1>4. CASE NobodySteps
  BY <1>4, RedoFrame DEF NobodySteps
<1>5. CASE \E t \in Track : TrackSteps(t)
  <2> PICK t \in Track : TrackSteps(t)
    BY <1>5
  <2>1. job'[r] = job[r] /\ mutex' = mutex /\ r \in Job \ {t}
    BY Kinds DEF TrackSteps, TrackShape, Local, Others
  <2>2. r \in Place \ (Busy(t) \cup {t})
    BY <1>1, Kinds DEF Busy, Courses, TrackCourse, Typed, Jobs
  <2>3. disk'[r] = disk[r]
    BY <2>2 DEF TrackSteps, Local
  <2>4. ASSUME mutex = r, NEW p \in Reach(r) \ {None} PROVE disk'[p] = disk[p]
    <3>1. p \in Path \cup Slot /\ p \in Busy(r) /\ p \in Place /\ p # t
      BY <1>3, <2>4, RedoPlaces, Kinds
    <3>2. p \notin crowded
      BY <2>4, RedoPlaces DEF Disturbed
    <3>3. p \notin Busy(t)
      BY <1>1, <2>1, <3>1, <3>2 DEF Met
    <3> QED
      BY <3>1, <3>3 DEF TrackSteps, Local
  <2> QED
    BY <2>1, <2>3, <2>4, RedoFrame
<1>6. CASE \E j \in Redo : RedoSteps(j)
  <2> PICK j \in Redo : RedoSteps(j)
    BY <1>6
  <2>1. CASE j = r
    BY <2>1 DEF RedoSteps
  <2>2. CASE j # r
    <3>1. /\ job'[r] = job[r] /\ (mutex' = r <=> mutex = r)
          /\ mutex = r => disk' = disk
      BY <2>2, Kinds DEF RedoSteps, Local, Others, OthersWait
    <3>2. r \in Place \ (Busy(j) \cup {j})
      BY <1>1, <2>2, Kinds DEF Busy, Typed, Jobs
    <3>3. disk'[r] = disk[r]
      BY <3>2 DEF RedoSteps, Local
    <3> QED
      BY <3>1, <3>3, RedoFrame
  <2> QED
    BY <2>1, <2>2
<1> QED
  BY <1>4, <1>5, <1>6, Steps

\* A place in the music folder that a YouTube job is busy at is spoiled, and
\* one that a track is busy at is its path.
LEMMA BusyPaths ==
  ASSUME Typed, Courses, NEW p \in Path
  PROVE  /\ \A r \in Redo : p \in Busy(r) => Spoiled(p)
         /\ \A t \in Track : p \in Busy(t) <=> Active(t) /\ PathOf[t] = p
<1>1. ASSUME NEW r \in Redo, p \in Busy(r) PROVE Spoiled(p)
  <2>1. mutex = r /\ p \in {Original[r], Replacement[r]} /\ job[r].pc # "idle"
    BY <1>1, RedoPlaces, Kinds
    DEF Typed, Jobs, Courses, RedoCourse, Inside, HolderPc, WritingPc, MovingPc
  <2> QED
    BY <2>1 DEF Spoiled, Redone
<1>2. ASSUME NEW t \in Track PROVE p \in Busy(t) <=> Active(t) /\ PathOf[t] = p
  BY TrackPlaces, Kinds DEF Typed, Jobs
<1> QED
  BY <1>1, <1>2

\* What a track has published stays whole.
LEMMA PlacedNext ==
  ASSUME PublicationInv, [Next]_vars
  PROVE  PlacedFiles'
<1> DEFINE late == {"placed", "copied", "published", "quarantine"}
<1>1. Typed /\ Courses /\ Met /\ PlacedFiles /\ \A p : Spoiled(p) => Spoiled(p)'
  BY StepsGrow, GrowsKeeps DEF PublicationInv
<1> SUFFICES ASSUME NEW t \in Track, job'[t].pc \in late
             PROVE  Whole(PathOf[t])' \/ Spoiled(PathOf[t])'
  BY DEF PlacedFiles
<1> DEFINE p == PathOf[t]
<1>2. p \in Path /\ p \in Path \cup Slot /\ p \in Place /\ t \in Job
  BY TrackPlaces
<1>3. CASE disk'[p] = disk[p] /\ job[t].pc \in late
  BY <1>1, <1>3 DEF PlacedFiles, Whole
<1>4. CASE NobodySteps
  BY <1>3, <1>4 DEF NobodySteps
<1>5. CASE \E u \in Track : TrackSteps(u)
  <2> PICK u \in Track : TrackSteps(u)
    BY <1>5
  <2>1. CASE u = t
    <3>1. CASE \E f \in {NoFile, File(t, FALSE), File(t, TRUE)} : Writes(t, f)
      <4>1. disk' = [disk EXCEPT ![p] = File(t, TRUE)]
        BY <3>1 DEF Writes
      <4>2. disk'[p] = File(t, TRUE)
        BY <1>1, <1>2, <4>1 DEF Typed
      <4> QED
        BY <4>2, FileTypes, <1>2 DEF Whole
    <3>2. CASE GoesOn(t) \/ Names(t)
      BY <1>3, <3>2 DEF GoesOn, Names
    <3>3. CASE Quarantines(t)
      <4>1. job[t].slot \in Slot /\ job[t].slot # p
        BY <1>1, <3>3, TrackPlaces DEF Quarantines, Courses, TrackCourse
      <4> QED
        BY <1>2, <1>3, <3>3, <4>1 DEF Quarantines, Opens
    <3> QED
      BY <2>1, <3>1, <3>2, <3>3 DEF TrackSteps, TrackShape, Begins, FindsFile, Fails, Completes
  <2>2. CASE u # t
    <3>1. job'[t] = job[t] /\ Active(t) /\ u \in Job
      BY <2>2, TrackPlaces DEF TrackSteps, Local, Others, Active
    <3>2. CASE p \in Busy(u)
      BY <1>1, <1>2, <2>2, <3>1, <3>2, TrackPlaces DEF Met, Spoiled
    <3>3. CASE p \notin Busy(u)
      BY <1>2, <1>3, <3>1, <3>3, Kinds DEF TrackSteps, Local
    <3> QED
      BY <3>2, <3>3
  <2> QED
    BY <2>1, <2>2
<1>6. CASE \E r \in Redo : RedoSteps(r)
  <2> PICK r \in Redo : RedoSteps(r)
    BY <1>6
  <2>1. job'[t] = job[t]
    BY Kinds DEF RedoSteps, Local, Others
  <2>2. CASE p \in Busy(r)
    BY <1>1, <1>2, <2>2, BusyPaths
  <2>3. CASE p \notin Busy(r)
    BY <1>2, <1>3, <2>1, <2>3, Kinds DEF RedoSteps, Local
  <2> QED
    BY <2>2, <2>3
<1> QED
  BY <1>4, <1>5, <1>6, Steps

\* A half-written file in the music folder is one a track is copying.
LEMMA HalvesNext ==
  ASSUME PublicationInv, [Next]_vars, NEW p \in Path
  PROVE  \/ disk'[p] = NoFile \/ Whole(p)' \/ Spoiled(p)'
         \/ \E t \in Track : PathOf[t] = p /\ job'[t].pc = "copying"
<1>1. /\ Typed /\ Courses /\ (Spoiled(p) => Spoiled(p)') /\ p \in Place
      /\ \/ disk[p] = NoFile \/ Whole(p) \/ Spoiled(p)
         \/ \E t \in Track : PathOf[t] = p /\ job[t].pc = "copying"
  BY StepsGrow, GrowsKeeps, Kinds DEF PublicationInv, AnnouncedFilesAreWhole
<1>2. CASE NobodySteps
  BY <1>1, <1>2 DEF NobodySteps, Whole
<1>3. CASE \E t \in Track : TrackSteps(t)
  <2> PICK t \in Track : TrackSteps(t)
    BY <1>3
  <2>1. \A u \in Track \ {t} : job'[u] = job[u]
    BY DEF TrackSteps, Local, Others, Job
  <2>2. CASE disk'[p] = disk[p] /\ ~(PathOf[t] = p /\ job[t].pc = "copying")
    BY <1>1, <2>1, <2>2 DEF Whole
  <2>3. CASE disk'[p] # disk[p] \/ (PathOf[t] = p /\ job[t].pc = "copying")
    <3>1. PathOf[t] = p
      <4>1. disk'[p] # disk[p] => p \in Busy(t)
        BY <1>1, Kinds DEF TrackSteps, Local
      <4> QED
        BY <1>1, <2>3, <4>1, BusyPaths
    <3>2. CASE \E f \in {NoFile, File(t, FALSE), File(t, TRUE)} : Writes(t, f)
      <4> PICK f \in {NoFile, File(t, FALSE), File(t, TRUE)} : Writes(t, f)
        BY <3>2
      <4>1. disk'[p] = f
        BY <1>1, <3>1 DEF Writes, Typed
      <4>2. File(t, TRUE).whole
        BY FileTypes, Kinds
      <4> QED
        BY <3>1, <4>1, <4>2 DEF Writes, Whole
    <3>3. CASE Quarantines(t)
      <4>1. job[t].slot \in Slot /\ job[t].slot # p
        BY <1>1, <3>3, TrackPlaces, Kinds DEF Quarantines, Courses, TrackCourse
      <4>2. disk'[p] = disk[p] \/ disk'[p] = NoFile
        BY <1>1, <3>1, <3>3, <4>1 DEF Quarantines, Arrives, Opens, Stops
      <4> QED
        BY <2>3, <3>3, <4>2 DEF Quarantines
    <3> QED
      BY <2>3, <3>2, <3>3 DEF TrackSteps, TrackShape, Begins, FindsFile, GoesOn, Fails,
         Completes, Names
  <2> QED
    BY <2>2, <2>3
<1>4. CASE \E r \in Redo : RedoSteps(r)
  <2> PICK r \in Redo : RedoSteps(r)
    BY <1>4
  <2>1. \A t \in Track : job'[t] = job[t]
    BY Kinds DEF RedoSteps, Local, Others
  <2>2. CASE p \in Busy(r)
    BY <1>1, <2>2, BusyPaths
  <2>3. CASE p \notin Busy(r)
    BY <1>1, <2>1, <2>3, Kinds DEF RedoSteps, Local, Whole
  <2> QED
    BY <2>2, <2>3
<1> QED
  BY <1>2, <1>3, <1>4, Steps

\* A forced download that has not completed stays one, unless it completes.
LEMMA EndangeredNext ==
  ASSUME PublicationInv, [Next]_vars, NEW p \in Path, Endangered(p)
  PROVE  \/ Endangered(p)'
         \/ \E t \in Track : TrackSteps(t) /\ Completes(t) /\ PathOf[t] = p
<1>1. PICK u \in Forced : PathOf[u] = p /\ job[u].pc # "idle" /\ job[u].outcome # "completed"
  BY DEF Endangered
<1>2. u \in Track /\ job'[u].pc # "idle"
  BY <1>1, StepsGrow, ForcedAssumption DEF Grows, Job
<1>3. CASE job'[u].outcome # "completed"
  BY <1>1, <1>2, <1>3 DEF Endangered
<1>4. CASE job'[u] # job[u]
  <2>1. TrackSteps(u)
    BY <1>2, <1>4, Steps, Kinds DEF NobodySteps, TrackSteps, RedoSteps, Local, Others
  <2>2. job'[u].outcome = "completed" => Completes(u)
    BY <2>1 DEF TrackSteps, TrackShape, Begins, FindsFile, GoesOn, Fails, Writes, Names,
       Quarantines
  <2> QED
    BY <1>1, <1>2, <1>3, <2>1, <2>2
<1> QED
  BY <1>1, <1>3, <1>4

\* What a track that ends announces is whole.
LEMMA AnnouncedNow ==
  ASSUME PublicationInv, [Next]_vars, NEW t \in Track, TrackSteps(t)
  PROVE  /\ job'[t].outcome \in {"exists", "completed"} =>
              Whole(PathOf[t])' \/ Spoiled(PathOf[t])'
         /\ job'[t].outcome = "suspicious" =>
              Whole(job[t].slot)' \/ Spoiled(PathOf[t])'
<1> DEFINE p == PathOf[t]
<1>1. /\ Typed /\ Courses /\ Met /\ PlacedFiles /\ \A x : Spoiled(x) => Spoiled(x)'
      /\ p \in Path /\ p \in Place /\ t \in Job
  BY StepsGrow, GrowsKeeps, TrackPlaces DEF PublicationInv
<1>2. CASE FindsFile(t)
  <2>1. /\ disk[p] # NoFile /\ disk' = disk /\ job'[t] # job[t]
        /\ job'[t].outcome = "exists" /\ job[t].pc = "idle"
    BY <1>2 DEF FindsFile
  <2>2. Whole(p) \/ Spoiled(p) \/ \E u \in Track : PathOf[u] = p /\ job[u].pc = "copying"
    BY <1>1, <2>1 DEF PublicationInv, AnnouncedFilesAreWhole
  <2>3. ASSUME NEW u \in Track, PathOf[u] = p, job[u].pc = "copying" PROVE p \in crowded'
    <3>1. u # t /\ u \in Job /\ p \in Busy(u)
      BY <1>1, <2>1, <2>3, BusyPaths, TrackPlaces DEF Active
    <3>2. (p \in Busy(u))'
      BY <3>1, BusyStays
    <3> QED
      BY <1>1, <2>1, <3>1, <3>2, Noted
  <2> QED
    BY <1>1, <2>1, <2>2, <2>3 DEF Whole, Spoiled
<1>3. CASE Completes(t)
  BY <1>1, <1>3 DEF Completes, PlacedFiles, Whole
<1>4. CASE Quarantines(t)
  <2>1. job[t].pc = "quarantine" /\ job[t].slot \in Slot /\ job[t].slot # p
    BY <1>1, <1>4, TrackPlaces, Kinds DEF Quarantines, Courses, TrackCourse
  <2>2. /\ job'[t].outcome = "suspicious" => disk'[job[t].slot] = disk[p]
        /\ job'[t].slot = job[t].slot
    BY <1>4 DEF Quarantines, Arrives
  <2>3. Whole(p) \/ Spoiled(p)
    BY <1>1, <2>1 DEF PlacedFiles
  <2>4. job'[t].outcome \in {"none", "suspicious", "failed"}
    BY <1>4 DEF Quarantines
  <2> QED
    BY <1>1, <2>2, <2>3, <2>4 DEF Whole
<1> QED
  BY <1>2, <1>3, <1>4 DEF TrackSteps, TrackShape, Begins, GoesOn, Fails, Writes, Names

\* The slot of a track that has announced a suspicious file.
LEMMA AnnouncedSlot ==
  ASSUME Courses, NEW t \in Track, job[t].outcome = "suspicious"
  PROVE  job[t].slot \in Slot /\ job[t].slot \in Place /\ job[t].slot \notin Job
  BY TrackPlaces, Kinds DEF Courses, TrackCourse

\* What was announced is left alone, or its place is spoiled or endangered.
LEMMA AnnouncedNext ==
  ASSUME PublicationInv, [Next]_vars
  PROVE  AnnouncedFilesAreWhole'
<1>1. /\ Typed /\ Courses /\ Met /\ PlacedFiles /\ LeftAlone /\ AnnouncedFilesAreWhole
      /\ \A x : Spoiled(x) => Spoiled(x)'
  BY StepsGrow, GrowsKeeps DEF PublicationInv
<1>2. \A t \in Track : t \in Job /\ PathOf[t] \in Path /\ PathOf[t] \in Place
                       /\ PathOf[t] \notin Job
  BY TrackPlaces, Kinds
<1>3. ASSUME NEW t \in Track, job'[t].outcome \in {"exists", "completed"}
      PROVE  Whole(PathOf[t])' \/ Spoiled(PathOf[t])' \/ Endangered(PathOf[t])'
  <2> DEFINE p == PathOf[t]
  <2>1. CASE job'[t] # job[t]
    <3>1. TrackSteps(t)
      BY <1>2, <2>1, Steps, Kinds DEF NobodySteps, TrackSteps, RedoSteps, Local, Others
    <3> QED
      BY <1>3, <3>1, AnnouncedNow
  <2>2. CASE job'[t] = job[t]
    <3>1. Whole(p) \/ Spoiled(p) \/ Endangered(p)
      BY <1>1, <1>3, <2>2 DEF AnnouncedFilesAreWhole
    <3>2. CASE Spoiled(p)
      BY <1>1, <3>2
    <3>3. CASE Endangered(p)
      <4>1. ASSUME NEW u \in Track, Completes(u), PathOf[u] = p
            PROVE  Whole(p)' \/ Spoiled(p)'
        BY <1>1, <4>1 DEF Completes, PlacedFiles, Whole
      <4> QED
        BY <1>2, <3>3, <4>1, EndangeredNext
    <3>4. CASE Whole(p) /\ ~Spoiled(p) /\ ~Endangered(p)
      <4>1. \A u \in Track \ Forced : PathOf[u] = p => ~Active(u)
        BY <1>1, <1>3, <2>2, <3>4 DEF LeftAlone
      <4>2. ASSUME NEW u \in Track, PathOf[u] = p, Active(u) PROVE FALSE
        BY <1>1, <3>4, <4>1, <4>2 DEF Active, Endangered, Courses, TrackCourse
      <4>3. \A j \in Job : p \notin Busy(j)
        BY <1>1, <1>2, <3>4, <4>2, BusyPaths DEF Job
      <4>4. disk'[p] = disk[p]
        BY <1>2, <4>3, Steps, Kinds DEF NobodySteps, TrackSteps, RedoSteps, Local, Job
      <4> QED
        BY <3>4, <4>4 DEF Whole
    <3> QED
      BY <3>1, <3>2, <3>3, <3>4
  <2> QED
    BY <2>1, <2>2
<1>4. ASSUME NEW t \in Track, job'[t].outcome = "suspicious"
      PROVE  Whole(job[t].slot)' \/ Spoiled(job[t].slot)' \/ Spoiled(PathOf[t])'
  <2> DEFINE s == job[t].slot
  <2>1. CASE job'[t] # job[t]
    <3>1. TrackSteps(t)
      BY <1>2, <2>1, Steps, Kinds DEF NobodySteps, TrackSteps, RedoSteps, Local, Others
    <3>2. job'[t].slot = job[t].slot
      BY <1>4, <3>1 DEF TrackSteps, TrackShape, Begins, FindsFile, GoesOn, Fails, Completes,
         Writes, Names, Quarantines
    <3> QED
      BY <1>4, <3>1, <3>2, AnnouncedNow DEF Whole, Spoiled, Redone
  <2>2. CASE job'[t] = job[t]
    <3>1. Whole(s) \/ Spoiled(s) \/ Spoiled(PathOf[t])
      BY <1>1, <1>4, <2>2 DEF AnnouncedFilesAreWhole
    <3>2. CASE Whole(s) /\ ~Spoiled(s) /\ ~Spoiled(PathOf[t])
      <4>1. \A j \in Job \ {t} : s \notin Busy(j)
        BY <1>1, <1>4, <2>2, <3>2 DEF LeftAlone
      <4>2. s \notin Busy(t)
        BY <1>1, <1>4, <2>2, TrackPlaces DEF Courses, TrackCourse, Active
      <4>3. disk'[s] = disk[s]
        BY <1>1, <1>4, <2>2, <4>1, <4>2, AnnouncedSlot, Steps
        DEF NobodySteps, TrackSteps, RedoSteps, Local, Job
      <4> QED
        BY <2>2, <3>2, <4>3 DEF Whole
    <3> QED
      BY <1>1, <2>2, <3>1, <3>2 DEF Spoiled, Redone
  <2> QED
    BY <2>1, <2>2
<1> QED
  BY <1>3, <1>4, HalvesNext DEF AnnouncedFilesAreWhole

\* A track becomes active only by its own step, and a YouTube job is busy at
\* another place only where it looked or began.
LEMMA ActiveBegins ==
  ASSUME PublicationInv, [Next]_vars, NEW t \in Track, Active(t)', ~Active(t)
  PROVE  TrackSteps(t) /\ Begins(t)
<1>1. job'[t] # job[t] /\ t \in Job
  BY Kinds DEF Active
<1>2. TrackSteps(t)
  BY <1>1, Steps, Kinds DEF NobodySteps, TrackSteps, RedoSteps, Local, Others
<1> QED
  BY <1>2 DEF TrackSteps, TrackShape, FindsFile, GoesOn, Fails, Completes, Writes, Names,
     Quarantines, Active

\* Nobody comes to a place where a suspicious file was announced.
LEMMA SlotsLeftAlone ==
  ASSUME PublicationInv, [Next]_vars, NEW t \in Track, job[t].outcome = "suspicious",
         NEW s \in Slot, job[t].slot = s, ~Spoiled(s), ~Spoiled(PathOf[t]),
         NEW j \in Job \ {t}, (s \in Busy(j))'
  PROVE  Spoiled(s)'
<1>1. /\ Typed /\ Courses /\ s \notin Busy(j) /\ Whole(s)
      /\ s \in Place /\ s # None /\ s \notin Path
  BY Kinds DEF PublicationInv, LeftAlone, AnnouncedFilesAreWhole
<1>2. disk[s] # NoFile
  BY <1>1, FileTypes DEF Whole
<1>3. CASE j \in Track
  <2>1. TrackSteps(j)
    BY <1>1, <1>3, Steps, BusyStays, Kinds
  <2>2. job'[j].slot = s
    BY <1>1, <1>3, TrackPlaces DEF Busy
  <2>3. CASE Names(j)
    BY <1>2, <2>2, <2>3 DEF Names
  <2>4. CASE ~Names(j)
    <3>1. job[j].slot = s
      BY <2>1, <2>2, <2>4 DEF TrackSteps, TrackShape, Begins, FindsFile, GoesOn, Fails,
         Completes, Writes, Quarantines
    <3>2. job[j].pc \in {"quarantine", "done"}
      BY <1>1, <1>3, <3>1 DEF Courses, TrackCourse
    <3>3. job[j].pc # "done"
      BY <2>1 DEF TrackSteps, TrackShape, Begins, FindsFile, GoesOn, Fails,
         Completes, Writes, Names, Quarantines
    <3> QED
      BY <1>1, <1>3, <3>1, <3>2, <3>3 DEF Busy
  <2> QED
    BY <2>3, <2>4
<1>4. CASE j \in Redo
  <2>1. RedoSteps(j)
    BY <1>1, <1>4, Steps, BusyStays, Kinds
  <2>2. mutex' = j /\ s \in {Original[j], Replacement[j], job'[j].slot}
    BY <1>1, <1>4, Kinds DEF Busy
  <2>3. CASE s \in {Original[j], Replacement[j]}
    BY <1>4, <2>1, <2>3 DEF RedoSteps, RedoShape, Spoiled, Redone
  <2>4. CASE job'[j].slot = s
    <3>1. mutex = j /\ job[j].slot = s
      BY <1>1, <1>2, <1>4, <2>1, <2>2, <2>4, Kinds
      DEF RedoSteps, RedoShape, Waits, Locks, Looks, Puts, Moves, Replaces, Leaves
    <3> QED
      BY <1>1, <1>4, <3>1, RedoPlaces
  <2> QED
    BY <2>2, <2>3, <2>4
<1> QED
  BY <1>3, <1>4 DEF Job

\* What was announced stays left alone.
LEMMA LeftAloneNext ==
  ASSUME PublicationInv, [Next]_vars
  PROVE  LeftAlone'
<1>1. /\ Typed /\ Courses /\ Met /\ LeftAlone /\ AnnouncedFilesAreWhole
      /\ \A x : Spoiled(x) => Spoiled(x)'
  BY StepsGrow, GrowsKeeps DEF PublicationInv
<1>2. \A t \in Track : t \in Job /\ PathOf[t] \in Path
  BY TrackPlaces
<1>3. ASSUME NEW t \in Track, job'[t].outcome \in {"exists", "completed"},
             ~Spoiled(PathOf[t])', ~Endangered(PathOf[t])',
             NEW u \in Track \ Forced, PathOf[u] = PathOf[t], Active(u)'
      PROVE  FALSE
  <2> DEFINE p == PathOf[t]
  <2>1. p \in Path /\ u \in Job /\ ~Spoiled(p) /\ p \notin crowded'
    BY <1>1, <1>2, <1>3 DEF Spoiled
  <2>2. (p \in Busy(u))'
    BY <1>3, TrackPlaces DEF Busy, Active
  <2>3. u # t
    BY <1>3, CoursesNext DEF Courses, TrackCourse, Active
  <2>4. CASE job'[t] # job[t]
    BY <1>1, <2>1, <2>2, <2>3, <2>4, Noted
  <2>5. CASE job'[t] = job[t]
    <3>1. CASE Endangered(p)
      <4>1. PICK v \in Track : TrackSteps(v) /\ Completes(v) /\ PathOf[v] = p
        BY <1>3, <2>1, <3>1, EndangeredNext
      <4>2. job'[v] # job[v] /\ v \in Job /\ v # u
        BY <1>2, <1>3, <4>1 DEF Completes, Active
      <4> QED
        BY <1>1, <2>1, <2>2, <4>1, <4>2, Noted
    <3>2. CASE ~Endangered(p)
      <4>1. ~Active(u)
        BY <1>1, <1>3, <2>1, <2>5, <3>2 DEF LeftAlone
      <4>2. Begins(u)
        BY <1>3, <4>1, ActiveBegins
      <4>3. Whole(p)
        BY <1>1, <1>3, <2>1, <2>5, <3>2 DEF AnnouncedFilesAreWhole
      <4> QED
        BY <1>3, <4>2, <4>3 DEF Begins
    <3> QED
      BY <3>1, <3>2
  <2> QED
    BY <2>4, <2>5
<1>4. ASSUME NEW t \in Track, job'[t].outcome = "suspicious",
             NEW s, s = job'[t].slot, ~Spoiled(s)', ~Spoiled(PathOf[t])',
             NEW j \in Job \ {t}, (s \in Busy(j))'
      PROVE  FALSE
  <2>1. ~Spoiled(PathOf[t]) /\ t \in Job
    BY <1>1, <1>2, <1>4
  <2>2. CASE job'[t] # job[t]
    <3>1. TrackSteps(t)
      BY <2>1, <2>2, Steps, Kinds DEF NobodySteps, TrackSteps, RedoSteps, Local, Others
    <3>2. Quarantines(t)
      BY <1>4, <3>1 DEF TrackSteps, TrackShape, Begins, FindsFile, GoesOn, Fails, Completes,
         Writes, Names
    <3>3. s = job[t].slot /\ s \in Slot /\ s \in Busy(t)
      BY <1>1, <1>4, <3>2, TrackPlaces DEF Quarantines, Courses, TrackCourse, Active
    <3>4. s \in Busy(j)
      BY <1>4, <3>1, BusyStays
    <3>5. s \in crowded
      BY <1>1, <3>3, <3>4 DEF Met
    <3> QED
      BY <1>1, <1>4, <3>5 DEF Spoiled
  <2>3. CASE job'[t] = job[t]
    <3>1. job[t].outcome = "suspicious" /\ job[t].slot = s /\ ~Spoiled(s) /\ s \in Slot
      BY <1>1, <1>4, <2>3, AnnouncedSlot
    <3> QED
      BY <1>4, <2>1, <3>1, SlotsLeftAlone
  <2> QED
    BY <2>2, <2>3
<1>5. ASSUME NEW t \in Track, job'[t].outcome = "suspicious"
      PROVE  \/ Spoiled(job[t].slot)' \/ Spoiled(PathOf[t])'
             \/ \A j \in Job \ {t} : (job[t].slot \notin Busy(j))'
  <2>1. PICK s : s = job'[t].slot
    OBVIOUS
  <2>2. /\ Spoiled(s)' => Spoiled(job[t].slot)'
        /\ \A j \in Job : (s \notin Busy(j))' => (job[t].slot \notin Busy(j))'
    BY <2>1 DEF Spoiled, Redone, Busy
  <2>3. Spoiled(s)' \/ Spoiled(PathOf[t])' \/ \A j \in Job \ {t} : (s \notin Busy(j))'
    BY <1>4, <1>5, <2>1
  <2> QED
    BY <2>2, <2>3
<1> QED
  BY <1>3, <1>5 DEF LeftAlone

\* An original is a whole file that is told apart from what jobs write.
LEMMA OriginFiles ==
  ASSUME NEW o \in Path \cup Slot
  PROVE  /\ File(o, TRUE).whole /\ File(o, TRUE) \in Files /\ File(o, TRUE) # NoFile
         /\ \A j \in Job, w \in BOOLEAN : File(j, w) # File(o, TRUE)
         /\ \A p \in Path \cup Slot : File(p, TRUE) = File(o, TRUE) => p = o
         /\ \A f \in Files : Half(f) # File(o, TRUE)
<1>1. o \notin Job /\ o # None
  BY Kinds
<1> QED
  BY <1>1 DEF File, NoFile, Files, Half

\* A track neither moves nor takes away a file that has a home.
LEMMA TrackKeepsHome ==
  ASSUME Typed, Courses, NEW o \in Path \cup Slot, Home(o), NEW t \in Track, TrackSteps(t),
         NEW p \in Place
  PROVE  disk'[p] = File(o, TRUE) <=> disk[p] = File(o, TRUE)
<1> DEFINE F == File(o, TRUE)
<1>1. CASE \E f \in {NoFile, File(t, FALSE), File(t, TRUE)} : Writes(t, f)
  <2> PICK f \in {NoFile, File(t, FALSE), File(t, TRUE)} : Writes(t, f)
    BY <1>1
  <2>1. f # F
    BY OriginFiles, TrackPlaces, Zenon
  <2>2. disk[PathOf[t]] # F
    BY TrackPlaces DEF Writes, Active, Home
  <2>3. disk' = [disk EXCEPT ![PathOf[t]] = f]
    BY DEF Writes
  <2> QED
    BY <2>1, <2>2, <2>3 DEF Typed
<1>2. CASE Quarantines(t)
  <2>1. /\ PathOf[t] \in Place /\ job[t].slot \in Place /\ PathOf[t] # job[t].slot
        /\ disk[PathOf[t]] \in Files
    BY <1>2, TrackPlaces DEF Quarantines, Courses, TrackCourse, Typed
  <2>2. disk[PathOf[t]] # F /\ disk[job[t].slot] # F
    BY <1>2 DEF Quarantines, Active, Home
  <2>3. NoFile # F /\ Half(disk[PathOf[t]]) # F
    BY <2>1, OriginFiles
  <2>4. /\ \A x \in Place \ {PathOf[t], job[t].slot} : disk'[x] = disk[x]
        /\ disk'[PathOf[t]] # F /\ disk'[job[t].slot] # F
    <3>1. CASE Arrives(t, PathOf[t], job[t].slot)
      BY <2>1, <2>2, <2>3, <3>1 DEF Arrives
    <3>2. CASE Opens(t, PathOf[t], job[t].slot)
      BY <2>1, <2>2, <2>3, <3>2 DEF Opens
    <3>3. CASE Stops(t, PathOf[t], job[t].slot)
      BY <2>1, <2>2, <2>3, <3>3 DEF Stops
    <3> QED
      BY <1>2, <3>1, <3>2, <3>3 DEF Quarantines
  <2> QED
    BY <2>2, <2>4
<1> QED
  BY <1>1, <1>2 DEF TrackSteps, TrackShape, Begins, FindsFile, GoesOn, Fails, Completes, Names

\* After the step of a track every file has its home.
LEMMA TrackHomes ==
  ASSUME PublicationInv, [Next]_vars, NEW o \in Path \cup Slot, Home(o), ~GivenUp(o)',
         NEW t \in Track, TrackSteps(t)
  PROVE  Home(o)'
<1> DEFINE F == File(o, TRUE)
<1>0. Typed /\ Courses
  BY DEF PublicationInv
<1>1. /\ Typed /\ Courses
      /\ \A p \in Place : disk'[p] = F <=> disk[p] = F
      /\ \A u \in Track \ {t} : job'[u] = job[u]
      /\ \A r \in Redo : job'[r] = job[r] /\ r \in Place
      /\ mutex' = mutex
      /\ \A p \in Path \cup Slot : p \in Place
  <2>1. \A p \in Place : disk'[p] = F <=> disk[p] = F
    BY <1>0, TrackKeepsHome
  <2>2. \A j \in Job \ {t} : job'[j] = job[j]
    BY DEF TrackSteps, Local, Others
  <2>3. mutex' = mutex
    BY DEF TrackSteps, TrackShape
  <2> HIDE DEF F
  <2> QED
    BY <1>0, <2>1, <2>2, <2>3, Kinds
<1>2. \A p \in Path \ {o} : disk'[p] # F
  BY <1>1 DEF Home
<1>3. ASSUME NEW r \in Redo
      PROVE  /\ disk'[r] = F => Replacement[r] = o
             /\ mutex' = r /\ job'[r].slot # None /\ disk'[job'[r].slot] = F => Original[r] = o
  <2>1. job[r].slot # None => job[r].slot \in Place
    BY <1>1, Kinds DEF Typed, Jobs
  <2> QED
    BY <1>1, <2>1 DEF Home
<1>4. ASSUME NEW u \in Track, Active(u)'
      PROVE  disk'[PathOf[u]] # F
  <2>1. CASE Active(u)
    BY <1>1, <2>1, TrackPlaces DEF Home
  <2>2. CASE ~Active(u)
    <3>1. Begins(u)
      BY <1>4, <2>2, ActiveBegins
    <3>2. disk' = disk /\ job'[u].pc # "idle" /\ (u \in Forced \/ ~Whole(PathOf[u]))
      BY <3>1 DEF Begins
    <3>3. disk[PathOf[u]] = F => PathOf[u] = o
      BY TrackPlaces DEF Home
    <3>4. PathOf[u] = o => u \notin Forced
      BY <3>2 DEF GivenUp
    <3> QED
      BY <3>2, <3>3, <3>4, OriginFiles DEF Whole
  <2> QED
    BY <2>1, <2>2
<1>5. ASSUME NEW u \in Track, job'[u].pc = "quarantine"
      PROVE  disk'[job'[u].slot] # F
  <2>1. CASE job[u].pc = "quarantine" /\ job'[u].slot = job[u].slot
    <3>1. job[u].slot \in Place
      BY <1>1, <2>1, TrackPlaces DEF Courses, TrackCourse
    <3> QED
      BY <1>1, <2>1, <3>1 DEF Home
  <2>2. CASE u = t /\ Names(t)
    BY <2>2, OriginFiles DEF Names
  <2> QED
    BY <1>1, <1>5, <2>1, <2>2 DEF TrackSteps, TrackShape, Begins, FindsFile, GoesOn, Fails,
       Completes, Writes, Quarantines
<1> QED
  BY <1>2, <1>3, <1>4, <1>5 DEF Home, Active

\* Where a YouTube job and a track work at one place, the file is given up.
LEMMA SharedGivenUp ==
  ASSUME PublicationInv, [Next]_vars, NEW r \in Redo, mutex = r, NEW t \in Track,
         NEW p \in Path \cup Slot, p \in Busy(t), p \in {Original[r], Replacement[r], job[r].slot},
         NEW o \in {Original[r], Replacement[r]}
  PROVE  GivenUp(o)'
<1>1. p \in crowded
  BY RedoPlaces, TrackPlaces DEF PublicationInv, Met
<1>2. GivenUp(o)
  BY <1>1 DEF GivenUp, Disturbed
<1> QED
  BY <1>2, StepsGrow, GrowsKeeps DEF PublicationInv

\* After a move a file has its home if it came to a place where it is at home.
LEMMA HomeAfter ==
  ASSUME Typed, Courses, NEW o \in Path \cup Slot, Home(o), NEW q \in Place,
         \A x \in Place \ {q} : disk'[x] = File(o, TRUE) => disk[x] = File(o, TRUE),
         mutex' = mutex, \A t \in Track : job'[t] = job[t],
         \A r \in Redo : job'[r].slot = job[r].slot,
         q \in Path => q = o,
         \A r \in Redo : q = r => Replacement[r] = o,
         \A r \in Redo : mutex = r /\ job[r].slot = q => Original[r] = o,
         \A t \in Track : Active(t) => PathOf[t] # q,
         \A t \in Track : job[t].pc = "quarantine" => job[t].slot # q
  PROVE  Home(o)'
<1> DEFINE F == File(o, TRUE)
<1>1. \A p \in Path \ {o} : disk'[p] # F
  BY Kinds DEF Home
<1>2. ASSUME NEW r \in Redo PROVE disk'[r] = F => Replacement[r] = o
  BY Kinds DEF Home
<1>3. ASSUME NEW r \in Redo, mutex' = r, job'[r].slot # None, disk'[job'[r].slot] = F
      PROVE  Original[r] = o
  <2>1. job'[r].slot = job[r].slot /\ job[r].slot \in Place /\ mutex = r
    BY <1>3, Kinds DEF Typed, Jobs
  <2>2. disk[job[r].slot] = F \/ job[r].slot = q
    BY <1>3, <2>1
  <2> HIDE DEF F
  <2>3. CASE disk[job[r].slot] = F
    BY <1>3, <2>1, <2>3 DEF Home, F
  <2>4. CASE job[r].slot = q
    BY <2>1, <2>4
  <2> QED
    BY <2>2, <2>3, <2>4
<1>4. ASSUME NEW t \in Track, Active(t)' PROVE disk'[PathOf[t]] # F
  BY <1>4, TrackPlaces DEF Active, Home
<1>5. ASSUME NEW t \in Track, job'[t].pc = "quarantine" PROVE disk'[job'[t].slot] # F
  <2>1. /\ job'[t] = job[t] /\ job[t].pc = "quarantine"
        /\ job[t].slot \in Place /\ job[t].slot # q
    BY <1>5, TrackPlaces DEF Courses, TrackCourse
  <2>2. disk[job[t].slot] # F
    BY <2>1 DEF Home
  <2>3. disk'[job[t].slot] # F
    BY <2>1, <2>2
  <2> QED
    BY <2>1, <2>3
<1> QED
  BY <1>1, <1>2, <1>3, <1>4, <1>5 DEF Home

\* After the step of a YouTube job every file has its home.
LEMMA RedoHomes ==
  ASSUME PublicationInv, [Next]_vars, NEW o \in Path \cup Slot, Home(o), ~GivenUp(o)',
         NEW r \in Redo, RedoSteps(r)
  PROVE  Home(o)'
<1> DEFINE F == File(o, TRUE)
           O == Original[r]
           N == Replacement[r]
           s == job[r].slot
<1>0. Typed /\ Courses
  BY DEF PublicationInv
<1>1. /\ \A j \in Job \ {r} : job'[j] = job[j]
      /\ \A t \in Track : job'[t] = job[t]
      /\ \A other \in Redo \ {r} : job'[other] = job[other]
  <2>1. \A j \in Job \ {r} : job'[j] = job[j]
    BY DEF RedoSteps, Local, Others
  <2> QED
    BY <2>1, Kinds
<1>2. \A other \in Redo \ {r} : mutex' = other <=> mutex = other
  BY DEF RedoSteps, OthersWait
<1>11. \A x \in Redo : job[x].slot \in Slot \cup {None}
  BY <1>0, Kinds DEF Typed, Jobs
\* Either the file is where it was,
<1>3. CASE \A p \in Place : disk'[p] = F => disk[p] = F
  <2>1. \A p \in Path \ {o} : disk'[p] # F
    BY <1>3, Kinds DEF Home
  <2>2. \A x \in Redo : disk'[x] = F => Replacement[x] = o
    BY <1>3, Kinds DEF Home
  <2>3. ASSUME NEW x \in Redo, mutex' = x, job'[x].slot # None, disk'[job'[x].slot] = F
        PROVE  Original[x] = o
    <3>1. job'[x].slot \in Place
      BY <2>3, CoursesNext, Kinds DEF Typed, Jobs
    <3>2. disk[job'[x].slot] = F /\ F # NoFile
      BY <1>3, <2>3, <3>1, OriginFiles
    <3>3. CASE x = r
      <4>1. mutex = r /\ job[r].slot = job'[r].slot
        BY <2>3, <3>2, <3>3 DEF RedoSteps, RedoShape, Waits, Locks, Looks, Puts, Moves,
           Replaces, Leaves
      <4> QED
        BY <2>3, <3>2, <3>3, <4>1 DEF Home
    <3>4. CASE x # r
      <4>1. mutex = x /\ job[x].slot = job'[x].slot
        BY <1>1, <1>2, <2>3, <3>4
      <4> QED
        BY <2>3, <3>2, <4>1 DEF Home
    <3> QED
      BY <3>3, <3>4
  <2>4. ASSUME NEW t \in Track, Active(t)' PROVE disk'[PathOf[t]] # F
    BY <1>1, <1>3, <2>4, TrackPlaces DEF Active, Home
  <2>5. ASSUME NEW t \in Track, job'[t].pc = "quarantine" PROVE disk'[job'[t].slot] # F
    <3>1. job[t].pc = "quarantine" /\ job'[t].slot = job[t].slot
      BY <1>1, <2>5
    <3>2. job[t].slot \in Place
      BY <1>0, <3>1, TrackPlaces DEF Courses, TrackCourse
    <3> QED
      BY <1>3, <3>1, <3>2 DEF Home
  <2> QED
    BY <2>1, <2>2, <2>3, <2>4, <2>5 DEF Home
\* or it came from place p to place q.
<1>4. ASSUME Moves(r), NEW p \in Place, NEW q \in Place \ {p}, Carries(p, q),
             NEW y \in Place, disk'[y] = F, disk[y] # F
      PROVE  disk[p] = F /\ \A x \in Place \ {q} : disk'[x] = F => disk[x] = F
  <2>1. F.whole /\ F # NoFile
    BY OriginFiles
  <2> HIDE DEF F
  <2> QED
    BY <1>4, <2>1 DEF Carries
<1>5. ASSUME Moves(r), NEW t \in Track, NEW x \in Path \cup Slot, x \in Busy(t),
             x \in {O, N, s}
      PROVE  o \notin {O, N}
  BY <1>5, SharedGivenUp DEF Moves
<1>6. ASSUME NEW t \in Track, job[t].pc = "quarantine"
      PROVE  job[t].slot \in Slot /\ job[t].slot \in Busy(t)
  BY <1>0, <1>6, TrackPlaces DEF Courses, TrackCourse, Active
<1>7. ASSUME NEW t \in Track, Active(t)
      PROVE  PathOf[t] \in Path /\ PathOf[t] \in Busy(t)
  BY <1>7, TrackPlaces
<1>8. CASE Moves(r) /\ \E y \in Place : disk'[y] = F /\ disk[y] # F
  <2> PICK y \in Place : disk'[y] = F /\ disk[y] # F
    BY <1>8
  <2>1. mutex = r /\ mutex' = mutex /\ \A x \in Redo : job'[x].slot = job[x].slot
    BY <1>1, <1>8 DEF Moves
  <2>2. CASE Carries(O, s) /\ s \in NamesOf[r] /\ O \in Path
    <3>0. O \in Place /\ s \in Place \ {O}
      BY <2>2, RedoPlaces, Kinds
    <3>1. /\ disk[O] = F /\ \A x \in Place \ {s} : disk'[x] = F => disk[x] = F
      BY <3>0, <1>4, <1>8, <2>2
    <3>2. O = o
      BY <2>2, <3>1 DEF Home
    <3>3. /\ s \in Slot /\ s \notin Path /\ s \in Place /\ s \notin Redo
      BY <2>2, Kinds
    <3>4. \A t \in Track : job[t].pc = "quarantine" => job[t].slot # s
      BY <1>5, <1>6, <1>8, <3>2, <3>3
    <3>5. \A t \in Track : Active(t) => PathOf[t] # s
      BY <3>3, TrackPlaces
    <3>6. \A x \in Redo : mutex = x /\ job[x].slot = s => Original[x] = o
      BY <2>1, <3>2
    <3>7. /\ s \in Path => s = o
          /\ \A x \in Redo : s = x => Replacement[x] = o
          /\ mutex' = mutex
          /\ \A x \in Redo : job'[x].slot = job[x].slot
      BY <2>1, <3>2, <3>3
    <3>8. \A x \in Place \ {s} : disk'[x] = File(o, TRUE) => disk[x] = File(o, TRUE)
      BY <3>1
    <3>9. s \in Place
      BY <3>0
    <3> HIDE DEF s
    <3> QED
      BY <1>0, <1>1, <3>4, <3>5, <3>6, <3>7, <3>8, <3>9, HomeAfter
  <2>3. CASE Carries(s, O) /\ s \in NamesOf[r] /\ O \in Path
    <3>0. s \in Place /\ O \in Place \ {s}
      BY <2>3, RedoPlaces, Kinds
    <3>1. /\ disk[s] = F /\ \A x \in Place \ {O} : disk'[x] = F => disk[x] = F
      BY <3>0, <1>4, <1>8, <2>3
    <3>2. O = o
      BY <2>1, <2>3, <3>1, RedoPlaces DEF Home
    <3>3. /\ O \notin Slot /\ O \in Place /\ O \notin Redo
      BY <2>3, Kinds
    <3>4. \A t \in Track : job[t].pc = "quarantine" => job[t].slot # O
      BY <1>6, <3>3
    <3>5. \A t \in Track : Active(t) => PathOf[t] # O
      BY <1>5, <1>7, <1>8, <3>2
    <3>6. \A x \in Redo : mutex = x /\ job[x].slot = O => Original[x] = o
      BY <2>1, <3>2
    <3>7. /\ O \in Path => O = o
          /\ \A x \in Redo : O = x => Replacement[x] = o
          /\ mutex' = mutex
          /\ \A x \in Redo : job'[x].slot = job[x].slot
      BY <2>1, <3>2, <3>3
    <3>8. \A x \in Place \ {O} : disk'[x] = File(o, TRUE) => disk[x] = File(o, TRUE)
      BY <3>1
    <3>9. O \in Place
      BY <3>0
    <3> HIDE DEF O
    <3> QED
      BY <1>0, <1>1, <3>4, <3>5, <3>6, <3>7, <3>8, <3>9, HomeAfter
  <2>4. CASE Carries(N, r)
    <3>0. N \in Place /\ r \in Place \ {N}
      BY <2>4, RedoPlaces, Kinds
    <3>1. /\ disk[N] = F /\ \A x \in Place \ {r} : disk'[x] = F => disk[x] = F
      BY <3>0, <1>4, <1>8, <2>4
    <3>2. N = o
      BY <3>1, RedoPlaces DEF Home
    <3>3. r \notin Path /\ r \notin Slot
      BY Kinds
    <3>4. \A t \in Track : job[t].pc = "quarantine" => job[t].slot # r
      BY <1>6, <3>3
    <3>5. \A t \in Track : Active(t) => PathOf[t] # r
      BY <3>3, TrackPlaces
    <3>6. \A x \in Redo : ~(mutex = x /\ job[x].slot = r)
      BY <1>11, <3>3, RedoPlaces
    <3>7. /\ r \in Path => r = o
          /\ \A x \in Redo : r = x => Replacement[x] = o
          /\ mutex' = mutex
          /\ \A x \in Redo : job'[x].slot = job[x].slot
      BY <2>1, <3>2, <3>3
    <3>8. \A x \in Place \ {r} : disk'[x] = File(o, TRUE) => disk[x] = File(o, TRUE)
      BY <3>1
    <3>9. r \in Place
      BY <3>0
    <3> QED
      BY <1>0, <1>1, <3>4, <3>5, <3>6, <3>7, <3>8, <3>9, HomeAfter
  <2>5. CASE Carries(r, N)
    <3>0. r \in Place /\ N \in Place \ {r}
      BY <2>5, RedoPlaces, Kinds
    <3>1. /\ disk[r] = F /\ \A x \in Place \ {N} : disk'[x] = F => disk[x] = F
      BY <3>0, <1>4, <1>8, <2>5
    <3>2. N = o
      BY <3>1, RedoPlaces DEF Home
    <3>3. N \in Place /\ N \notin Slot /\ N \notin Redo
      BY Kinds
    <3>4. \A t \in Track : job[t].pc = "quarantine" => job[t].slot # N
      BY <1>6, <3>3
    <3>5. \A t \in Track : Active(t) => PathOf[t] # N
      BY <1>5, <1>7, <1>8, <3>2
    <3>6. \A x \in Redo : ~(mutex = x /\ job[x].slot = N)
      BY <1>11, <3>3, RedoPlaces
    <3>7. /\ N \in Path => N = o
          /\ \A x \in Redo : N = x => Replacement[x] = o
          /\ mutex' = mutex
          /\ \A x \in Redo : job'[x].slot = job[x].slot
      BY <2>1, <3>2, <3>3
    <3>8. \A x \in Place \ {N} : disk'[x] = File(o, TRUE) => disk[x] = File(o, TRUE)
      BY <3>1
    <3>9. N \in Place
      BY <3>0
    <3> HIDE DEF N
    <3> QED
      BY <1>0, <1>1, <3>4, <3>5, <3>6, <3>7, <3>8, <3>9, HomeAfter
  <2> QED
    BY <1>8, <2>2, <2>3, <2>4, <2>5 DEF Moves
<1>9. CASE \E f \in {NoFile, File(r, FALSE), File(r, TRUE)} : Puts(r, f)
  <2> PICK f \in {NoFile, File(r, FALSE), File(r, TRUE)} : Puts(r, f)
    BY <1>9
  <2>1. f # F
    BY OriginFiles, RedoPlaces, Zenon
  <2>2. disk' = [disk EXCEPT ![N] = f] /\ disk \in [Place -> Files]
    BY <1>0 DEF Puts, Typed
  <2> HIDE DEF F
  <2>3. \A p \in Place : disk'[p] = F => disk[p] = F
    BY <2>1, <2>2
  <2> QED
    BY <1>3, <2>3 DEF F
<1>10. CASE Waits(r) \/ Locks(r) \/ Looks(r) \/ Replaces(r) \/ Leaves(r)
  <2>1. disk' = disk \/ disk' = [disk EXCEPT ![r] = NoFile]
    BY <1>10 DEF Waits, Locks, Looks, Replaces, Leaves
  <2>2. F # NoFile /\ disk \in [Place -> Files]
    BY <1>0, OriginFiles DEF Typed
  <2> HIDE DEF F
  <2>3. \A p \in Place : disk'[p] = F => disk[p] = F
    BY <2>1, <2>2
  <2> QED
    BY <1>3, <2>3 DEF F
<1> QED
  BY <1>3, <1>8, <1>9, <1>10 DEF RedoSteps, RedoShape

\* Every file stays at home, or is given up.
LEMMA HomesNext ==
  ASSUME PublicationInv, [Next]_vars
  PROVE  Homes'
<1> SUFFICES ASSUME NEW o \in Path \cup Slot, ~GivenUp(o)' PROVE Home(o)'
  BY DEF Homes
<1>1. Home(o)
  BY StepsGrow, GrowsKeeps DEF PublicationInv, Homes
<1>2. CASE NobodySteps
  BY <1>1, <1>2 DEF NobodySteps, Home, Active
<1>3. CASE \E t \in Track : TrackSteps(t)
  BY <1>1, <1>3, TrackHomes
<1>4. CASE \E r \in Redo : RedoSteps(r)
  BY <1>1, <1>4, RedoHomes
<1> QED
  BY <1>2, <1>3, <1>4, Steps

\* A YouTube job that works undisturbed loses no original but at its end, with
\* its rollback file.
LEMMA UndisturbedKeeps ==
  ASSUME PublicationInv, [Next]_vars, NEW owner \in Redo, Original[owner] \in Path \cup Slot,
         Home(Original[owner]), ~GivenUp(Original[owner])',
         NEW p \in Place, disk[p] = File(Original[owner], TRUE),
         NEW r \in Redo, RedoSteps(r), RedoInv(r)
  PROVE  \E q \in Place : disk'[q] = File(Original[owner], TRUE)
<1> DEFINE o == Original[owner]
<1>1. CASE KeepsOriginals
  <2>1. OfOriginal(disk[p])
    BY DEF OfOriginal
  <2> QED
    BY <1>1, <2>1 DEF KeepsOriginals
<1>2. CASE RedoCompletes(r)
  <2>1. /\ job[r].pc = "published" /\ disk' = [disk EXCEPT ![r] = NoFile]
        /\ EndAs(r, "replaced")
    BY <1>2 DEF RedoCompletes
  <2>2. mutex = r /\ Writing(r)
    BY <2>1 DEF RedoInv, Outside, OutsidePc, Holder, WritingPc
  <2>3. job'[r].outcome = "replaced"
    BY <2>1, EndAsFields, RedoPlaces DEF PublicationInv
  <2>4. ASSUME p = r PROVE FALSE
    <3>1. Replacement[r] = o
      BY <2>4 DEF Home
    <3>2. Original[r] = o
      BY <2>3, <3>1 DEF GivenUp
    <3>3. disk[r] = NoFile
      BY <2>2, <3>1, <3>2 DEF Writing, InPlace
    <3> QED
      BY <2>4, <3>3, OriginFiles
  <2>5. disk'[p] = disk[p]
    BY <2>1, <2>4 DEF PublicationInv, Typed
  <2> QED
    BY <2>5
<1> QED
  BY <1>1, <1>2 DEF RedoSteps

\* A YouTube job touches no file but its own, even if its files are not where
\* it expects them.
LEMMA DisturbedKeeps ==
  ASSUME PublicationInv, [Next]_vars, NEW o \in Path \cup Slot, Home(o), ~GivenUp(o)',
         NEW p \in Place, disk[p] = File(o, TRUE),
         NEW r \in Redo, RedoSteps(r), Disturbed(r)
  PROVE  disk'[p] = disk[p]
<1>1. Typed /\ ~GivenUp(o)
  BY StepsGrow, GrowsKeeps DEF PublicationInv
<1>2. o \notin {Original[r], Replacement[r]}
  BY <1>1 DEF GivenUp
<1>3. p # Replacement[r] /\ p # r
  BY <1>2, RedoPlaces DEF Home
<1>4. CASE Moves(r)
  <2>1. ASSUME job[r].slot \in NamesOf[r], Original[r] \in Path
        PROVE  p # Original[r] /\ p # job[r].slot
    BY <1>2, <1>4, <2>1, RedoPlaces DEF Moves, Home
  <2> QED
    BY <1>3, <1>4, <2>1 DEF Moves, Carries
<1>5. CASE \E f \in {NoFile, File(r, FALSE), File(r, TRUE)} : Puts(r, f)
  BY <1>1, <1>3, <1>5 DEF Puts, Typed
<1>6. CASE Replaces(r)
  BY <1>1, <1>3, <1>6 DEF Replaces, Typed
<1> QED
  BY <1>4, <1>5, <1>6 DEF RedoSteps, RedoShape, Waits, Locks, Looks, Leaves

\* No original is lost.
LEMMA SurvivesNext ==
  ASSUME PublicationInv, [Next]_vars
  PROVE  OriginalSurvives'
<1> SUFFICES ASSUME NEW owner \in Redo, Original[owner] \in Before,
                    ~GivenUp(Original[owner])'
             PROVE  \E q \in Place : disk'[q] = File(Original[owner], TRUE)
  BY DEF OriginalSurvives
<1> DEFINE o == Original[owner]
<1>1. o \in Path \cup Slot
  BY BeforeAssumption
<1>2. ~GivenUp(o)
  BY StepsGrow, GrowsKeeps DEF PublicationInv
<1>3. Home(o)
  BY <1>1, <1>2 DEF PublicationInv, Homes
<1>4. PICK p \in Place : disk[p] = File(o, TRUE)
  BY <1>2 DEF PublicationInv, OriginalSurvives
<1>5. CASE NobodySteps
  BY <1>4, <1>5 DEF NobodySteps
<1>6. CASE \E t \in Track : TrackSteps(t)
  <2>1. disk'[p] = File(o, TRUE)
    BY <1>1, <1>3, <1>4, <1>6, TrackKeepsHome DEF PublicationInv
  <2> QED
    BY <2>1
<1>7. CASE \E r \in Redo : RedoSteps(r)
  <2> PICK r \in Redo : RedoSteps(r)
    BY <1>7
  <2>1. CASE RedoInv(r)
    BY <1>1, <1>3, <1>4, <2>1, UndisturbedKeeps
  <2>2. CASE Disturbed(r)
    <3>1. disk'[p] = disk[p]
      BY <1>1, <1>3, <1>4, <2>2, DisturbedKeeps
    <3> QED
      BY <1>4, <3>1
  <2> QED
    BY <2>1, <2>2 DEF PublicationInv, Undisturbed
<1> QED
  BY <1>5, <1>6, <1>7, Steps

-----------------------------------------------------------------------------
\* At first nothing has begun, and every file is in its place.
LEMMA PublicationInitInv == Init => PublicationInv
<1> SUFFICES ASSUME Init PROVE PublicationInv
  OBVIOUS
<1>1. PICK held \in SUBSET Perhaps :
        disk = [p \in Place |-> IF p \in Before \cup held THEN File(p, TRUE) ELSE NoFile]
  BY DEF Init
<1> DEFINE idle == [pc |-> "idle", slot |-> None, existed |-> FALSE, copying |-> FALSE,
                    broken |-> FALSE, outcome |-> "none", found |-> <<NoFile, NoFile>>]
<1>2. /\ job = [j \in Job |-> idle]
      /\ cancelled = {} /\ mutex = None /\ crowded = {}
  BY DEF Init
<1>3. idle \in Jobs
  BY FileTypes DEF Jobs, TrackPc
<1>4. \A j \in Job : /\ job[j].pc = "idle" /\ job[j].slot = None /\ ~job[j].copying
                     /\ ~job[j].broken /\ job[j].outcome = "none"
  BY <1>2
<1>5. /\ Before \cup held \subseteq Path \cup Slot
      /\ Path \cup Slot \subseteq Place
      /\ \A r \in Redo : r \in Job /\ r \in Place \ (Path \cup Slot) /\ r # None
      /\ \A t \in Track : t \in Job
  BY BeforeAssumption, Kinds DEF Place
<1>6. \A p \in Place : /\ disk[p] \in {NoFile, File(p, TRUE)}
                       /\ p \in Before => disk[p] = File(p, TRUE)
                       /\ p \notin Path \cup Slot => disk[p] = NoFile
  BY <1>1, <1>5
<1>7. ASSUME NEW p \in Path \cup Slot, NEW x \in Place, disk[x] = File(p, TRUE)
      PROVE  x = p
  BY <1>6, <1>7, OriginFiles
<1> HIDE DEF idle
<1>8. Typed
  <2>1. \A p \in Path \cup Slot : File(p, TRUE) \in Files
    BY OriginFiles
  <2>2. disk \in [Place -> Files]
    BY <1>1, <1>5, <2>1, FileTypes
  <2> QED
    BY <1>2, <1>3, <2>2 DEF Typed
<1>9. \A r \in Redo : Outside(r)
  BY <1>4, <1>5, <1>6 DEF Outside, OutsidePc
<1>10. Courses /\ Undisturbed
  <2>1. \A t \in Track : TrackCourse(t)
    BY <1>4, <1>5 DEF TrackCourse, TrackPc
  <2> QED
    BY <1>2, <1>5, <1>9, <2>1 DEF Courses, RedoCourse, Undisturbed, RedoInv
<1>11. Met /\ PlacedFiles /\ LeftAlone
  BY <1>4, <1>5 DEF Met, Busy, PlacedFiles, LeftAlone
<1>12. AnnouncedFilesAreWhole
  <2>1. \A p \in Path : disk[p] = NoFile \/ Whole(p)
    <3>1. \A p \in Path : p \in Place /\ File(p, TRUE).whole
      BY <1>5, OriginFiles
    <3> QED
      BY <1>6, <3>1 DEF Whole
  <2> QED
    BY <1>4, <1>5, <2>1 DEF AnnouncedFilesAreWhole
<1>13. Homes
  <2> SUFFICES ASSUME NEW o \in Path \cup Slot PROVE Home(o)
    BY DEF Homes
  <2>1. \A p \in Path \ {o} : disk[p] # File(o, TRUE)
    BY <1>5, <1>7
  <2>2. \A r \in Redo : disk[r] # File(o, TRUE) /\ mutex # r
    BY <1>2, <1>5, <1>7
  <2>3. \A t \in Track : ~Active(t) /\ job[t].pc # "quarantine"
    BY <1>4, <1>5 DEF Active
  <2> QED
    BY <2>1, <2>2, <2>3 DEF Home
<1>14. OriginalSurvives
  BY <1>5, <1>6 DEF OriginalSurvives
<1> QED
  BY <1>8, <1>10, <1>11, <1>12, <1>13, <1>14 DEF PublicationInv

\* Every step keeps the invariant.
LEMMA PublicationNextInv == PublicationInv /\ [Next]_vars => PublicationInv'
<1> SUFFICES ASSUME PublicationInv, [Next]_vars PROVE PublicationInv'
  OBVIOUS
<1> QED
  BY CoursesNext, UndisturbedNext, PlacedNext, LeftAloneNext, AnnouncedNext, HomesNext,
     SurvivesNext
  DEF PublicationInv

\* Every reachable state satisfies the invariant, whatever the jobs share.
THEOREM PublicationInvariant == Spec => []PublicationInv
  BY PublicationInitInv, PublicationNextInv, PTL DEF Spec

\* Every place holds a file or none, every job is at a place of its code with
\* the names it may have, and only a YouTube job holds the publication mutex.
THEOREM PublicationTypeCorrect == Spec => [](Typed /\ Courses)
<1>1. PublicationInv => Typed /\ Courses
  BY DEF PublicationInv
<1> QED
  BY <1>1, PublicationInvariant, PTL

\* At every moment a whole copy of each suspicious file to be replaced is on
\* the disk, unless it is given up.
THEOREM OriginalsSurvive == Spec => []OriginalSurvives
<1>1. PublicationInv => OriginalSurvives
  BY DEF PublicationInv
<1> QED
  BY <1>1, PublicationInvariant, PTL

\* What DownloadTrack announced stays there, and whole, unless it is spoiled
\* or endangered.
THEOREM AnnouncedFilesStay == Spec => []AnnouncedFilesAreWhole
<1>1. PublicationInv => AnnouncedFilesAreWhole
  BY DEF PublicationInv
<1> QED
  BY <1>1, PublicationInvariant, PTL

\* A YouTube job that fails leaves the disk as it found it, or reports that it
\* could not, unless a track worked at its places.
THEOREM FailuresRestore == Spec => FailureRestores
<1>1. ASSUME PublicationInv, [Next]_vars, NEW r \in Redo,
             mutex = r, mutex' # r, job'[r].outcome = "failed", ~job'[r].broken,
             ~Disturbed(r)'
      PROVE  job[r].found = <<FileAt(Original[r])', disk'[Replacement[r]]>>
  <2>1. Typed /\ RedoInv(r)
    BY <1>1, StepsGrow, GrowsKeeps DEF PublicationInv, Undisturbed
  <2>2. Leaves(r)
    <3>1. CASE NobodySteps
      BY <1>1, <3>1 DEF NobodySteps
    <3>2. CASE \E t \in Track : TrackSteps(t)
      BY <1>1, <3>2 DEF TrackSteps, TrackShape
    <3>3. CASE \E x \in Redo : RedoSteps(x)
      <4> PICK x \in Redo : RedoSteps(x)
        BY <3>3
      <4>1. x = r
        BY <1>1 DEF RedoSteps, OthersWait
      <4> QED
        BY <1>1, <4>1 DEF RedoSteps, RedoShape, Waits, Locks, Looks, Puts, Moves, Replaces
    <3> QED
      BY <1>1, <3>1, <3>2, <3>3, Steps
  <2>3. disk' = disk /\ Untouched(r)
    BY <1>1, <2>1, <2>2 DEF Leaves, RedoInv, Holder, Leaving
  <2>4. job[r].found \in Files \X Files
    BY <2>1, RedoPlaces DEF Typed, Jobs
  <2>5. FileAt(Original[r])' = FileAt(Original[r])
    BY <2>3 DEF FileAt
  <2> QED
    BY <2>3, <2>4, <2>5 DEF Untouched, OriginalFound, DestinationFound
<1>2. PublicationInv /\ [Next]_vars =>
        [\A r \in Redo :
           (/\ mutex = r /\ mutex' # r
            /\ job'[r].outcome = "failed" /\ ~job'[r].broken /\ ~Disturbed(r)')
           => job[r].found = <<FileAt(Original[r])', disk'[Replacement[r]]>>]_vars
  BY <1>1
<1> QED
  BY <1>2, PublicationInvariant, PTL DEF Spec, FailureRestores

=============================================================================
