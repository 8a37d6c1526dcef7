-------------------------- MODULE DenoInstall_proofs --------------------------
(***************************************************************************)
(* Proofs about DenoInstall, for any number of processes, callers and      *)
(* releases, whichever of them run.                                        *)
(*                                                                         *)
(* The argument: the file lock lets one call at a time past it (OneInside),*)
(* so what a call knows of the executable and its backup stays true until  *)
(* it acts on it (At).  Before an executable is moved away the backup is   *)
(* absent or the executable runs; while the new one is validated the       *)
(* backup holds what a rollback needs (Keeps).  A crash changes no file,   *)
(* and each of these states is one recovery can start from.                *)
(***************************************************************************)
EXTENDS DenoInstall, TLAPS

\* The places of a call before the file lock, in the recovery and in the update.
Outside == {"idle", "process", "file"}
Recovery == {"recover", "judge", "restore", "confirm", "check"}
Update == {"fetch", "stage", "aside", "place", "validate"}
Release == 0 .. MaxRelease

\* Types.
InstallTypeOK ==
  /\ final \in Release /\ backup \in Release /\ marker \in BOOLEAN
  /\ offered \in 1 .. MaxRelease
  /\ processLock \in [Process -> Caller \cup {NoOne}]
  /\ fileLock \in Caller \cup {NoOne}
  /\ pc \in [Caller -> Outside \cup Recovery \cup Update]
  /\ stopped \subseteq Caller
  /\ current \in [Caller -> Release] /\ release \in [Caller -> Release]
  /\ hadCurrent \in [Caller -> BOOLEAN]
  /\ committed \in Release /\ misjudged \subseteq {"final", "backup"}

\* Nothing newer than the latest release is installed, reported or on its way.
Offered ==
  /\ final <= offered /\ backup <= offered /\ committed <= offered
  /\ \A c \in Caller : current[c] <= offered /\ release[c] <= offered

\* A call past the file lock holds it.
OneInside == \A c \in Caller : pc[c] \notin Outside => fileLock = c

\* File f is what CommittedStays asks of what recovery would settle on.
Keeps(f) ==
  committed # Absent =>
    /\ "backup" \notin misjudged => f \in Runnable
    /\ misjudged = {} => f >= committed

\* What a call knows of the files at its place in the code.
At(c) ==
  /\ pc[c] \in Outside \cup Recovery => current[c] = Absent
  /\ pc[c] \notin {"place", "validate"} => ~hadCurrent[c]
  /\ pc[c] = "judge" /\ final \in Runnable => "final" \in misjudged
  /\ pc[c] = "restore" => final \notin Runnable
  /\ pc[c] = "confirm" => backup = Absent
  /\ pc[c] \in {"check", "fetch", "stage", "aside"} => backup = Absent \/ final \in Runnable
  /\ pc[c] \in {"fetch", "stage", "aside"} /\ current[c] # Absent =>
       final = current[c] /\ final \in Runnable
  /\ pc[c] \in {"stage", "aside", "place", "validate"} =>
       committed <= release[c] /\ current[c] <= release[c]
  /\ pc[c] \in {"aside", "place", "validate"} => release[c] \in Runnable
  /\ pc[c] = "place" => final = Absent
  /\ pc[c] \in {"place", "validate"} =>
       IF hadCurrent[c] THEN current[c] # Absent => backup = current[c] /\ backup \in Runnable
       ELSE backup = Absent /\ current[c] = Absent
  /\ pc[c] = "validate" => final = release[c] /\ Keeps(backup)

\* The inductive invariant.
InstallInv ==
  InstallTypeOK /\ Offered /\ OneInside /\ (\A c \in Caller : At(c)) /\ CommittedStays

-----------------------------------------------------------------------------
\* A release that runs is one, and an absent file none.
LEMMA Releases ==
  /\ Absent \in Release /\ Absent \notin Runnable /\ Absent = 0
  /\ Runnable \subseteq Release /\ 1 .. MaxRelease \subseteq Release
  /\ Release \subseteq Nat /\ MaxRelease \in Nat
  BY ReleaseAssumption DEF Absent, Release

\* CommittedStays is about the file recovery would settle on.
LEMMA BestKeeps == CommittedStays <=> Keeps(Best)
  BY DEF CommittedStays, Keeps

\* What the end of calls D leaves of the callers and the locks.
LEMMA LeaveFields ==
  ASSUME InstallTypeOK, NEW D \in SUBSET Caller, Leave(D)
  PROVE  /\ pc' \in [Caller -> Outside \cup Recovery \cup Update]
         /\ stopped' \subseteq Caller
         /\ processLock' \in [Process -> Caller \cup {NoOne}]
         /\ fileLock' \in Caller \cup {NoOne}
         /\ current' \in [Caller -> Release] /\ release' \in [Caller -> Release]
         /\ hadCurrent' \in [Caller -> BOOLEAN]
         /\ \A k \in D : /\ pc'[k] = "idle" /\ current'[k] = Absent
                         /\ release'[k] = Absent /\ ~hadCurrent'[k]
         /\ \A k \in Caller \ D :
              /\ pc'[k] = pc[k] /\ current'[k] = current[k]
              /\ release'[k] = release[k] /\ hadCurrent'[k] = hadCurrent[k]
              /\ fileLock = k => fileLock' = k
<1>1. pc' \in [Caller -> Outside \cup Recovery \cup Update]
  BY DEF InstallTypeOK, Leave, Outside
<1>2. /\ stopped' \subseteq Caller
      /\ processLock' \in [Process -> Caller \cup {NoOne}]
      /\ fileLock' \in Caller \cup {NoOne}
  BY DEF InstallTypeOK, Leave
<1>3. current' \in [Caller -> Release] /\ release' \in [Caller -> Release]
  BY Releases DEF InstallTypeOK, Leave
<1>4. hadCurrent' \in [Caller -> BOOLEAN]
  BY DEF InstallTypeOK, Leave
<1>5. \A k \in Caller \ D : hadCurrent'[k] = hadCurrent[k]
  BY DEF InstallTypeOK, Leave
<1> QED
  BY <1>1, <1>2, <1>3, <1>4, <1>5 DEF Leave

\* A caller before the lock knows nothing of the files.
LEMMA OutsideAt ==
  ASSUME NEW c \in Caller, pc'[c] \in Outside, current'[c] = Absent, ~hadCurrent'[c]
  PROVE  At(c)'
  BY DEF At, Outside

\* The files stay those of published releases.
FilesOK ==
  /\ final' \in Release /\ final' <= offered
  /\ backup' \in Release /\ backup' <= offered
  /\ marker' \in BOOLEAN /\ offered' = offered
  /\ misjudged' \subseteq {"final", "backup"}

\* The call that holds the file lock is the only one past it.
LEMMA OnlyOne ==
  ASSUME InstallInv, NEW c \in Caller, pc[c] \notin Outside, NEW k \in Caller \ {c}
  PROVE  pc[k] \in Outside /\ current[k] = Absent /\ ~hadCurrent[k]
  BY DEF InstallInv, OneInside, At, Outside

\* A call that ends while nobody else is past the lock.
LEMMA LeavesInv ==
  ASSUME InstallInv, NEW c \in Caller, pc[c] \notin Outside, Leave({c}), FilesOK,
         committed' \in Release, committed' <= offered, CommittedStays'
  PROVE  InstallInv'
<1>1. InstallTypeOK /\ Offered
  BY DEF InstallInv
<1>2. /\ pc' \in [Caller -> Outside \cup Recovery \cup Update]
      /\ stopped' \subseteq Caller
      /\ processLock' \in [Process -> Caller \cup {NoOne}]
      /\ fileLock' \in Caller \cup {NoOne}
      /\ current' \in [Caller -> Release] /\ release' \in [Caller -> Release]
      /\ hadCurrent' \in [Caller -> BOOLEAN]
      /\ pc'[c] = "idle" /\ current'[c] = Absent /\ release'[c] = Absent
      /\ ~hadCurrent'[c]
      /\ \A k \in Caller \ {c} :
           /\ pc'[k] = pc[k] /\ current'[k] = current[k]
           /\ release'[k] = release[k] /\ hadCurrent'[k] = hadCurrent[k]
  BY <1>1, LeaveFields
<1>3. \A k \in Caller : pc'[k] \in Outside /\ current'[k] = Absent /\ ~hadCurrent'[k]
  BY <1>2, OnlyOne DEF Outside
<1>4. InstallTypeOK'
  BY <1>1, <1>2 DEF InstallTypeOK, FilesOK
<1>5. Offered'
  <2>1. 0 <= offered
    BY <1>1, Releases DEF InstallTypeOK
  <2> QED
    BY <1>1, <1>2, <2>1, Releases DEF Offered, FilesOK
<1> QED
  BY <1>3, <1>4, <1>5, OutsideAt DEF InstallInv, OneInside

\* A call that goes on past the lock.
LEMMA MovesInv ==
  ASSUME InstallInv, NEW c \in Caller, pc[c] \notin Outside, FilesOK,
         NEW place \in Recovery \cup Update, Moves(c, place),
         \A k \in Caller \ {c} : current'[k] = current[k] /\ release'[k] = release[k]
                                /\ hadCurrent'[k] = hadCurrent[k],
         current' \in [Caller -> Release], release' \in [Caller -> Release],
         hadCurrent' \in [Caller -> BOOLEAN],
         current'[c] <= offered, release'[c] <= offered,
         At(c)', CommittedStays'
  PROVE  InstallInv'
<1>1. InstallTypeOK /\ Offered /\ OneInside
  BY DEF InstallInv
<1>2. /\ pc' \in [Caller -> Outside \cup Recovery \cup Update]
      /\ pc'[c] = place /\ \A k \in Caller \ {c} : pc'[k] = pc[k]
      /\ UNCHANGED <<processLock, fileLock, stopped, committed>>
  BY <1>1 DEF InstallTypeOK, Moves, lockVars
<1>3. InstallTypeOK'
  BY <1>1, <1>2 DEF InstallTypeOK, FilesOK
<1>4. Offered'
  BY <1>1, <1>2 DEF Offered, FilesOK
<1>5. OneInside'
  BY <1>1, <1>2 DEF OneInside
<1>6. \A k \in Caller : At(k)'
  BY <1>2, OnlyOne, OutsideAt
<1> QED
  BY <1>3, <1>4, <1>5, <1>6 DEF InstallInv

\* Where the call of a step is, and what it knows.
LEMMA Facts ==
  ASSUME InstallInv, NEW c \in Caller
  PROVE  /\ InstallTypeOK /\ Offered /\ At(c) /\ CommittedStays
         /\ final \in Release /\ backup \in Release /\ committed \in Release
         /\ final <= offered /\ backup <= offered /\ committed <= offered
         /\ current[c] \in Release /\ release[c] \in Release /\ hadCurrent[c] \in BOOLEAN
         /\ current[c] <= offered /\ release[c] <= offered
         /\ offered \in 1 .. MaxRelease /\ marker \in BOOLEAN
         /\ misjudged \subseteq {"final", "backup"}
         /\ final \in Nat /\ backup \in Nat /\ committed \in Nat /\ offered \in Nat
         /\ current[c] \in Nat /\ release[c] \in Nat
  BY Releases DEF InstallInv, InstallTypeOK, Offered

\* A call that goes on with what it found so far.
LEMMA GotoInv ==
  ASSUME InstallInv, NEW c \in Caller, pc[c] \notin Outside, FilesOK,
         NEW place \in Recovery \cup Update, Goto(c, place),
         pc'[c] = place /\ current'[c] = current[c] /\ release'[c] = release[c]
           /\ hadCurrent'[c] = hadCurrent[c] => At(c)',
         CommittedStays'
  PROVE  InstallInv'
<1>1. /\ Moves(c, place) /\ current' = current /\ release' = release
      /\ hadCurrent' = hadCurrent
  BY DEF Goto, workVars
<1>2. pc'[c] = place
  BY <1>1, Facts DEF Moves, InstallTypeOK
<1>3. /\ current \in [Caller -> Release] /\ release \in [Caller -> Release]
      /\ hadCurrent \in [Caller -> BOOLEAN]
      /\ current[c] <= offered /\ release[c] <= offered
  BY Facts DEF InstallTypeOK
<1> QED
  BY <1>1, <1>2, <1>3, MovesInv

\* Recovery looks at the backup, and at the executable beside one.
LEMMA RecoversInv ==
  ASSUME InstallInv, NEW c \in Caller, Recovers(c), UNCHANGED offered
  PROVE  InstallInv'
<1> USE Facts, Releases
<1>1. /\ pc[c] = "recover" /\ pc[c] \notin Outside /\ UNCHANGED <<final, marker>>
      /\ current[c] = Absent /\ ~hadCurrent[c]
  BY DEF Recovers, Outside, At, Recovery
<1>2. CASE Fails(c) /\ UNCHANGED <<backup, misjudged>>
  <2>1. Leave({c}) /\ committed' = committed /\ FilesOK
    BY <1>1, <1>2 DEF Fails, FilesOK
  <2>2. CommittedStays'
    BY <1>1, <1>2, <2>1 DEF CommittedStays, Best
  <2> QED
    BY <1>1, <2>1, <2>2, LeavesInv
<1>3. CASE Goto(c, "check") /\ backup' \in {Absent, backup} /\ UNCHANGED misjudged
           /\ (backup = Absent \/ final \in Runnable)
  <2>1. FilesOK /\ committed' = committed
    BY <1>1, <1>3 DEF FilesOK, Goto, Moves
  <2>2. CommittedStays'
    BY <1>1, <1>3, <2>1 DEF CommittedStays, Best
  <2>3. ASSUME pc'[c] = "check", current'[c] = current[c], hadCurrent'[c] = hadCurrent[c]
        PROVE  At(c)'
    BY <1>1, <1>3, <2>3 DEF At
  <2>4. "check" \in Recovery
    BY DEF Recovery
  <2> QED
    BY <1>1, <1>3, <2>1, <2>2, <2>3, <2>4, GotoInv
<1>4. CASE /\ misjudged' = misjudged \cup (IF final \in Runnable THEN {"final"} ELSE {})
           /\ Goto(c, "judge") /\ UNCHANGED backup
  <2>1. FilesOK /\ committed' = committed
    BY <1>1, <1>4 DEF FilesOK, Goto, Moves
  <2>2. CommittedStays'
    BY <1>1, <1>4, <2>1 DEF CommittedStays, Best
  <2>3. ASSUME pc'[c] = "judge", current'[c] = current[c], hadCurrent'[c] = hadCurrent[c]
        PROVE  At(c)'
    BY <1>1, <1>4, <2>3 DEF At
  <2>4. "judge" \in Recovery
    BY DEF Recovery
  <2> QED
    BY <1>1, <1>4, <2>1, <2>2, <2>3, <2>4, GotoInv
<1> QED
  BY <1>1, <1>2, <1>3, <1>4 DEF Recovers, Passes

\* A backup is removed, or the executable for one that runs.
LEMMA JudgesInv ==
  ASSUME InstallInv, NEW c \in Caller, JudgesBackup(c), UNCHANGED offered
  PROVE  InstallInv'
<1> USE Facts, Releases
<1>1. /\ pc[c] = "judge" /\ pc[c] \notin Outside /\ UNCHANGED marker
      /\ current[c] = Absent /\ ~hadCurrent[c]
      /\ final \in Runnable => "final" \in misjudged
  BY DEF JudgesBackup, Outside, At, Recovery
<1>2. CASE Fails(c) /\ UNCHANGED <<final, backup, misjudged>>
  <2>1. Leave({c}) /\ committed' = committed /\ FilesOK
    BY <1>1, <1>2 DEF Fails, FilesOK
  <2>2. CommittedStays'
    BY <1>1, <1>2, <2>1 DEF CommittedStays, Best
  <2> QED
    BY <1>1, <2>1, <2>2, LeavesInv
<1>3. CASE /\ misjudged' = misjudged \cup (IF backup \in Runnable THEN {"backup"} ELSE {})
           /\ backup' = Absent /\ Goto(c, "check") /\ UNCHANGED final
  <2>1. FilesOK /\ committed' = committed
    BY <1>1, <1>3 DEF FilesOK, Goto, Moves
  <2>2. CommittedStays'
    BY <1>1, <1>3, <2>1 DEF CommittedStays, Best
  <2>3. ASSUME pc'[c] = "check", current'[c] = current[c], hadCurrent'[c] = hadCurrent[c]
        PROVE  At(c)'
    BY <1>1, <1>3, <2>3 DEF At
  <2>4. "check" \in Recovery
    BY DEF Recovery
  <2> QED
    BY <1>1, <1>3, <2>1, <2>2, <2>3, <2>4, GotoInv
<1>4. CASE /\ backup \in Runnable /\ final' = Absent
           /\ Goto(c, "restore") /\ UNCHANGED <<backup, misjudged>>
  <2>1. FilesOK /\ committed' = committed
    BY <1>1, <1>4 DEF FilesOK, Goto, Moves
  <2>2. CommittedStays'
    BY <1>1, <1>4, <2>1 DEF CommittedStays, Best
  <2>3. ASSUME pc'[c] = "restore", current'[c] = current[c], hadCurrent'[c] = hadCurrent[c]
        PROVE  At(c)'
    BY <1>1, <1>4, <2>3 DEF At
  <2>4. "restore" \in Recovery
    BY DEF Recovery
  <2> QED
    BY <1>1, <1>4, <2>1, <2>2, <2>3, <2>4, GotoInv
<1> QED
  BY <1>1, <1>2, <1>3, <1>4 DEF JudgesBackup, Passes

\* The backup becomes the executable.
LEMMA RestoresInv ==
  ASSUME InstallInv, NEW c \in Caller, Restores(c), UNCHANGED offered
  PROVE  InstallInv'
<1> USE Facts, Releases
<1>1. /\ pc[c] = "restore" /\ pc[c] \notin Outside /\ UNCHANGED misjudged
      /\ current[c] = Absent /\ ~hadCurrent[c] /\ final \notin Runnable
  BY DEF Restores, Outside, At, Recovery
<1>2. CASE Fails(c) /\ UNCHANGED diskVars
  <2>1. Leave({c}) /\ committed' = committed /\ FilesOK /\ UNCHANGED <<final, backup>>
    BY <1>1, <1>2 DEF Fails, FilesOK, diskVars
  <2>2. CommittedStays'
    BY <1>1, <2>1 DEF CommittedStays, Best
  <2> QED
    BY <1>1, <2>1, <2>2, LeavesInv
<1>3. CASE final' = backup /\ backup' = Absent /\ Goto(c, "confirm") /\ UNCHANGED marker
  <2>1. FilesOK /\ committed' = committed
    BY <1>1, <1>3 DEF FilesOK, Goto, Moves
  <2>2. CommittedStays'
    BY <1>1, <1>3, <2>1 DEF CommittedStays, Best
  <2>3. ASSUME pc'[c] = "confirm", current'[c] = current[c], hadCurrent'[c] = hadCurrent[c]
        PROVE  At(c)'
    BY <1>1, <1>3, <2>3 DEF At
  <2>4. "confirm" \in Recovery
    BY DEF Recovery
  <2> QED
    BY <1>1, <1>3, <2>1, <2>2, <2>3, <2>4, GotoInv
<1> QED
  BY <1>2, <1>3 DEF Restores

\* What does not run after it was restored becomes the backup again.
LEMMA ConfirmsInv ==
  ASSUME InstallInv, NEW c \in Caller, Confirms(c), UNCHANGED offered
  PROVE  InstallInv'
<1> USE Facts, Releases
<1>1. /\ pc[c] = "confirm" /\ pc[c] \notin Outside /\ UNCHANGED <<marker, misjudged>>
      /\ current[c] = Absent /\ ~hadCurrent[c] /\ backup = Absent
  BY DEF Confirms, Outside, At, Recovery
<1>2. CASE /\ Fails(c)
           /\ \/ final' = Absent /\ backup' = final
              \/ UNCHANGED <<final, backup>>
  <2>1. Leave({c}) /\ committed' = committed /\ FilesOK
    BY <1>1, <1>2 DEF Fails, FilesOK
  <2>2. CommittedStays'
    BY <1>1, <1>2, <2>1 DEF CommittedStays, Best
  <2> QED
    BY <1>1, <2>1, <2>2, LeavesInv
<1>3. CASE Passes(c, final) /\ Goto(c, "check") /\ UNCHANGED <<final, backup>>
  <2>1. FilesOK /\ committed' = committed
    BY <1>1, <1>3 DEF FilesOK, Goto, Moves
  <2>2. CommittedStays'
    BY <1>1, <1>3, <2>1 DEF CommittedStays, Best
  <2>3. ASSUME pc'[c] = "check", current'[c] = current[c], hadCurrent'[c] = hadCurrent[c]
        PROVE  At(c)'
    BY <1>1, <1>3, <2>3 DEF At
  <2>4. "check" \in Recovery
    BY DEF Recovery
  <2> QED
    BY <1>1, <1>3, <2>1, <2>2, <2>3, <2>4, GotoInv
<1> QED
  BY <1>2, <1>3 DEF Confirms

\* What the end of a failed update reports is installed.
LEMMA UpdateFailsInv ==
  ASSUME InstallInv, NEW c \in Caller, NEW b \in BOOLEAN, pc[c] \notin Outside,
         UpdateFails(c, b), FilesOK, misjudged' = misjudged, Keeps(Best'),
         current[c] # Absent => Best' \in Runnable /\ Best' >= current[c]
  PROVE  InstallInv'
<1> USE Facts, Releases
<1>1. Leave({c}) /\ (committed' = committed \/
                     (current[c] # Absent /\ committed' = current[c]))
  BY DEF UpdateFails, Reports, Fails
<1>2. CommittedStays'
  BY <1>1 DEF CommittedStays, Keeps
<1> QED
  BY <1>1, <1>2, LeavesInv

\* What is installed is reported or noted.
LEMMA ChecksInv ==
  ASSUME InstallInv, NEW c \in Caller, Checks(c), UNCHANGED offered
  PROVE  InstallInv'
<1> USE Facts, Releases
<1>1. /\ pc[c] = "check" /\ pc[c] \notin Outside /\ UNCHANGED <<diskVars, misjudged>>
      /\ current[c] = Absent /\ ~hadCurrent[c] /\ (backup = Absent \/ final \in Runnable)
      /\ UNCHANGED <<final, backup, marker>>
  BY DEF Checks, Outside, At, Recovery, diskVars
<1>2. FilesOK
  BY <1>1 DEF FilesOK
<1>3. CASE Fails(c)
  <2>1. Leave({c}) /\ committed' = committed
    BY <1>3 DEF Fails
  <2>2. CommittedStays'
    BY <1>1, <2>1 DEF CommittedStays, Best
  <2> QED
    BY <1>1, <1>2, <2>1, <2>2, LeavesInv
<1>4. CASE final \in Runnable /\ Reports(c, final)
  <2>1. Leave({c}) /\ committed' = final
    BY <1>4 DEF Reports
  <2>2. CommittedStays'
    BY <1>1, <1>4, <2>1 DEF CommittedStays, Best
  <2> QED
    BY <1>1, <1>2, <2>1, <2>2, LeavesInv
<1>5. CASE /\ \/ UNCHANGED current
              \/ final \in Runnable /\ current' = [current EXCEPT ![c] = final]
           /\ Moves(c, "fetch") /\ UNCHANGED <<release, hadCurrent>>
  <2>1. /\ current' \in [Caller -> Release] /\ current'[c] <= offered
        /\ \A k \in Caller \ {c} : current'[k] = current[k]
        /\ current'[c] = Absent \/ (final \in Runnable /\ current'[c] = final)
        /\ release \in [Caller -> Release] /\ hadCurrent \in [Caller -> BOOLEAN]
    BY <1>1, <1>5 DEF InstallTypeOK
  <2>2. CommittedStays' /\ pc'[c] = "fetch"
    BY <1>1, <1>5 DEF CommittedStays, Best, Moves, InstallTypeOK
  <2>3. At(c)'
    BY <1>1, <1>5, <2>1, <2>2 DEF At, Outside, Recovery
  <2>4. "fetch" \in Update
    BY DEF Update
  <2> QED
    BY <1>1, <1>2, <1>5, <2>1, <2>2, <2>3, <2>4, MovesInv
<1> QED
  BY <1>3, <1>4, <1>5 DEF Checks, Passes

\* What is up to date is reported; else the latest release is the next.
LEMMA FetchesInv ==
  ASSUME InstallInv, NEW c \in Caller, Fetches(c), UNCHANGED offered
  PROVE  InstallInv'
<1> USE Facts, Releases
<1>1. /\ pc[c] = "fetch" /\ pc[c] \notin Outside /\ UNCHANGED <<final, backup, misjudged>>
      /\ ~hadCurrent[c] /\ (backup = Absent \/ final \in Runnable)
      /\ current[c] # Absent => final = current[c] /\ final \in Runnable
  BY DEF Fetches, Outside, At
<1>2. marker' \in BOOLEAN => FilesOK
  BY <1>1 DEF FilesOK
<1>3. Keeps(Best')
  BY <1>1, BestKeeps DEF Best
<1>4. CASE RequestFails(c) /\ UNCHANGED marker
  <2>1. PICK b \in BOOLEAN : UpdateFails(c, b)
    BY <1>4 DEF RequestFails
  <2>2. FilesOK
    BY <1>2, <1>4
  <2>3. current[c] # Absent => Best' \in Runnable /\ Best' >= current[c]
    BY <1>1 DEF Best
  <2> QED
    BY <1>1, <1>3, <2>1, <2>2, <2>3, UpdateFailsInv
<1>5. CASE current[c] = offered /\ marker' \in {TRUE, marker} /\ Reports(c, offered)
  <2>1. Leave({c}) /\ committed' = offered /\ FilesOK
    BY <1>2, <1>5 DEF Reports
  <2>2. CommittedStays'
    BY <1>1, <1>5, <2>1 DEF CommittedStays, Best
  <2> QED
    BY <1>1, <2>1, <2>2, LeavesInv
<1>6. CASE /\ release' = [release EXCEPT ![c] = offered]
           /\ Moves(c, "stage") /\ UNCHANGED <<marker, current, hadCurrent>>
  <2>1. /\ release' \in [Caller -> Release] /\ release'[c] = offered
        /\ \A k \in Caller \ {c} : release'[k] = release[k]
        /\ current \in [Caller -> Release] /\ hadCurrent \in [Caller -> BOOLEAN]
        /\ FilesOK
    BY <1>2, <1>6 DEF InstallTypeOK
  <2>2. CommittedStays' /\ pc'[c] = "stage" /\ committed' = committed
    BY <1>1, <1>6 DEF CommittedStays, Best, Moves, InstallTypeOK
  <2>3. At(c)'
    BY <1>1, <1>6, <2>1, <2>2 DEF At, Outside, Recovery
  <2>4. "stage" \in Update /\ offered <= offered
    BY DEF Update
  <2> QED
    BY <1>1, <1>6, <2>1, <2>2, <2>3, <2>4, MovesInv
<1> QED
  BY <1>4, <1>5, <1>6 DEF Fetches

\* The release runs where it was downloaded.
LEMMA StagesInv ==
  ASSUME InstallInv, NEW c \in Caller, Stages(c), UNCHANGED offered
  PROVE  InstallInv'
<1> USE Facts, Releases
<1>1. /\ pc[c] = "stage" /\ pc[c] \notin Outside
      /\ UNCHANGED <<final, backup, marker, misjudged>>
      /\ ~hadCurrent[c] /\ (backup = Absent \/ final \in Runnable)
      /\ current[c] # Absent => final = current[c] /\ final \in Runnable
      /\ committed <= release[c] /\ current[c] <= release[c]
  BY DEF Stages, Outside, At, diskVars
<1>2. FilesOK /\ Keeps(Best')
  BY <1>1, BestKeeps DEF FilesOK, Best
<1>3. CASE RequestFails(c)
  <2>1. PICK b \in BOOLEAN : UpdateFails(c, b)
    BY <1>3 DEF RequestFails
  <2>2. current[c] # Absent => Best' \in Runnable /\ Best' >= current[c]
    BY <1>1 DEF Best
  <2> QED
    BY <1>1, <1>2, <2>1, <2>2, UpdateFailsInv
<1>4. CASE Passes(c, release[c]) /\ Goto(c, "aside")
  <2>1. committed' = committed
    BY <1>4 DEF Goto, Moves
  <2>2. CommittedStays'
    BY <1>1, <2>1 DEF CommittedStays, Best
  <2>3. ASSUME pc'[c] = "aside", current'[c] = current[c], release'[c] = release[c],
               hadCurrent'[c] = hadCurrent[c]
        PROVE  At(c)'
    BY <1>1, <1>4, <2>1, <2>3 DEF At, Outside, Recovery, Passes
  <2>4. "aside" \in Update
    BY DEF Update
  <2> QED
    BY <1>1, <1>2, <1>4, <2>2, <2>3, <2>4, GotoInv
<1> QED
  BY <1>3, <1>4 DEF Stages

\* A stale backup is removed beside an executable that runs only; then the
\* executable becomes the backup.
LEMMA AsideInv ==
  ASSUME InstallInv, NEW c \in Caller, MovesAside(c), UNCHANGED offered
  PROVE  InstallInv'
<1> USE Facts, Releases
<1>1. /\ pc[c] = "aside" /\ pc[c] \notin Outside /\ UNCHANGED <<marker, misjudged>>
      /\ ~hadCurrent[c] /\ (backup = Absent \/ final \in Runnable)
      /\ current[c] # Absent => final = current[c] /\ final \in Runnable
      /\ committed <= release[c] /\ current[c] <= release[c] /\ release[c] \in Runnable
  BY DEF MovesAside, Outside, At
<1>2. CASE UpdateFails(c, FALSE) /\ UNCHANGED <<final, backup>>
  <2>1. FilesOK /\ Keeps(Best')
    BY <1>1, <1>2, BestKeeps DEF FilesOK, Best
  <2>2. current[c] # Absent => Best' \in Runnable /\ Best' >= current[c]
    BY <1>1, <1>2 DEF Best
  <2> QED
    BY <1>1, <1>2, <2>1, <2>2, UpdateFailsInv
<1>3. CASE /\ final # Absent /\ backup # Absent
           /\ backup' = Absent /\ Goto(c, "aside") /\ UNCHANGED final
  <2>1. FilesOK /\ committed' = committed
    BY <1>1, <1>3 DEF FilesOK, Goto, Moves
  <2>2. CommittedStays'
    BY <1>1, <1>3, <2>1 DEF CommittedStays, Best
  <2>3. ASSUME pc'[c] = "aside", current'[c] = current[c], release'[c] = release[c],
               hadCurrent'[c] = hadCurrent[c]
        PROVE  At(c)'
    BY <1>1, <1>3, <2>1, <2>3 DEF At, Outside, Recovery
  <2>4. "aside" \in Update
    BY DEF Update
  <2> QED
    BY <1>1, <1>3, <2>1, <2>2, <2>3, <2>4, GotoInv
<1>4. CASE /\ final # Absent /\ backup = Absent
           /\ backup' = final /\ final' = Absent
           /\ hadCurrent' = [hadCurrent EXCEPT ![c] = TRUE]
           /\ Moves(c, "place") /\ UNCHANGED <<current, release>>
  <2>1. /\ hadCurrent' \in [Caller -> BOOLEAN] /\ hadCurrent'[c]
        /\ \A k \in Caller \ {c} : hadCurrent'[k] = hadCurrent[k]
        /\ current \in [Caller -> Release] /\ release \in [Caller -> Release]
    BY <1>4 DEF InstallTypeOK
  <2>2. pc'[c] = "place" /\ committed' = committed /\ FilesOK
    BY <1>1, <1>4 DEF Moves, InstallTypeOK, FilesOK
  <2>3. CommittedStays'
    BY <1>1, <1>4, <2>2 DEF CommittedStays, Best
  <2>4. At(c)'
    BY <1>1, <1>4, <2>1, <2>2 DEF At, Outside, Recovery
  <2>5. "place" \in Update
    BY DEF Update
  <2> QED
    BY <1>1, <1>4, <2>1, <2>2, <2>3, <2>4, <2>5, MovesInv
<1>5. CASE final = Absent /\ Goto(c, "place") /\ UNCHANGED <<final, backup>>
  <2>1. FilesOK /\ committed' = committed
    BY <1>1, <1>5 DEF FilesOK, Goto, Moves
  <2>2. CommittedStays'
    BY <1>1, <1>5, <2>1 DEF CommittedStays, Best
  <2>3. ASSUME pc'[c] = "place", current'[c] = current[c], release'[c] = release[c],
               hadCurrent'[c] = hadCurrent[c]
        PROVE  At(c)'
    BY <1>1, <1>5, <2>1, <2>3 DEF At, Outside, Recovery
  <2>4. "place" \in Update
    BY DEF Update
  <2> QED
    BY <1>1, <1>5, <2>1, <2>2, <2>3, <2>4, GotoInv
<1> QED
  BY <1>2, <1>3, <1>4, <1>5 DEF MovesAside

\* The new executable is put in place, or the backup returns.
LEMMA PutsInv ==
  ASSUME InstallInv, NEW c \in Caller, PutsInPlace(c), UNCHANGED offered
  PROVE  InstallInv'
<1> USE Facts, Releases
<1>1. /\ pc[c] = "place" /\ pc[c] \notin Outside /\ UNCHANGED <<marker, misjudged>>
      /\ committed <= release[c] /\ current[c] <= release[c] /\ release[c] \in Runnable
      /\ final = Absent
      /\ IF hadCurrent[c] THEN current[c] # Absent => backup = current[c] /\ backup \in Runnable
         ELSE backup = Absent /\ current[c] = Absent
  BY DEF PutsInPlace, Outside, At
<1>2. Keeps(backup)
  BY <1>1, BestKeeps DEF Best
<1>3. CASE RollsBack(c) /\ UpdateFails(c, FALSE)
  <2>1. \/ final' = backup /\ backup' = Absent
        \/ final' = Absent /\ backup' = backup
    BY <1>1, <1>3 DEF RollsBack
  <2>2. FilesOK /\ Keeps(Best')
    BY <1>1, <1>2, <2>1 DEF FilesOK, Best, Keeps
  <2>3. current[c] # Absent => Best' \in Runnable /\ Best' >= current[c]
    BY <1>1, <2>1 DEF Best
  <2> QED
    BY <1>1, <1>3, <2>2, <2>3, UpdateFailsInv
<1>4. CASE final' = release[c] /\ Goto(c, "validate") /\ UNCHANGED backup
  <2>1. FilesOK /\ committed' = committed
    BY <1>1, <1>4 DEF FilesOK, Goto, Moves
  <2>2. CommittedStays'
    BY <1>1, <1>4, <2>1 DEF CommittedStays, Best
  <2>3. ASSUME pc'[c] = "validate", current'[c] = current[c], release'[c] = release[c],
               hadCurrent'[c] = hadCurrent[c]
        PROVE  At(c)'
    BY <1>1, <1>2, <1>4, <2>1, <2>3 DEF At, Outside, Recovery, Keeps
  <2>4. "validate" \in Update
    BY DEF Update
  <2> QED
    BY <1>1, <1>4, <2>1, <2>2, <2>3, <2>4, GotoInv
<1> QED
  BY <1>3, <1>4 DEF PutsInPlace

\* The update is committed, or rolled back.
LEMMA ValidatesInv ==
  ASSUME InstallInv, NEW c \in Caller, Validates(c), UNCHANGED offered
  PROVE  InstallInv'
<1> USE Facts, Releases
<1>1. /\ pc[c] = "validate" /\ pc[c] \notin Outside /\ UNCHANGED misjudged
      /\ committed <= release[c] /\ current[c] <= release[c] /\ release[c] \in Runnable
      /\ final = release[c] /\ Keeps(backup)
      /\ IF hadCurrent[c] THEN current[c] # Absent => backup = current[c] /\ backup \in Runnable
         ELSE backup = Absent /\ current[c] = Absent
  BY DEF Validates, Outside, At
<1>2. CASE /\ backup' \in {Absent, backup} /\ marker' \in {TRUE, marker}
           /\ Reports(c, release[c]) /\ UNCHANGED final
  <2>1. Leave({c}) /\ committed' = release[c] /\ FilesOK
    <3>1. marker' \in BOOLEAN
      BY <1>2
    <3>2. backup' \in Release /\ backup' <= offered
      BY <1>2
    <3> QED
      BY <1>1, <1>2, <3>1, <3>2 DEF Reports, FilesOK
  <2>2. CommittedStays'
    BY <1>1, <1>2, <2>1 DEF CommittedStays, Best
  <2> QED
    BY <1>1, <2>1, <2>2, LeavesInv
<1>3. CASE RollsBack(c) /\ UpdateFails(c, c \in stopped) /\ UNCHANGED marker
  <2>1. \/ final' = backup /\ backup' = Absent
        \/ final' \in {Absent, final} /\ backup' = backup
    BY <1>1, <1>3 DEF RollsBack
  <2>2. FilesOK
    BY <1>1, <1>3, <2>1 DEF FilesOK
  <2>3. Keeps(Best')
    BY <1>1, <2>1 DEF Best, Keeps
  <2>4. current[c] # Absent => Best' \in Runnable /\ Best' >= current[c]
    BY <1>1, <2>1 DEF Best
  <2>5. CASE c \in stopped
    <3>1. UpdateFails(c, TRUE)
      BY <1>3, <2>5 DEF UpdateFails
    <3> QED
      BY <1>1, <2>2, <2>3, <2>4, <3>1, UpdateFailsInv
  <2>6. CASE c \notin stopped
    <3>1. UpdateFails(c, FALSE)
      BY <1>3, <2>6 DEF UpdateFails
    <3> QED
      BY <1>1, <2>2, <2>3, <2>4, <3>1, UpdateFailsInv
  <2> QED
    BY <2>5, <2>6
<1> QED
  BY <1>2, <1>3 DEF Validates

\* A call that waits for a lock, gives up or asks anew touches no file.
LEMMA WaitsInv ==
  ASSUME InstallInv, NEW c \in Caller, UNCHANGED <<diskVars, offered, misjudged>>,
         Ensure(c) \/ EntersProcess(c) \/ LocksFile(c) \/ GivesUp(c)
  PROVE  InstallInv'
<1> USE Facts, Releases
<1>1. /\ UNCHANGED <<final, backup, marker, committed>>
      /\ InstallTypeOK /\ Offered /\ OneInside /\ \A k \in Caller : At(k)
      /\ pc[c] \in Outside
  BY DEF Ensure, EntersProcess, LocksFile, GivesUp, Goto, Moves, Fails, diskVars, Outside,
         InstallInv
<1>2. current[c] = Absent /\ ~hadCurrent[c]
  BY <1>1 DEF At, Outside
<1>3. CommittedStays'
  BY <1>1 DEF CommittedStays, Best
<1>4. CASE Ensure(c) \/ EntersProcess(c) \/ LocksFile(c)
  <2>1. PICK place \in {"process", "file", "recover"} :
          /\ pc' = [pc EXCEPT ![c] = place] /\ UNCHANGED <<stopped, workVars>>
          /\ IF place = "recover" THEN fileLock = NoOne /\ fileLock' = c
             ELSE UNCHANGED fileLock
          /\ processLock' \in [Process -> Caller \cup {NoOne}]
    BY <1>1, <1>4 DEF Ensure, EntersProcess, LocksFile, Goto, Moves, lockVars,
      InstallTypeOK
  <2>2. /\ pc' \in [Caller -> Outside \cup Recovery \cup Update] /\ pc'[c] = place
        /\ \A k \in Caller \ {c} : pc'[k] = pc[k]
        /\ UNCHANGED <<current, release, hadCurrent>>
    BY <1>1, <2>1 DEF InstallTypeOK, Outside, Recovery, workVars
  <2>3. InstallTypeOK' /\ Offered'
    <3>1. fileLock' \in Caller \cup {NoOne}
      BY <1>1, <2>1 DEF InstallTypeOK
    <3> QED
      BY <1>1, <2>1, <2>2, <3>1 DEF InstallTypeOK, Offered
  <2>4. OneInside'
    BY <1>1, <2>1, <2>2, CallerAssumption DEF OneInside, Outside
  <2>5. At(c)'
    BY <1>2, <2>1, <2>2 DEF At, Outside
  <2>6. ASSUME NEW k \in Caller \ {c} PROVE At(k)'
    BY <1>1, <2>2 DEF At, Keeps
  <2> QED
    BY <1>3, <2>3, <2>4, <2>5, <2>6 DEF InstallInv
<1>5. CASE GivesUp(c)
  <2>1. Leave({c})
    BY <1>5 DEF GivesUp, Fails
  <2>2. InstallTypeOK' /\ Offered'
    BY <1>1, <2>1, LeaveFields DEF InstallTypeOK, Offered
  <2>3. OneInside'
    BY <1>1, <2>1, LeaveFields DEF OneInside, Outside
  <2>4. ASSUME NEW k \in Caller PROVE At(k)'
    <3>1. CASE k = c
      BY <1>1, <2>1, <3>1, LeaveFields, OutsideAt DEF Outside
    <3>2. CASE k # c
      BY <1>1, <2>1, <3>2, LeaveFields DEF At, Keeps
    <3> QED
      BY <3>1, <3>2
  <2> QED
    BY <1>3, <2>2, <2>3, <2>4 DEF InstallInv
<1> QED
  BY <1>4, <1>5

\* A crash ends the calls of a process and changes no file.
LEMMA CrashInv ==
  ASSUME InstallInv, NEW p \in Process, Crash(p)
  PROVE  InstallInv'
<1> DEFINE D == {c \in Caller : Home[c] = p}
<1>1. /\ D \in SUBSET Caller /\ Leave(D)
      /\ UNCHANGED <<final, backup, marker, offered, committed, misjudged>>
      /\ InstallTypeOK /\ Offered /\ OneInside /\ CommittedStays
      /\ \A k \in Caller : At(k)
  BY DEF Crash, diskVars, InstallInv
<1> HIDE DEF D
<1>2. InstallTypeOK'
  BY <1>1, LeaveFields DEF InstallTypeOK
<1>3. Offered'
  <2>1. Absent <= offered
    BY <1>1, Releases DEF InstallTypeOK
  <2>2. ASSUME NEW k \in Caller PROVE current'[k] <= offered /\ release'[k] <= offered
    <3>1. CASE k \in D
      BY <1>1, <2>1, <3>1, LeaveFields
    <3>2. CASE k \notin D
      BY <1>1, <3>2, LeaveFields DEF Offered
    <3> QED
      BY <3>1, <3>2
  <2> QED
    BY <1>1, <2>2 DEF Offered
<1>4. OneInside'
  BY <1>1, LeaveFields DEF OneInside, Outside
<1>5. ASSUME NEW k \in Caller PROVE At(k)'
  <2>1. CASE k \in D
    BY <1>1, <2>1, LeaveFields, OutsideAt DEF Outside
  <2>2. CASE k \notin D
    BY <1>1, <2>2, LeaveFields DEF At, Keeps
  <2> QED
    BY <2>1, <2>2
<1>6. CommittedStays'
  BY <1>1 DEF CommittedStays, Best
<1> QED
  BY <1>2, <1>3, <1>4, <1>5, <1>6 DEF InstallInv

\* A stop, a release and the passing of a day change no executable.
LEMMA WorldInv ==
  ASSUME InstallInv, (\E c \in Caller : Stop(c)) \/ Publish \/ DayPasses \/ UNCHANGED vars
  PROVE  InstallInv'
<1>1. /\ UNCHANGED <<final, backup, lockVars, pc, workVars, committed, misjudged>>
      /\ marker' = FALSE \/ marker' = marker
      /\ offered' = offered \/ (offered < MaxRelease /\ offered' = offered + 1)
      /\ stopped' = stopped \/ \E c \in Caller : stopped' = stopped \cup {c}
      /\ InstallTypeOK /\ Offered /\ OneInside /\ CommittedStays
      /\ \A k \in Caller : At(k)
  BY DEF Stop, Publish, DayPasses, vars, diskVars, InstallInv
<1>2. offered' \in 1 .. MaxRelease /\ offered <= offered'
  BY <1>1, Releases DEF InstallTypeOK
<1>3. InstallTypeOK'
  <2>1. marker' \in BOOLEAN /\ stopped' \subseteq Caller
    BY <1>1 DEF InstallTypeOK
  <2> QED
    BY <1>1, <1>2, <2>1 DEF InstallTypeOK, lockVars, workVars
<1>4. Offered'
  <2>1. ASSUME NEW n \in Release, n <= offered PROVE n <= offered'
    <3>1. n \in Nat /\ offered \in Nat /\ offered' \in Nat
      BY <1>1, <1>2, Releases DEF InstallTypeOK
    <3> QED
      BY <1>2, <2>1, <3>1
  <2>2. ASSUME NEW k \in Caller
        PROVE  current[k] <= offered' /\ release[k] <= offered'
    <3>1. /\ current[k] \in Release /\ current[k] <= offered
          /\ release[k] \in Release /\ release[k] <= offered
      BY <1>1 DEF InstallTypeOK, Offered
    <3> QED
      BY <2>1, <3>1
  <2>3. final <= offered' /\ backup <= offered' /\ committed <= offered'
    BY <1>1, <2>1 DEF InstallTypeOK, Offered
  <2> QED
    BY <1>1, <2>2, <2>3 DEF Offered, workVars
<1>5. OneInside'
  BY <1>1 DEF OneInside, lockVars
<1>6. ASSUME NEW k \in Caller PROVE At(k)'
  BY <1>1 DEF At, Keeps, workVars
<1>7. CommittedStays'
  BY <1>1 DEF CommittedStays, Best
<1> QED
  BY <1>3, <1>4, <1>5, <1>6, <1>7 DEF InstallInv

\* Initially nothing was reported and nobody calls.
LEMMA InstallInitInv == Init => InstallInv
<1> SUFFICES ASSUME Init PROVE InstallInv
  OBVIOUS
<1>1. InstallTypeOK
  <2>1. offered \in Nat /\ offered <= MaxRelease
    BY Releases DEF Init
  <2>2. final \in Release /\ backup \in Release
    BY <2>1, Releases DEF Init, Release
  <2> QED
    BY <2>2, Releases DEF Init, InstallTypeOK, Outside
<1>2. Offered
  BY Releases DEF Init, Offered
<1>3. OneInside /\ CommittedStays
  BY DEF Init, OneInside, Outside, CommittedStays
<1>4. \A c \in Caller : At(c)
  BY DEF Init, At, Outside
<1> QED
  BY <1>1, <1>2, <1>3, <1>4 DEF InstallInv

\* Every step keeps the invariant.
LEMMA InstallNextInv == InstallInv /\ [Next]_vars => InstallInv'
<1> SUFFICES ASSUME InstallInv, [Next]_vars PROVE InstallInv'
  OBVIOUS
<1>1. ASSUME NEW c \in Caller, Step(c) PROVE InstallInv'
  <2>1. UNCHANGED offered
    BY <1>1 DEF Step
  <2>2. CASE EntersProcess(c) \/ LocksFile(c) \/ GivesUp(c)
    BY <2>1, <2>2, WaitsInv DEF EntersProcess, LocksFile, GivesUp
  <2>3. CASE Recovers(c) \/ JudgesBackup(c) \/ Restores(c) \/ Confirms(c)
    BY <2>1, <2>3, RecoversInv, JudgesInv, RestoresInv, ConfirmsInv
  <2>4. CASE Checks(c) \/ Fetches(c) \/ Stages(c)
    BY <2>1, <2>4, ChecksInv, FetchesInv, StagesInv
  <2>5. CASE MovesAside(c) \/ PutsInPlace(c) \/ Validates(c)
    BY <2>1, <2>5, AsideInv, PutsInv, ValidatesInv
  <2> QED
    BY <1>1, <2>2, <2>3, <2>4, <2>5 DEF Step
<1>2. ASSUME NEW c \in Caller, Ensure(c), UNCHANGED offered PROVE InstallInv'
  BY <1>2, WaitsInv DEF Ensure
<1> QED
  BY <1>1, <1>2, CrashInv, WorldInv DEF Next

\* The inductive invariant holds throughout.
THEOREM InstallInvariant == Spec => []InstallInv
<1> QED
  BY InstallInitInv, InstallNextInv, PTL DEF Spec

\* What EnsureDenoInstalledOrUpdatedContext has reported as installed is not
\* lost, whatever fails, is stopped or crashes afterwards: recovery finds an
\* executable that runs, no older than reported, unless it misjudges one.
THEOREM InstalledStays == Spec => []CommittedStays
<1>1. InstallInv => CommittedStays
  BY DEF InstallInv
<1> QED
  BY <1>1, InstallInvariant, PTL

\* Two calls are never both past the locks, even of two processes: each sees
\* the executable and its backup as it left them.
THEOREM OneInstallsAtATime ==
  Spec => [](\A c, k \in Caller : c # k => pc[c] \in Outside \/ pc[k] \in Outside)
<1>1. InstallInv => \A c, k \in Caller : c # k => pc[c] \in Outside \/ pc[k] \in Outside
  BY DEF InstallInv, OneInside
<1> QED
  BY <1>1, InstallInvariant, PTL
=============================================================================
