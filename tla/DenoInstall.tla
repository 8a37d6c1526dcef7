---------------------------- MODULE DenoInstall ----------------------------
(***************************************************************************)
(* The installation and update of Deno before a download from YouTube      *)
(* (backend/deno.go): a lock of the process, a lock on a file between       *)
(* processes, recovery from the backup, the daily check for a release, and  *)
(* the replacement of the executable with its rollback.                    *)
(*                                                                         *)
(* A file holds the number of a release, or is Absent.  Every operation on  *)
(* a file may fail, and a process may crash between any two.  A validation  *)
(* and the operation it leads to are one step: the locks keep others away,  *)
(* and a crash between the two leaves what a crash before them leaves.      *)
(***************************************************************************)
EXTENDS Naturals

CONSTANTS
  Process,    \* the running instances of the program
  Caller,     \* their jobs that ask for Deno
  Home,       \* the process of each
  NoOne,
  MaxRelease, \* bound: the releases that are published
  Runnable    \* the releases that run on this machine

ASSUME CallerAssumption == NoOne \notin Caller /\ Home \in [Caller -> Process]
ASSUME ReleaseAssumption == MaxRelease \in Nat \ {0} /\ Runnable \subseteq 1 .. MaxRelease

Absent == 0

VARIABLES
  final, backup, \* the executable and its .bak
  marker,        \* the last check for a release is less than a day ago
  offered,       \* the latest release
  processLock, fileLock,
  pc, stopped,
  current,       \* the release a caller has found installed
  release,       \* the release it installs
  hadCurrent,
  committed,     \* history: the release that was last reported as installed
  misjudged      \* history: the files recovery has found broken that run

diskVars == <<final, backup, marker>>
lockVars == <<processLock, fileLock>>
workVars == <<current, release, hadCurrent>>
vars == <<diskVars, lockVars, pc, stopped, workVars, offered, committed, misjudged>>

Runs(f) == f \in Runnable

\* The files are what an earlier version or a user may have left.
Init ==
  /\ offered \in 1 .. MaxRelease
  /\ final \in 0 .. offered /\ backup \in 0 .. offered /\ marker \in BOOLEAN
  /\ processLock = [p \in Process |-> NoOne] /\ fileLock = NoOne
  /\ pc = [c \in Caller |-> "idle"] /\ stopped = {}
  /\ current = [c \in Caller |-> Absent] /\ release = [c \in Caller |-> Absent]
  /\ hadCurrent = [c \in Caller |-> FALSE]
  /\ committed = Absent /\ misjudged = {}

-----------------------------------------------------------------------------
(* How a call goes on and ends.                                            *)

Moves(c, place) ==
  /\ pc' = [pc EXCEPT ![c] = place]
  /\ UNCHANGED <<lockVars, stopped, committed>>
Goto(c, place) == Moves(c, place) /\ UNCHANGED workVars

\* The callers of D are no longer in a call and hold no lock.
Leave(D) ==
  /\ pc' = [c \in Caller |-> IF c \in D THEN "idle" ELSE pc[c]]
  /\ stopped' = stopped \ D
  /\ processLock' = [p \in Process |-> IF processLock[p] \in D THEN NoOne ELSE processLock[p]]
  /\ fileLock' = IF fileLock \in D THEN NoOne ELSE fileLock
  /\ current' = [c \in Caller |-> IF c \in D THEN Absent ELSE current[c]]
  /\ release' = [c \in Caller |-> IF c \in D THEN Absent ELSE release[c]]
  /\ hadCurrent' = [c \in Caller |-> c \notin D /\ hadCurrent[c]]

Fails(c) == Leave({c}) /\ UNCHANGED committed
Reports(c, f) == Leave({c}) /\ committed' = f

\* An update that fails leaves the caller with what is installed, unless it
\* was cancelled or timed out.
UpdateFails(c, cancelled) ==
  IF current[c] # Absent /\ ~cancelled THEN Reports(c, current[c]) ELSE Fails(c)

\* A request may run into the timeout of its client.
RequestFails(c) ==
  \E timeout \in BOOLEAN : UpdateFails(c, timeout \/ c \in stopped)

\* deno --version may find the file good, unless the caller was stopped.  It
\* never has to: a file that runs may fail to start.
Passes(c, f) == f \in Runnable /\ c \notin stopped

-----------------------------------------------------------------------------
(* The locks.                                                              *)

Ensure(c) ==
  /\ pc[c] = "idle" /\ Goto(c, "process")
  /\ UNCHANGED <<diskVars, misjudged>>

EntersProcess(c) ==
  /\ pc[c] = "process" /\ processLock[Home[c]] = NoOne
  /\ processLock' = [processLock EXCEPT ![Home[c]] = c]
  /\ pc' = [pc EXCEPT ![c] = "file"]
  /\ UNCHANGED <<diskVars, fileLock, stopped, workVars, committed, misjudged>>

LocksFile(c) ==
  /\ pc[c] = "file" /\ fileLock = NoOne /\ c \notin stopped
  /\ fileLock' = c
  /\ pc' = [pc EXCEPT ![c] = "recover"]
  /\ UNCHANGED <<diskVars, processLock, stopped, workVars, committed, misjudged>>

\* Mutant of GivesUp: the wait for the file lock does not see the context end.
GivesUpEarly(c) ==
  /\ pc[c] = "process" /\ c \in stopped
  /\ Fails(c) /\ UNCHANGED <<diskVars, misjudged>>

\* The context ends while the call waits, or there is no file to lock.
GivesUp(c) ==
  /\ pc[c] \in IF c \in stopped THEN {"process", "file"} ELSE {"file"}
  /\ Fails(c) /\ UNCHANGED <<diskVars, misjudged>>

-----------------------------------------------------------------------------
(* Recovery.                                                               *)

\* Mutant of Recovers: a backup that is found is taken for a stale one.
RecoversWithoutBackup(c) ==
  /\ pc[c] = "recover" /\ c \notin stopped
  /\ backup' = Absent
  /\ Goto(c, "check") /\ UNCHANGED <<final, marker, misjudged>>

\* Without a backup there is nothing to recover; beside an executable that
\* runs it is removed, or stays if that fails.
Recovers(c) ==
  /\ pc[c] = "recover"
  /\ \/ Fails(c) /\ UNCHANGED <<backup, misjudged>>
     \/ /\ backup = Absent /\ c \notin stopped
        /\ Goto(c, "check") /\ UNCHANGED <<backup, misjudged>>
     \/ /\ backup # Absent /\ Passes(c, final)
        /\ backup' \in {Absent, backup}
        /\ Goto(c, "check") /\ UNCHANGED misjudged
     \/ /\ backup # Absent /\ c \notin stopped
        /\ misjudged' = misjudged \cup (IF final \in Runnable THEN {"final"} ELSE {})
        /\ Goto(c, "judge") /\ UNCHANGED backup
  /\ UNCHANGED <<final, marker>>

\* A backup that does not run is removed; for one that runs the executable is.
JudgesBackup(c) ==
  /\ pc[c] = "judge"
  /\ \/ Fails(c) /\ UNCHANGED <<final, backup, misjudged>>
     \/ /\ c \notin stopped
        /\ misjudged' = misjudged \cup (IF backup \in Runnable THEN {"backup"} ELSE {})
        /\ backup' = Absent
        /\ Goto(c, "check") /\ UNCHANGED final
     \/ /\ Passes(c, backup)
        /\ final' = Absent
        /\ Goto(c, "restore") /\ UNCHANGED <<backup, misjudged>>
  /\ UNCHANGED marker

Restores(c) ==
  /\ pc[c] = "restore"
  /\ \/ Fails(c) /\ UNCHANGED diskVars
     \/ final' = backup /\ backup' = Absent /\ Goto(c, "confirm") /\ UNCHANGED marker
  /\ UNCHANGED misjudged

\* What has been restored and does not run becomes the backup again.
Confirms(c) ==
  /\ pc[c] = "confirm"
  /\ \/ Passes(c, final) /\ Goto(c, "check") /\ UNCHANGED <<final, backup>>
     \/ Fails(c) /\ final' = Absent /\ backup' = final
     \/ Fails(c) /\ UNCHANGED <<final, backup>>
  /\ UNCHANGED <<marker, misjudged>>

-----------------------------------------------------------------------------
(* The update.                                                             *)

\* What is installed suffices if the last check was less than a day ago.
Checks(c) ==
  /\ pc[c] = "check"
  /\ \/ c \in stopped /\ Fails(c)
     \/ Passes(c, final) /\ marker /\ Reports(c, final)
     \/ /\ c \notin stopped
        /\ \/ UNCHANGED current
           \/ Passes(c, final) /\ ~marker /\ current' = [current EXCEPT ![c] = final]
        /\ Moves(c, "fetch") /\ UNCHANGED <<release, hadCurrent>>
  /\ UNCHANGED <<diskVars, misjudged>>

\* The latest release is asked for; what is up to date is reported.
Fetches(c) ==
  /\ pc[c] = "fetch"
  /\ \/ RequestFails(c) /\ UNCHANGED marker
     \/ /\ c \notin stopped /\ current[c] = offered
        /\ marker' \in {TRUE, marker} /\ Reports(c, offered)
     \/ /\ c \notin stopped /\ current[c] # offered
        /\ release' = [release EXCEPT ![c] = offered]
        /\ Moves(c, "stage") /\ UNCHANGED <<marker, current, hadCurrent>>
  /\ UNCHANGED <<final, backup, misjudged>>

\* The release is downloaded beside the executable and validated there.
Stages(c) ==
  /\ pc[c] = "stage"
  /\ \/ RequestFails(c)
     \/ Passes(c, release[c]) /\ Goto(c, "aside")
  /\ UNCHANGED <<diskVars, misjudged>>

\* The executable, if there is one, becomes the backup after a stale one has
\* been removed.
MovesAside(c) ==
  /\ pc[c] = "aside"
  /\ \/ UpdateFails(c, FALSE) /\ UNCHANGED <<final, backup>>
     \/ /\ final # Absent /\ backup # Absent
        /\ backup' = Absent /\ Goto(c, "aside") /\ UNCHANGED final
     \/ /\ final # Absent /\ backup = Absent
        /\ backup' = final /\ final' = Absent
        /\ hadCurrent' = [hadCurrent EXCEPT ![c] = TRUE]
        /\ Moves(c, "place") /\ UNCHANGED <<current, release>>
     \/ final = Absent /\ Goto(c, "place") /\ UNCHANGED <<final, backup>>
  /\ UNCHANGED <<marker, misjudged>>

\* The backup returns, if there is one, or that fails, too.
RollsBack(c) ==
  \/ hadCurrent[c] /\ final' = backup /\ backup' = Absent
  \/ UNCHANGED backup /\ final' \in {Absent, final}

PutsInPlace(c) ==
  /\ pc[c] = "place"
  /\ \/ RollsBack(c) /\ UpdateFails(c, FALSE)
     \/ final' = release[c] /\ Goto(c, "validate") /\ UNCHANGED backup
  /\ UNCHANGED <<marker, misjudged>>

\* The update is committed once the executable runs in its place; a backup
\* that cannot be removed and a check that cannot be recorded do not undo it.
Validates(c) ==
  /\ pc[c] = "validate"
  /\ \/ /\ Passes(c, final)
        /\ backup' \in IF hadCurrent[c] THEN {Absent, backup} ELSE {backup}
        /\ marker' \in {TRUE, marker}
        /\ Reports(c, release[c]) /\ UNCHANGED final
     \/ RollsBack(c) /\ UpdateFails(c, c \in stopped) /\ UNCHANGED marker
  /\ UNCHANGED misjudged

-----------------------------------------------------------------------------
(* What comes from outside.                                                *)

Stop(c) ==
  /\ pc[c] # "idle" /\ c \notin stopped
  /\ stopped' = stopped \cup {c}
  /\ UNCHANGED <<diskVars, lockVars, pc, workVars, offered, committed, misjudged>>

\* The locks of a process that crashes are free, and it starts anew.
Crash(p) ==
  LET D == {c \in Caller : Home[c] = p}
  IN /\ \E c \in D : pc[c] # "idle"
     /\ Leave(D)
     /\ UNCHANGED <<diskVars, offered, committed, misjudged>>

Publish ==
  /\ offered < MaxRelease /\ offered' = offered + 1
  /\ UNCHANGED <<diskVars, lockVars, pc, stopped, workVars, committed, misjudged>>

DayPasses ==
  /\ marker /\ marker' = FALSE
  /\ UNCHANGED <<final, backup, lockVars, pc, stopped, workVars, offered, committed, misjudged>>

Step(c) ==
  /\ \/ EntersProcess(c) \/ LocksFile(c) \/ GivesUp(c)
     \/ Recovers(c) \/ JudgesBackup(c) \/ Restores(c) \/ Confirms(c)
     \/ Checks(c) \/ Fetches(c) \/ Stages(c)
     \/ MovesAside(c) \/ PutsInPlace(c) \/ Validates(c)
  /\ UNCHANGED offered

Next ==
  \/ \E c \in Caller : (Ensure(c) /\ UNCHANGED offered) \/ Step(c) \/ Stop(c)
  \/ \E p \in Process : Crash(p)
  \/ Publish \/ DayPasses

Spec == Init /\ [][Next]_vars

\* Who was stopped goes on: a cancelled request and a killed child end.  A
\* download that nobody stops may last for ever.
FairSpec == Spec /\ \A c \in Caller : WF_vars(c \in stopped /\ Step(c))

-----------------------------------------------------------------------------
(* Properties.                                                             *)

\* What recovery would settle on.
Best == IF final \in Runnable THEN final ELSE backup

\* What a call has reported as installed is not lost, whatever is stopped,
\* fails or crashes afterwards: there is an executable that runs unless
\* recovery took a good backup for a broken one, and no older one than
\* reported unless it took a good executable for a broken one, too.
CommittedStays ==
  committed # Absent =>
    /\ "backup" \notin misjudged => Best \in Runnable
    /\ misjudged = {} => Best >= committed

\* A call that was stopped ends, even if it waits for a lock that is held for
\* ever, and takes no lock along.
StoppedCallsEnd == \A c \in Caller : c \in stopped ~> pc[c] = "idle"
=============================================================================
