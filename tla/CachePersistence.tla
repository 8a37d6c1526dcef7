-------------------------- MODULE CachePersistence --------------------------
(***************************************************************************)
(* How the metadata cache reaches its file: the writer goroutine of        *)
(* backend/metadata_cache.go, its dirty flag and wake-up channel, Close,   *)
(* and a restart after a crash.                                            *)
(*                                                                         *)
(* What the cache holds is a number that grows with every change, so that  *)
(* a file can be compared with the memory.                                 *)
(***************************************************************************)
EXTENDS Naturals

CONSTANT Changes  \* bound: changes of the cache

ASSUME ChangesAssumption == Changes \in Nat

Partial == Changes + 1  \* what a file holds while it is written
Missing == Changes + 2  \* no file

VARIABLES
  memory,    \* what the cache holds
  dirty,     \* dirtyState
  signal,    \* a wake-up is in the channel dirty, which has room for one
  writer,    \* where the writer goroutine is
  snap,      \* the snapshot it is writing
  temp,      \* the temporary file
  primary,   \* the cache file
  lastErr,   \* the last write failed
  closing    \* "open", "stopped" (Close waits), or "closed"

vars == <<memory, dirty, signal, writer, snap, temp, primary, lastErr, closing>>

\* What OpenMetadataCache reads: a file that cannot be parsed is put aside.
Readable == IF primary = Partial THEN 0 ELSE primary

Init ==
  /\ memory = 0 /\ dirty = FALSE /\ signal = FALSE
  /\ writer = "idle" /\ snap = 0 /\ lastErr = FALSE /\ closing = "open"
  /\ temp = Missing /\ primary = 0

-----------------------------------------------------------------------------
MarkDirty == dirty' = TRUE /\ signal' = TRUE

\* A value is stored, read (its time of access changes) or deleted.  A
\* closed cache stores nothing; what reads of it change is not written.
Change ==
  /\ closing = "open" /\ memory < Changes
  /\ memory' = memory + 1
  /\ MarkDirty
  /\ UNCHANGED <<writer, snap, temp, primary, lastErr, closing>>

\* Close: it returns when the writer has ended.
Close ==
  /\ closing = "open"
  /\ closing' = "stopped"
  /\ UNCHANGED <<memory, dirty, signal, writer, snap, temp, primary, lastErr>>

CloseReturns ==
  /\ closing = "stopped" /\ writer = "ended"
  /\ closing' = "closed"
  /\ UNCHANGED <<memory, dirty, signal, writer, snap, temp, primary, lastErr>>

-----------------------------------------------------------------------------
(* The writer, persistenceLoop.                                            *)

WriterAt(from, to) ==
  /\ writer = from /\ writer' = to
  /\ UNCHANGED <<memory, primary, lastErr, closing>>

\* A wake-up, and the delay that collects further changes; Stop cuts it.
Wake ==
  /\ WriterAt("idle", "delaying") /\ signal
  /\ signal' = FALSE
  /\ UNCHANGED <<dirty, snap, temp>>

Drain ==
  /\ WriterAt("delaying", "flushing")
  /\ signal' = FALSE
  /\ UNCHANGED <<dirty, snap, temp>>

\* Mutant of Stop: what is pending is not flushed.
StopAtOnce ==
  /\ WriterAt("idle", "ended") /\ closing = "stopped"
  /\ UNCHANGED <<dirty, signal, snap, temp>>

Stop ==
  /\ WriterAt("idle", "lastFlush") /\ closing = "stopped"
  /\ UNCHANGED <<dirty, signal, snap, temp>>

\* Where a flush goes on, and where it returns to.
Flushing == [flushing |-> "writing", lastFlush |-> "lastWriting"]
Returned == [flushing  |-> "idle",  writing     |-> "idle", replacing |-> "idle",
             lastFlush |-> "ended", lastWriting |-> "ended",
             lastReplacing |-> "ended"]

NothingToWrite ==
  /\ writer \in DOMAIN Flushing /\ ~dirty
  /\ WriterAt(writer, Returned[writer])
  /\ UNCHANGED <<dirty, signal, snap, temp>>

\* Expired entries are dropped on the way, which wakes the writer again.
Snapshot ==
  /\ writer \in DOMAIN Flushing /\ dirty
  /\ WriterAt(writer, Flushing[writer])
  /\ dirty' = FALSE /\ snap' = memory /\ temp' = Partial
  /\ signal' \in IF closing = "open" THEN {signal, TRUE} ELSE {signal}

WriteTemp ==
  /\ \/ WriterAt("writing", "replacing")
     \/ WriterAt("lastWriting", "lastReplacing")
  /\ temp' = snap
  /\ UNCHANGED <<dirty, signal, snap>>

\* Mutant of WriteFails: the snapshot is not pending any more.
WriteFailsAndForgets ==
  /\ writer \in {"writing", "lastWriting", "replacing", "lastReplacing"}
  /\ writer' = Returned[writer]
  /\ temp' = Missing
  /\ lastErr' = FALSE
  /\ UNCHANGED <<memory, dirty, signal, snap, primary, closing>>

\* recordPersistenceError: the flag is up again, but no wake-up is sent.
WriteFails ==
  /\ writer \in {"writing", "lastWriting", "replacing", "lastReplacing"}
  /\ writer' = Returned[writer]
  /\ temp' = Missing
  /\ lastErr' = TRUE /\ dirty' = TRUE
  /\ UNCHANGED <<memory, signal, snap, primary, closing>>

\* Mutant of Replace: the file is truncated and written again.
ReplaceInPlace ==
  /\ writer \in {"replacing", "lastReplacing"}
  /\ \/ primary' = Partial /\ UNCHANGED <<writer, temp, lastErr>>
     \/ /\ primary = Partial /\ primary' = temp /\ temp' = Missing
        /\ lastErr' = FALSE /\ writer' = Returned[writer]
  /\ UNCHANGED <<memory, dirty, signal, snap, closing>>

\* Mutant of Replace: the wake-ups are drained after the write, not before.
ReplaceAndDrain ==
  /\ writer \in {"replacing", "lastReplacing"}
  /\ primary' = temp /\ temp' = Missing
  /\ lastErr' = FALSE /\ signal' = FALSE
  /\ writer' = Returned[writer]
  /\ UNCHANGED <<memory, dirty, snap, closing>>

Replace ==
  /\ writer \in {"replacing", "lastReplacing"}
  /\ primary' = temp /\ temp' = Missing
  /\ lastErr' = FALSE
  /\ writer' = Returned[writer]
  /\ UNCHANGED <<memory, dirty, signal, snap, closing>>

\* The process dies and starts again.
Crash ==
  /\ memory' = Readable /\ primary' = Readable
  /\ dirty' = FALSE /\ signal' = FALSE /\ lastErr' = FALSE
  /\ writer' = "idle" /\ snap' = 0 /\ closing' = "open"
  /\ temp' = temp

Writer ==
  \/ Wake \/ Drain \/ Stop \/ NothingToWrite \/ Snapshot
  \/ WriteTemp \/ WriteFails \/ Replace

Next == Change \/ Close \/ CloseReturns \/ Writer \/ Crash

Spec == Init /\ [][Next]_vars
FairSpec == Spec /\ WF_vars(Writer)

-----------------------------------------------------------------------------
(* Properties.                                                             *)

WriterPc == {"idle", "delaying", "flushing", "writing", "replacing",
             "lastFlush", "lastWriting", "lastReplacing", "ended"}

\* Types; nothing but whole caches is ever read back.
PersistenceTypeOK ==
  /\ memory \in 0..Changes /\ snap \in 0..Changes
  /\ dirty \in BOOLEAN /\ signal \in BOOLEAN /\ lastErr \in BOOLEAN
  /\ writer \in WriterPc
  /\ temp \in 0..Missing /\ primary \in 0..Partial
  /\ closing \in {"open", "stopped", "closed"}

\* No change is forgotten by the writer: while it sleeps with something to
\* write, a wake-up is on its way, unless the last write failed or Close
\* wakes it.
NoLostWakeup ==
  dirty /\ writer = "idle" => signal \/ lastErr \/ closing = "stopped"

\* When Close returns without an error, the file holds what the cache held.
CleanCloseFlushes ==
  closing = "closed" /\ ~lastErr => primary = memory

\* A crash leaves a whole file: at no moment is the cache file half-written.
PrimaryIsWhole == primary # Partial

\* A Close that has returned reports the error of the last write.
Status == CASE closing = "open"    -> "open"
            [] closing = "stopped" -> "closing"
            [] closing = "closed"  -> IF lastErr THEN "failed" ELSE "flushed"

Durable == INSTANCE DurableCache WITH held <- memory, stored <- primary, status <- Status

\* The file is what DurableCache promises: whatever the writer does, fails to do
\* or is interrupted in by a crash, it is a whole cache, none older takes its
\* place, and a Close without an error leaves nothing behind.
ImplementsDurableCache == Durable!Spec

\* A change reaches the file without any further change, unless a write
\* fails or the process dies.
ChangesReachFile ==
  memory # primary ~> memory = primary \/ lastErr
=============================================================================
