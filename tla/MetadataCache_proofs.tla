------------------------ MODULE MetadataCache_proofs ------------------------
(***************************************************************************)
(* Proofs about the metadata cache: its file, for every number of changes  *)
(* (CachePersistence), and the lookups of a key, for every set of callers  *)
(* and times of access (CacheLookup).                                      *)
(***************************************************************************)
EXTENDS CachePersistence, CacheLookup, TLAPS

(***************************************************************************)
(* The file.  What is not in the file is flagged (Pending); a flag that    *)
(* goes up during a write brings a wake-up (Woken); the file written last  *)
(* is a snapshot no older than the file it replaces (Ordered); and once    *)
(* Close has been called nothing raises the flag but a failed write.       *)
(***************************************************************************)
Idle     == writer \in {"idle", "delaying", "flushing", "lastFlush", "ended"}
Copying  == writer \in {"writing", "replacing", "lastWriting", "lastReplacing"}
Last     == {"lastFlush", "lastWriting", "lastReplacing", "ended"}

\* What the file lacks is flagged, or is in the snapshot that is written.
Pending ==
  ~dirty => IF Copying THEN snap = memory ELSE primary = memory

\* A flag raised during a write has sent a wake-up.
Woken ==
  /\ dirty /\ writer \in {"writing", "replacing"} => signal
  /\ NoLostWakeup

Ordered ==
  /\ primary <= memory /\ snap <= memory
  /\ Copying => primary <= snap
  /\ writer \in {"replacing", "lastReplacing"} => temp = snap

\* The last flush starts when Close has been called, and Close returns after it.
Closing ==
  /\ writer \in Last => closing # "open"
  /\ closing = "closed" => writer = "ended"
  /\ writer \in {"lastWriting", "lastReplacing"} => ~dirty
  /\ writer = "ended" /\ ~lastErr => ~dirty

FileInv == PersistenceTypeOK /\ Pending /\ Woken /\ Ordered /\ Closing

-----------------------------------------------------------------------------
\* The marks of a partial and of a missing file are no number of changes.
LEMMA Marks ==
  /\ Changes \in Nat /\ Partial \in Nat /\ Missing \in Nat
  /\ Changes < Partial /\ Partial < Missing
  BY ChangesAssumption DEF Partial, Missing

\* In the initial state everything is in the file and nothing is pending.
LEMMA FileInitInv == Init => FileInv
<1> SUFFICES ASSUME Init PROVE FileInv
  OBVIOUS
<1>1. PersistenceTypeOK
  <2>1. memory \in 0..Changes /\ snap \in 0..Changes /\ primary \in 0..Partial
    BY Marks DEF Init
  <2>2. temp \in 0..Missing
    BY Marks DEF Init
  <2> QED
    BY <2>1, <2>2 DEF Init, PersistenceTypeOK, WriterPc
<1>2. Pending /\ Woken /\ Ordered /\ Closing
  BY DEF Init, Pending, Woken, NoLostWakeup, Ordered, Closing, Copying, Last
<1> QED
  BY <1>1, <1>2 DEF FileInv

\* Every step of the cache, of its writer and of a crash keeps the invariant.
LEMMA FileNextInv == FileInv /\ [Next]_vars => FileInv'
<1> SUFFICES ASSUME FileInv, [Next]_vars PROVE FileInv'
  OBVIOUS
<1> USE Marks
<1> USE DEF FileInv, PersistenceTypeOK, Pending, Woken, NoLostWakeup, Ordered,
            Closing, Copying, Last, WriterPc
<1>1. CASE Change
  BY <1>1 DEF Change, MarkDirty
<1>2. CASE Close
  BY <1>2 DEF Close
<1>3. CASE CloseReturns
  BY <1>3 DEF CloseReturns
<1>4. CASE Wake
  BY <1>4 DEF Wake, WriterAt
<1>5. CASE Drain
  BY <1>5 DEF Drain, WriterAt
<1>6. CASE Stop
  BY <1>6 DEF Stop, WriterAt
<1>7. CASE NothingToWrite
  <2>1. writer \in {"flushing", "lastFlush"}
    BY <1>7 DEF NothingToWrite, Flushing
  <2>2. /\ writer = "flushing" => writer' = "idle"
        /\ writer = "lastFlush" => writer' = "ended"
    BY <1>7, <2>1 DEF NothingToWrite, WriterAt, Returned
  <2> QED
    BY <1>7, <2>1, <2>2 DEF NothingToWrite, WriterAt
<1>8. CASE Snapshot
  <2>1. writer \in {"flushing", "lastFlush"}
    BY <1>8 DEF Snapshot, Flushing
  <2>2. /\ writer = "flushing" => writer' = "writing"
        /\ writer = "lastFlush" => writer' = "lastWriting"
    BY <1>8, <2>1 DEF Snapshot, WriterAt, Flushing
  <2>3. signal' \in BOOLEAN
    BY <1>8 DEF Snapshot
  <2>4. /\ memory' = memory /\ primary' = primary /\ lastErr' = lastErr
        /\ closing' = closing /\ dirty /\ dirty' = FALSE /\ snap' = memory
        /\ temp' = Partial
    BY <1>8 DEF Snapshot, WriterAt
  <2> HIDE DEF Last, Copying
  <2>5. PersistenceTypeOK'
    <3>1. memory' \in 0..Changes /\ snap' \in 0..Changes /\ temp' \in 0..Missing
      BY <2>4
    <3> QED
      BY <2>1, <2>2, <2>3, <2>4, <3>1
  <2>6. Pending' /\ Woken' /\ Ordered' /\ Closing'
    BY <2>1, <2>2, <2>4 DEF Last, Copying
  <2> QED
    BY <2>5, <2>6
<1>9. CASE WriteTemp
  BY <1>9 DEF WriteTemp, WriterAt
<1>10. CASE WriteFails
  <2>1. /\ writer \in {"writing", "replacing"} => writer' = "idle"
        /\ writer \in {"lastWriting", "lastReplacing"} => writer' = "ended"
    BY <1>10 DEF WriteFails, Returned
  <2> QED
    BY <1>10, <2>1 DEF WriteFails
<1>11. CASE Replace
  <2>1. /\ writer = "replacing" => writer' = "idle"
        /\ writer = "lastReplacing" => writer' = "ended"
    BY <1>11 DEF Replace, Returned
  <2>2. /\ memory' = memory /\ dirty' = dirty /\ signal' = signal
        /\ snap' = snap /\ closing' = closing /\ ~lastErr'
        /\ lastErr' \in BOOLEAN
        /\ primary' = snap /\ temp' = Missing
        /\ writer \in {"replacing", "lastReplacing"}
    BY <1>11 DEF Replace
  <2>3. PersistenceTypeOK'
    BY <2>1, <2>2
  <2>4. Pending' /\ Woken' /\ Ordered' /\ Closing'
    BY <2>1, <2>2
  <2> QED
    BY <2>3, <2>4
<1>12. CASE Crash
  <2>1. primary \in 0..Changes /\ Readable = primary
    BY DEF Readable
  <2>2. /\ memory' = primary /\ primary' = primary /\ snap' = 0 /\ temp' = temp
        /\ ~dirty' /\ dirty' \in BOOLEAN /\ signal' \in BOOLEAN
        /\ lastErr' \in BOOLEAN /\ writer' = "idle" /\ closing' = "open"
    BY <1>12, <2>1 DEF Crash
  <2>3. PersistenceTypeOK'
    BY <2>1, <2>2
  <2>4. Pending' /\ Woken' /\ Ordered' /\ Closing'
    BY <2>1, <2>2
  <2> QED
    BY <2>3, <2>4
<1>13. CASE UNCHANGED vars
  BY <1>13 DEF vars
<1> QED
  BY <1>1, <1>2, <1>3, <1>4, <1>5, <1>6, <1>7, <1>8, <1>9, <1>10, <1>11,
     <1>12, <1>13 DEF Next, Writer

\* The strengthened invariant holds in every reachable state.
THEOREM FileInvariant == Spec => []FileInv
  BY FileInitInv, FileNextInv, PTL DEF Spec

-----------------------------------------------------------------------------
\* The states of the cache, its writer and its files are well formed, and
\* what a restart reads is a whole cache: persistenceLoop, OpenMetadataCache.
THEOREM FileTypeCorrect == Spec => []PersistenceTypeOK
<1>1. FileInv => PersistenceTypeOK
  BY DEF FileInv
<1> QED
  BY <1>1, FileInvariant, PTL

\* A writer that sleeps on unwritten changes has a wake-up waiting for it,
\* unless a write has failed or Close wakes it: markDirtyLocked, drainDirty.
THEOREM WriterIsWoken == Spec => []NoLostWakeup
<1>1. FileInv => NoLostWakeup
  BY DEF FileInv, Woken
<1> QED
  BY <1>1, FileInvariant, PTL

\* A Close that reports no error leaves the whole cache in its file.
THEOREM CloseFlushes == Spec => []CleanCloseFlushes
<1>1. FileInv => CleanCloseFlushes
  BY DEF FileInv, CleanCloseFlushes, Closing, Pending, Copying
<1> QED
  BY <1>1, FileInvariant, PTL

\* The cache file is never half-written, at whatever moment the process
\* dies: writeSnapshot writes a temporary file and renames it.
THEOREM FileIsWhole == Spec => []PrimaryIsWhole
<1>1. FileInv => PrimaryIsWhole
  BY Marks
  DEF FileInv, PrimaryIsWhole, PersistenceTypeOK, Ordered
<1> QED
  BY <1>1, FileInvariant, PTL

\* Every step of the cache and of its writer is one of DurableCache, or changes
\* nothing it speaks of.
LEMMA FileStep ==
  FileInv /\ FileInv' /\ [Next]_vars => [Durable!Next]_<<memory, primary, Status>>
<1> SUFFICES ASSUME FileInv, FileInv', [Next]_vars
             PROVE  Durable!Next \/ UNCHANGED <<memory, primary, Status>>
  OBVIOUS
<1>1. primary \in Nat /\ primary # Partial /\ primary <= memory /\ memory \in Nat
  BY Marks DEF FileInv, PersistenceTypeOK, Ordered
<1>2. closing \in {"open", "stopped", "closed"} /\ (closing = "closed" => writer = "ended")
  BY DEF FileInv, PersistenceTypeOK, Closing
<1>3. CASE Change
  BY <1>3 DEF Change, Status, Durable!Next, Durable!Change
<1>4. CASE Close
  BY <1>4 DEF Close, Status, Durable!Next, Durable!Close
<1>5. CASE CloseReturns
  <2>1. Status = "closing" /\ UNCHANGED <<memory, primary, lastErr>>
    BY <1>5 DEF CloseReturns, Status
  <2>2. closing' = "closed" /\ Status' \in {"failed", "flushed"} /\ (Status' = "flushed" => ~lastErr')
    BY <1>5 DEF CloseReturns, Status
  <2>3. Status' = "flushed" => primary = memory
    BY <2>1, <2>2 DEF FileInv, Closing, Pending, Copying
  <2> QED
    BY <2>1, <2>2, <2>3 DEF Durable!Next, Durable!Closed
<1>6. CASE Replace
  <2>1. /\ UNCHANGED <<memory, closing>> /\ primary' = snap
        /\ primary <= snap /\ snap <= memory /\ closing # "closed"
    BY <1>2, <1>6 DEF Replace, FileInv, Ordered, Copying
  <2>2. UNCHANGED Status /\ Status \in {"open", "closing"}
    BY <1>2, <2>1 DEF Status
  <2>3. snap \in primary .. memory
    BY <1>1, <2>1 DEF FileInv, PersistenceTypeOK
  <2> QED
    BY <2>1, <2>2, <2>3 DEF Durable!Next, Durable!Store
<1>7. CASE Crash
  <2>1. memory' = primary /\ primary' = primary /\ Status' = "open"
    BY <1>1, <1>7 DEF Crash, Readable, Status
  <2> QED
    BY <2>1 DEF Durable!Next, Durable!Crash
<1>8. CASE Wake \/ Drain \/ Stop \/ NothingToWrite \/ Snapshot \/ WriteTemp
  <2>1. UNCHANGED <<memory, primary, lastErr, closing>>
    BY <1>8 DEF Wake, Drain, Stop, NothingToWrite, Snapshot, WriteTemp, WriterAt
  <2> QED
    BY <2>1 DEF Status
<1>9. CASE WriteFails
  <2>1. UNCHANGED <<memory, primary, closing>> /\ closing # "closed"
    BY <1>2, <1>9 DEF WriteFails
  <2> QED
    BY <1>2, <2>1 DEF Status
<1>10. CASE UNCHANGED vars
  BY <1>10 DEF vars, Status
<1> QED
  BY <1>3, <1>4, <1>5, <1>6, <1>7, <1>8, <1>9, <1>10 DEF Next, Writer

\* The writer, its failures, Close and crashes implement DurableCache: the file
\* is always a whole cache that was held, it grows, and a Close without an error
\* leaves nothing behind.
THEOREM CacheIsDurable == Spec => ImplementsDurableCache
<1>1. Init => Durable!Init
  BY DEF Init, Durable!Init, Status
<1> QED
  BY <1>1, FileStep, FileInvariant, PTL DEF Spec, ImplementsDurableCache, Durable!Spec

-----------------------------------------------------------------------------
(***************************************************************************)
(* The lookups.  The goroutine of a flight runs exactly as long as the     *)
(* flight is the one new callers join (Registered), so there is one at a   *)
(* time; a caller that waits does so for a flight that was started         *)
(* (Waiting); a flight that is over has brought a result, and one of a     *)
(* cancelled request only if its owner was cancelled (Brought).  Who drops *)
(* an entry has found it useless, and a caller and its flight never look   *)
(* at the same time, so that neither overwrites what the other has seen    *)
(* (SeenUseless).                                                          *)
(***************************************************************************)
Running(o) == flight[o] \notin {"none", "ended"}

\* A flight runs if and only if new callers join it.
Registered == \A o \in Callers : Running(o) <=> flights = o

\* Whoever waits has joined the flight of a caller.
Waiting == \A c \in Callers : pc[c] = "waiting" => joined[c] \in Callers

\* What a flight brings, and why it may be a cancellation.
Brought ==
  \A o \in Callers :
    /\ flight[o] \in {"returned", "ended"} => result[o] # "none"
    /\ result[o] = "cancelled" => o \in cancelled

FlightInv ==
  LookupTypeOK /\ Registered /\ Waiting /\ Brought /\ CancelledByOwner

-----------------------------------------------------------------------------
\* In the initial state there is no flight and nobody waits.
LEMMA FlightInitInv == LookupInit => FlightInv
<1> SUFFICES ASSUME LookupInit PROVE FlightInv
  OBVIOUS
<1>1. LookupTypeOK
  BY DEF LookupInit, LookupTypeOK, Results
<1>2. Registered
  BY CallersAssumption DEF LookupInit, Registered, Running
<1>3. Waiting /\ Brought /\ CancelledByOwner
  BY DEF LookupInit, Waiting, Brought, CancelledByOwner
<1> QED
  BY <1>1, <1>2, <1>3 DEF FlightInv

\* A read keeps the entry and what was seen well formed.
LEMMA LookupRawTypes ==
  ASSUME LookupTypeOK, NEW c \in Callers, LookupRaw(c)
  PROVE  /\ entry' \in Entry \cup {Absent}
         /\ seen' \in [Callers -> Entry \cup {Absent}]
<1>1. entry' \in Entry \cup {Absent}
  BY DEF LookupTypeOK, LookupRaw, Entry
<1> QED
  BY <1>1 DEF LookupTypeOK, LookupRaw

\* So does a delete.
LEMMA DeleteTypes ==
  ASSUME LookupTypeOK, NEW c \in Callers, DeleteRawIfEqual(c)
  PROVE  entry' \in Entry \cup {Absent}
BY DEF LookupTypeOK, DeleteRawIfEqual

\* An expiry touches the entry alone, a cancellation the contexts alone.
LEMMA EnvironmentKeeps ==
  ASSUME FlightInv, Expire \/ \E c \in Callers : Cancel(c)
  PROVE  FlightInv'
<1>1. CASE Expire
  <2>1. LookupTypeOK'
    BY <1>1 DEF FlightInv, LookupTypeOK, Expire
  <2>2. (Registered /\ Waiting /\ Brought /\ CancelledByOwner)'
    BY <1>1 DEF FlightInv, Expire, Registered, Running, Waiting, Brought,
                CancelledByOwner
  <2> QED
    BY <2>1, <2>2 DEF FlightInv
<1>2. ASSUME NEW c \in Callers, Cancel(c) PROVE FlightInv'
  <2>1. LookupTypeOK'
    BY <1>2 DEF FlightInv, LookupTypeOK, Cancel, callerVars, flightVars
  <2>2. (Registered /\ Waiting)'
    BY <1>2 DEF FlightInv, Cancel, callerVars, flightVars, Registered, Running,
                Waiting
  <2>3. (Brought /\ CancelledByOwner)'
    BY <1>2 DEF FlightInv, Cancel, callerVars, flightVars, Brought,
                CancelledByOwner
  <2> QED
    BY <2>1, <2>2, <2>3 DEF FlightInv
<1> QED
  BY <1>1, <1>2

-----------------------------------------------------------------------------
(* The steps of a caller.                                                  *)

\* A caller that only answers leaves the flights alone; what it answers has
\* to be a result, and a cancellation needs a cancelled context.
LEMMA AnswerKeeps ==
  ASSUME FlightInv, NEW c \in Callers, NEW a \in Results \ {"none"}, Answer(c, a),
         entry' \in Entry \cup {Absent},
         seen' \in [Callers -> Entry \cup {Absent}],
         a = "cancelled" => c \in cancelled \/ joined[c] \in cancelled,
         UNCHANGED <<cancelled, joined, flights, flightVars>>
  PROVE  FlightInv'
<1>1. LookupTypeOK'
  BY DEF FlightInv, LookupTypeOK, Answer, flightVars, Results
<1>2. (Registered /\ Waiting /\ Brought)'
  BY DEF FlightInv, LookupTypeOK, Answer, flightVars, Registered, Running, Waiting,
         Brought
<1>3. CancelledByOwner'
  BY DEF FlightInv, LookupTypeOK, Answer, CancelledByOwner
<1> QED
  BY <1>1, <1>2, <1>3 DEF FlightInv

\* A caller that goes on to a place where it does not wait.
LEMMA MoveKeeps ==
  ASSUME FlightInv, NEW c \in Callers, NEW place \in {"dropping", "joining"},
         pc[c] # "done", pc' = [pc EXCEPT ![c] = place],
         entry' \in Entry \cup {Absent},
         seen' \in [Callers -> Entry \cup {Absent}],
         UNCHANGED <<cancelled, joined, answer, flights, flightVars>>
  PROVE  FlightInv'
<1>1. LookupTypeOK'
  BY DEF FlightInv, LookupTypeOK, flightVars
<1>2. (Registered /\ Waiting /\ Brought)'
  BY DEF FlightInv, LookupTypeOK, flightVars, Registered, Running, Waiting, Brought
<1>3. CancelledByOwner'
  BY DEF FlightInv, CancelledByOwner
<1> QED
  BY <1>1, <1>2, <1>3 DEF FlightInv

\* Joining: either the registered flight, which is a caller's, or one's own.
LEMMA JoinKeeps ==
  ASSUME FlightInv, NEW c \in Callers, Join(c)
  PROVE  FlightInv'
<1>1. LookupTypeOK'
  <2>1. pc' \in [Callers -> {"new", "dropping", "joining", "waiting", "done"}]
    BY DEF FlightInv, LookupTypeOK, Join
  <2>2. /\ joined' \in [Callers -> Callers \cup {NoFlight}]
        /\ flights' \in Callers \cup {NoFlight}
    BY DEF FlightInv, LookupTypeOK, Join
  <2>3. flight' \in [Callers -> {"none", "looking", "dropping", "lookingAgain",
                                 "droppingAgain", "loading", "returned",
                                 "ended"}]
    BY DEF FlightInv, LookupTypeOK, Join
  <2>4. \A d \in Callers : pc'[d] = "done" <=> answer'[d] # "none"
    BY DEF FlightInv, LookupTypeOK, Join
  <2> QED
    BY <2>1, <2>2, <2>3, <2>4 DEF FlightInv, LookupTypeOK, Join
<1>2. Registered'
  <2>1. CASE flights # NoFlight
    BY <2>1 DEF FlightInv, Join, Registered, Running
  <2>2. CASE flights = NoFlight
    <3>1. \A o \in Callers : ~Running(o)
      BY <2>2, CallersAssumption DEF FlightInv, Registered
    <3>2. /\ flights' = c
          /\ flight' = [flight EXCEPT ![c] = "looking"]
      BY <2>2 DEF Join
    <3> QED
      BY <3>1, <3>2 DEF FlightInv, LookupTypeOK, Registered, Running
  <2> QED
    BY <2>1, <2>2
<1>3. Waiting'
  BY DEF FlightInv, LookupTypeOK, Join, Waiting
<1>4. Brought'
  BY DEF FlightInv, LookupTypeOK, Join, Brought
<1>5. CancelledByOwner'
  BY DEF FlightInv, LookupTypeOK, Join, CancelledByOwner
<1> QED
  BY <1>1, <1>2, <1>3, <1>4, <1>5 DEF FlightInv

\* Every step of a caller keeps the invariant.
LEMMA CallerKeeps ==
  ASSUME FlightInv, NEW c \in Callers, Caller(c)
  PROVE  FlightInv'
<1>1. CASE Refused(c)
  BY <1>1, AnswerKeeps DEF Refused, Results, FlightInv, LookupTypeOK
<1>2. CASE Look(c)
  <2>1. /\ entry' \in Entry \cup {Absent}
        /\ seen' \in [Callers -> Entry \cup {Absent}]
    BY <1>2, LookupRawTypes DEF Look, FlightInv
  <2>2. CASE Answer(c, "value")
    BY <1>2, <2>1, <2>2, AnswerKeeps DEF Look, Results
  <2>3. CASE UNCHANGED answer
    BY <1>2, <2>1, <2>3, MoveKeeps DEF Look, Answer, FlightInv, LookupTypeOK
  <2> QED
    BY <1>2, <2>2, <2>3 DEF Look
<1>3. CASE Drop(c)
  <2>1. entry' \in Entry \cup {Absent}
    BY <1>3, DeleteTypes DEF Drop, FlightInv
  <2> QED
    BY <1>3, <2>1, MoveKeeps DEF Drop, FlightInv, LookupTypeOK
<1>4. CASE Join(c)
  BY <1>4, JoinKeeps
<1>5. CASE GiveUp(c)
  BY <1>5, AnswerKeeps DEF GiveUp, Results, FlightInv, LookupTypeOK
<1>6. CASE TakeResult(c)
  <2>1. joined[c] \in Callers
    BY <1>6 DEF TakeResult, FlightInv, Waiting
  <2>2. result[joined[c]] \in Results \ {"none"}
    BY <1>6, <2>1 DEF TakeResult, FlightInv, LookupTypeOK, Brought
  <2>3. result[joined[c]] = "cancelled" => joined[c] \in cancelled
    BY <2>1 DEF FlightInv, Brought
  <2> QED
    BY <1>6, <2>2, <2>3, AnswerKeeps DEF TakeResult, FlightInv, LookupTypeOK
<1> QED
  BY <1>1, <1>2, <1>3, <1>4, <1>5, <1>6 DEF Caller

-----------------------------------------------------------------------------
(* The steps of a flight.                                                  *)

Place == {"looking", "dropping", "lookingAgain", "droppingAgain", "loading"}

\* A flight that goes on to another place, with the entry as it may be.
LEMMA GoesToKeeps ==
  ASSUME FlightInv, NEW o \in Callers, NEW place \in Place, Running(o),
         GoesTo(o, place), entry' \in Entry \cup {Absent},
         seen' \in [Callers -> Entry \cup {Absent}],
         UNCHANGED <<cancelled, callerVars>>
  PROVE  FlightInv'
<1>1. LookupTypeOK'
  BY DEF FlightInv, LookupTypeOK, GoesTo, callerVars, Place
<1>2. Registered'
  BY DEF FlightInv, LookupTypeOK, GoesTo, callerVars, Place, Registered, Running
<1>3. Brought'
  BY DEF FlightInv, LookupTypeOK, GoesTo, callerVars, Place, Brought
<1>4. (Waiting /\ CancelledByOwner)'
  BY DEF FlightInv, callerVars, Waiting, CancelledByOwner
<1> QED
  BY <1>1, <1>2, <1>3, <1>4 DEF FlightInv

\* A flight that brings a result.
LEMMA BringsKeeps ==
  ASSUME FlightInv, NEW o \in Callers, NEW r \in Results \ {"none"}, Running(o),
         Brings(o, r), r = "cancelled" => o \in cancelled,
         entry' \in Entry \cup {Absent},
         seen' \in [Callers -> Entry \cup {Absent}],
         UNCHANGED <<cancelled, callerVars>>
  PROVE  FlightInv'
<1>1. LookupTypeOK'
  BY DEF FlightInv, LookupTypeOK, Brings, callerVars, Results
<1>2. Registered'
  BY DEF FlightInv, LookupTypeOK, Brings, callerVars, Registered, Running
<1>3. Brought'
  BY DEF FlightInv, LookupTypeOK, Brings, callerVars, Brought
<1>4. (Waiting /\ CancelledByOwner)'
  BY DEF FlightInv, callerVars, Waiting, CancelledByOwner
<1> QED
  BY <1>1, <1>2, <1>3, <1>4 DEF FlightInv

\* The take-down of a flight: it was the registered one.
LEMMA FinishKeeps ==
  ASSUME FlightInv, NEW o \in Callers, Finish(o)
  PROVE  FlightInv'
<1>1. flights = o
  BY DEF Finish, FlightInv, Registered, Running
<1>2. LookupTypeOK'
  BY DEF FlightInv, LookupTypeOK, Finish, GoesTo
<1>3. Registered'
  <2>1. flights' = NoFlight /\ flight' = [flight EXCEPT ![o] = "ended"]
    BY <1>1 DEF Finish, GoesTo
  <2>2. \A p \in Callers \ {o} : ~Running(p)
    BY <1>1 DEF FlightInv, Registered
  <2> QED
    BY <2>1, <2>2, CallersAssumption
    DEF FlightInv, LookupTypeOK, Registered, Running
<1>4. Brought'
  BY DEF FlightInv, LookupTypeOK, Finish, GoesTo, Brought
<1>5. (Waiting /\ CancelledByOwner)'
  BY DEF FlightInv, Finish, Waiting, CancelledByOwner
<1> QED
  BY <1>2, <1>3, <1>4, <1>5 DEF FlightInv

\* Every step of a flight keeps the invariant.
LEMMA FlightKeeps ==
  ASSUME FlightInv, NEW o \in Callers, Flight(o) \/ Load(o)
  PROVE  FlightInv'
<1>1. CASE LookAgain(o)
  <2>1. /\ entry' \in Entry \cup {Absent}
        /\ seen' \in [Callers -> Entry \cup {Absent}]
    BY <1>1, LookupRawTypes DEF LookAgain, FlightInv
  <2>2. Running(o)
    BY <1>1 DEF LookAgain, Running
  <2>3. CASE Brings(o, "value")
    BY <1>1, <2>1, <2>2, <2>3, BringsKeeps DEF LookAgain, Results
  <2>4. CASE GoesTo(o, "loading")
    BY <1>1, <2>1, <2>2, <2>4, GoesToKeeps DEF LookAgain, Place
  <2>5. CASE GoesTo(o, IF flight[o] = "looking"
                       THEN "dropping" ELSE "droppingAgain")
    BY <1>1, <2>1, <2>2, <2>5, GoesToKeeps DEF LookAgain, Place
  <2> QED
    BY <1>1, <2>3, <2>4, <2>5 DEF LookAgain
<1>2. CASE DropAgain(o)
  <2>1. /\ entry' \in Entry \cup {Absent}
        /\ seen' \in [Callers -> Entry \cup {Absent}]
    BY <1>2, DeleteTypes DEF DropAgain, FlightInv, LookupTypeOK
  <2>2. Running(o)
    BY <1>2 DEF DropAgain, Running
  <2> QED
    BY <1>2, <2>1, <2>2, GoesToKeeps DEF DropAgain, Place
<1>3. CASE Finish(o)
  BY <1>3, FinishKeeps
<1>4. CASE Load(o)
  <2>1. entry' \in Entry \cup {Absent}
    BY <1>4 DEF Load, FlightInv, LookupTypeOK, Entry
  <2>2. seen' \in [Callers -> Entry \cup {Absent}]
    BY <1>4 DEF Load, FlightInv, LookupTypeOK
  <2>3. Running(o)
    BY <1>4 DEF Load, Running
  <2>4. PICK r \in {"value", "error", "cancelled"} :
          Brings(o, r) /\ (r = "cancelled" => o \in cancelled)
    BY <1>4 DEF Load
  <2> QED
    BY <1>4, <2>1, <2>2, <2>3, <2>4, BringsKeeps DEF Load, Results
<1> QED
  BY <1>1, <1>2, <1>3, <1>4 DEF Flight

\* No step breaks the invariant.
LEMMA FlightNextInv == FlightInv /\ [LookupNext]_lookupVars => FlightInv'
<1> SUFFICES ASSUME FlightInv, [LookupNext]_lookupVars PROVE FlightInv'
  OBVIOUS
<1>1. CASE Expire \/ \E c \in Callers : Cancel(c)
  BY <1>1, EnvironmentKeeps
<1>2. ASSUME NEW c \in Callers, Caller(c) PROVE FlightInv'
  BY <1>2, CallerKeeps
<1>3. ASSUME NEW o \in Callers, Flight(o) \/ Load(o) PROVE FlightInv'
  BY <1>3, FlightKeeps
<1>4. CASE UNCHANGED lookupVars
  <2>1. LookupTypeOK'
    BY <1>4 DEF FlightInv, LookupTypeOK, lookupVars
  <2> QED
    BY <1>4, <2>1 DEF FlightInv, lookupVars, Registered, Running, Waiting, Brought,
                      CancelledByOwner
<1> QED
  BY <1>1, <1>2, <1>3, <1>4 DEF LookupNext

-----------------------------------------------------------------------------
\* Every reachable state of the lookups of a key satisfies the invariant.
THEOREM FlightInvariant == LookupSpec => []FlightInv
BY FlightInitInv, FlightNextInv, PTL DEF LookupSpec

\* The variables of CachedLookup and its flights keep their types, and a
\* lookup has an answer exactly when it has ended.
THEOREM LookupTypeCorrect == LookupSpec => []LookupTypeOK
<1>1. FlightInv => LookupTypeOK
  BY DEF FlightInv
<1> QED
  BY <1>1, FlightInvariant, PTL

\* doChan never lets two flights of a key ask the source at once, for any
\* number of callers that come, give up and come too late.
THEOREM FlightsDoNotOverlap == LookupSpec => []OneFlight
<1>1. FlightInv => OneFlight
  BY DEF FlightInv, Registered, Running, OneFlight
<1> QED
  BY <1>1, FlightInvariant, PTL

\* A lookup that ends as cancelled was cancelled itself, or shared the flight
\* of a caller that was.
THEOREM OwnersCancel == LookupSpec => []CancelledByOwner
<1>1. FlightInv => CancelledByOwner
  BY DEF FlightInv
<1> QED
  BY <1>1, FlightInvariant, PTL

-----------------------------------------------------------------------------
(* What is removed.                                                        *)

Dropping == {"dropping", "droppingAgain"}

\* Who is about to drop what it has seen has seen nothing of use; a flight
\* runs only after its caller has looked.
SeenUseless ==
  \A c \in Callers :
    /\ pc[c] = "dropping" => ~Usable(seen[c])
    /\ flight[c] # "none" => pc[c] \in {"waiting", "done"}
    /\ flight[c] \in Dropping => ~Usable(seen[c])

\* A read leaves the value alone.
LEMMA LookupRawReads ==
  ASSUME LookupTypeOK, NEW c \in Callers, LookupRaw(c)
  PROVE  /\ Usable(entry') <=> Usable(entry)
         /\ entry' = Absent <=> entry = Absent
         /\ seen'[c] = entry'
         /\ \A d \in Callers \ {c} : seen'[d] = seen[d]
<1>1. seen'[c] = entry' /\ \A d \in Callers \ {c} : seen'[d] = seen[d]
  BY DEF LookupRaw, LookupTypeOK
<1>2. CASE entry = Absent
  BY <1>1, <1>2 DEF LookupRaw, Usable
<1>3. CASE entry # Absent
  <2>1. PICK t \in Times : entry' = [entry EXCEPT !.access = t]
    BY <1>3 DEF LookupRaw
  <2>2. entry \in Entry /\ entry' \in Entry /\ entry'.value = entry.value
    BY <1>3, <2>1 DEF LookupTypeOK, Entry
  <2> QED
    BY <1>1, <1>3, <2>2, AbsentAssumption DEF Usable
<1> QED
  BY <1>2, <1>3

\* No step lets anyone drop something of use.
LEMMA SeenUselessKept == FlightInv /\ SeenUseless /\ [LookupNext]_lookupVars => SeenUseless'
<1> SUFFICES ASSUME FlightInv, SeenUseless, [LookupNext]_lookupVars PROVE SeenUseless'
  OBVIOUS
<1> USE DEF SeenUseless
<1>1. CASE Expire \/ UNCHANGED lookupVars
  BY <1>1 DEF Expire, lookupVars
<1>2. ASSUME NEW c \in Callers, Cancel(c) PROVE SeenUseless'
  BY <1>2 DEF Cancel, callerVars, flightVars
<1>3. ASSUME NEW c \in Callers, Caller(c) PROVE SeenUseless'
  <2>1. CASE Refused(c) \/ GiveUp(c) \/ TakeResult(c)
    BY <1>3, <2>1 DEF Refused, GiveUp, TakeResult, Answer, flightVars, FlightInv,
                      LookupTypeOK
  <2>2. CASE Look(c)
    <3>1. /\ Usable(entry') <=> Usable(entry)
          /\ seen'[c] = entry'
          /\ \A d \in Callers \ {c} : seen'[d] = seen[d]
      BY <2>2, LookupRawReads DEF Look, FlightInv
    <3>2. flight[c] = "none" /\ flight' = flight
      BY <2>2 DEF Look, flightVars, FlightInv, LookupTypeOK
    <3>3. CASE Usable(entry) /\ Answer(c, "value")
      BY <3>1, <3>2, <3>3 DEF Answer, FlightInv, LookupTypeOK, Dropping
    <3>4. CASE /\ ~Usable(entry)
               /\ pc' = [pc EXCEPT ![c] = IF entry = Absent THEN "joining"
                                          ELSE "dropping"]
      BY <3>1, <3>2, <3>4 DEF FlightInv, LookupTypeOK, Dropping
    <3> QED
      BY <2>2, <3>3, <3>4 DEF Look
  <2>3. CASE Drop(c)
    BY <2>3 DEF Drop, flightVars, FlightInv, LookupTypeOK
  <2>4. CASE Join(c)
    BY <2>4 DEF Join, FlightInv, LookupTypeOK, Dropping
  <2> QED
    BY <1>3, <2>1, <2>2, <2>3, <2>4 DEF Caller
<1>4. ASSUME NEW o \in Callers, Flight(o) \/ Load(o) PROVE SeenUseless'
  <2>1. CASE LookAgain(o)
    <3>1. /\ Usable(entry') <=> Usable(entry)
          /\ seen'[o] = entry'
          /\ \A d \in Callers \ {o} : seen'[d] = seen[d]
      BY <2>1, LookupRawReads DEF LookAgain, FlightInv
    <3>2. pc[o] \in {"waiting", "done"} /\ pc' = pc
      BY <2>1 DEF LookAgain, callerVars
    <3>3. \A d \in Callers \ {o} : flight'[d] = flight[d]
      BY <2>1 DEF LookAgain, Brings, GoesTo, FlightInv, LookupTypeOK
    <3>4. flight'[o] \in Dropping => ~Usable(entry)
      BY <2>1 DEF LookAgain, Brings, GoesTo, FlightInv, LookupTypeOK, Dropping
    <3> QED
      BY <3>1, <3>2, <3>3, <3>4
  <2>2. CASE DropAgain(o)
    BY <2>2 DEF DropAgain, GoesTo, callerVars, FlightInv, LookupTypeOK, Dropping
  <2>3. CASE Finish(o)
    BY <2>3 DEF Finish, GoesTo, FlightInv, LookupTypeOK, Dropping
  <2>4. CASE Load(o)
    BY <2>4 DEF Load, Brings, callerVars, FlightInv, LookupTypeOK, Dropping
  <2> QED
    BY <1>4, <2>1, <2>2, <2>3, <2>4 DEF Flight
<1> QED
  BY <1>1, <1>2, <1>3, <1>4 DEF LookupNext

\* Only an expiry takes a good value away, and it moves nobody.
LEMMA OnlyUselessDropped ==
  ASSUME FlightInv, SeenUseless, [LookupNext]_lookupVars, Usable(entry), entry' = Absent
  PROVE  UNCHANGED <<pc, flight>>
<1>1. entry # Absent
  BY DEF Usable
<1>2. ASSUME NEW c \in Callers, LookupRaw(c) PROVE FALSE
  BY <1>1, <1>2, LookupRawReads DEF FlightInv
<1>3. ASSUME NEW c \in Callers, DeleteRawIfEqual(c), ~Usable(seen[c])
      PROVE  FALSE
  BY <1>1, <1>3 DEF DeleteRawIfEqual
<1>4. CASE Expire \/ UNCHANGED lookupVars
  BY <1>4 DEF Expire, lookupVars
<1>5. ASSUME NEW c \in Callers, Cancel(c) PROVE UNCHANGED <<pc, flight>>
  BY <1>5 DEF Cancel, callerVars, flightVars
<1>6. ASSUME NEW c \in Callers, Caller(c) PROVE FALSE
  <2>1. CASE Refused(c) \/ Join(c) \/ GiveUp(c) \/ TakeResult(c)
    BY <1>1, <2>1 DEF Refused, Join, GiveUp, TakeResult
  <2>2. CASE Look(c)
    BY <1>2, <2>2 DEF Look
  <2>3. CASE Drop(c)
    BY <1>3, <2>3 DEF Drop, SeenUseless
  <2> QED
    BY <1>6, <2>1, <2>2, <2>3 DEF Caller
<1>7. ASSUME NEW o \in Callers, Flight(o) \/ Load(o) PROVE FALSE
  <2>1. CASE LookAgain(o)
    BY <1>2, <2>1 DEF LookAgain
  <2>2. CASE DropAgain(o)
    BY <1>3, <2>2 DEF DropAgain, SeenUseless, Dropping
  <2>3. CASE Finish(o)
    BY <1>1, <2>3 DEF Finish
  <2>4. CASE Load(o)
    BY <1>1, <2>4, AbsentAssumption DEF Load, Entry
  <2> QED
    BY <1>7, <2>1, <2>2, <2>3, <2>4 DEF Flight
<1> QED
  BY <1>4, <1>5, <1>6, <1>7 DEF LookupNext

\* deleteRawIfEqual never removes a good value that somebody stored after the
\* useless one was read: as long as nothing expires, a good value stays.
THEOREM GoodValuesAreKept == LookupSpec => GoodValuesStay
<1>1. LookupInit => SeenUseless
  BY DEF LookupInit, SeenUseless, Dropping
<1>2. LookupSpec => []SeenUseless
  BY <1>1, FlightInvariant, SeenUselessKept, PTL DEF LookupSpec
<1>3. FlightInv /\ SeenUseless /\ [LookupNext]_lookupVars =>
        [Usable(entry) /\ entry' = Absent => UNCHANGED <<pc, flight>>]_lookupVars
  BY OnlyUselessDropped
<1> QED
  BY <1>2, <1>3, FlightInvariant, PTL DEF LookupSpec, GoodValuesStay
=============================================================================
