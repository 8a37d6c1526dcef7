-------------------------- MODULE BackendDownloads --------------------------
(***************************************************************************)
(* The download registry of the Go backend: the global list of items       *)
(* (backend/progress.go), the registry of running downloads with their     *)
(* cancellable contexts (app_queue_history.go), the handlers DownloadTrack *)
(* (app.go) and RedownloadTrackFromYouTube (app_metadata_update.go), the   *)
(* asynchronous history writes and the shutdown of the application.        *)
(*                                                                         *)
(* Every call of the frontend runs in a goroutine of its own.  A step is   *)
(* what a goroutine does under one lock, or between two locks.  A "sweep"  *)
(* is a call that cancels many downloads: CancelDownloadQueue,             *)
(* CancelActiveDownloads, ClearAllDownloads or shutdown.                   *)
(***************************************************************************)
EXTENDS Integers, FiniteSets

CONSTANTS
  ItemId,   \* ids of download items
  Queue,    \* queue ids
  QueueOf,  \* item -> the queue it was added to
  Call,     \* bound: calls of DownloadTrack and RedownloadTrackFromYouTube
  Sweep,    \* bound: calls that cancel many downloads
  Results,  \* what workers may return
  None      \* no call, no queue, no item

ASSUME QueueOfAssumption == QueueOf \in [ItemId -> Queue]
ASSUME NoneAssumption == None \notin Call \cup Queue \cup ItemId
ASSUME CallAssumption == IsFiniteSet(Call)

Terminal   == {"completed", "failed", "skipped", "cancelled"}
Unfinished == {"queued", "downloading"}
Kind       == {"track", "youtube"}
SweepKind  == {"queue", "active", "clear", "shutdown"}

\* What the worker of a call may return: a new file, a suspicious one, one
\* that was there before, no file name, an error, or the error of a
\* cancelled context.
Result == {"file", "suspicious", "exists", "empty", "error", "canceled"}

ASSUME ResultsAssumption == Results \subseteq Result

VARIABLES
  items,         \* item -> its status in the list, or "absent"
  call,          \* call -> where its goroutine is
  registry,      \* item -> the call in activeDownloads, or None
  cancelled,     \* calls whose context is cancelled
  activeWG,      \* the counter of the wait group
  writing,       \* calls whose history write has not ended
  sweep,         \* sweep -> where it is
  shuttingDown,
  historyOpen    \* the handle of history.db is open

vars == <<items, call, registry, cancelled, activeWG, writing, sweep,
          shuttingDown, historyOpen>>

At(pc) == {c \in Call : call[c].pc = pc}

\* Calls between beginTrack and the end of its cleanup.
Begun == {"replacing", "begun", "running", "returned", "passed", "recording",
          "leaving", "unregistering"}
InProgress == {c \in Call : call[c].pc \in Begun}
Tracked == {c \in InProgress : call[c].tracked}

\* A call that has not arrived; one that ended is forgotten but for its pc.
NoCall == [pc |-> "idle", item |-> None, kind |-> "track", tracked |-> FALSE,
           previous |-> None, result |-> "error"]

-----------------------------------------------------------------------------
Init ==
  /\ items = [i \in ItemId |-> "absent"]
  /\ call = [c \in Call |-> NoCall]
  /\ registry = [i \in ItemId |-> None]
  /\ cancelled = {}
  /\ activeWG = 0
  /\ writing = {}
  /\ sweep = [s \in Sweep |-> [pc |-> "idle", kind |-> "active",
                               queue |-> None, doomed |-> {}]]
  /\ shuttingDown = FALSE
  /\ historyOpen = TRUE

\* The list after item i reached a status: a terminal item keeps its own.
Settled(i, status) ==
  IF items[i] \in Unfinished THEN [items EXCEPT ![i] = status] ELSE items

GoTo(c, pc) == call' = [call EXCEPT ![c].pc = pc]
Leave(c) == call' = [call EXCEPT ![c].pc = "leaving", ![c].result = "error"]
End(c) == call' = [call EXCEPT ![c] = [NoCall EXCEPT !.pc = "left"]]

-----------------------------------------------------------------------------
(* Calls about single items.                                               *)

\* AddDownloadJob fails, and changes nothing, if the id is taken.
AddQueueItem(i) ==
  /\ items[i] = "absent"
  /\ items' = [items EXCEPT ![i] = "queued"]
  /\ UNCHANGED <<call, registry, cancelled, activeWG, writing, sweep,
                 shuttingDown, historyOpen>>

\* CancelDownloadItem, MarkDownloadItemFailed and SkipDownloadItem.
SettleItem(i, status) ==
  /\ status \in {"cancelled", "failed", "skipped"}
  /\ items' = Settled(i, status)
  /\ UNCHANGED <<call, registry, cancelled, activeWG, writing, sweep,
                 shuttingDown, historyOpen>>

ClearDownloadQueue ==
  /\ items' = [i \in ItemId |->
                 IF items[i] \in Unfinished THEN items[i] ELSE "absent"]
  /\ UNCHANGED <<call, registry, cancelled, activeWG, writing, sweep,
                 shuttingDown, historyOpen>>

-----------------------------------------------------------------------------
(* The goroutine of DownloadTrack or RedownloadTrackFromYouTube.           *)

\* The frontend names an item; a call without one adds an item of its own.
Arrive(c, i, kind, named) ==
  /\ call[c].pc = "idle"
  /\ call' = [call EXCEPT ![c].pc = "arrived", ![c].item = i, ![c].kind = kind]
  /\ IF named THEN UNCHANGED items
     ELSE /\ kind = "track" /\ items[i] = "absent"
          /\ items' = [items EXCEPT ![i] = "queued"]
  /\ UNCHANGED <<registry, cancelled, activeWG, writing, sweep, shuttingDown,
                 historyOpen>>

\* beginTrack after shutdown began: a context that is already cancelled.
BeginRefused(c) ==
  /\ call[c].pc = "arrived" /\ shuttingDown
  /\ GoTo(c, "begun")
  /\ cancelled' = cancelled \cup {c}
  /\ UNCHANGED <<items, registry, activeWG, writing, sweep, shuttingDown,
                 historyOpen>>

\* Mutant of Begin: it does not look at shuttingDown.
BeginDuringShutdown(c) ==
  /\ call[c].pc = "arrived"
  /\ LET previous == registry[call[c].item]
     IN  call' = [call EXCEPT
           ![c].pc = IF previous = None THEN "begun" ELSE "replacing",
           ![c].previous = previous, ![c].tracked = TRUE]
  /\ registry' = [registry EXCEPT ![call[c].item] = c]
  /\ activeWG' = activeWG + 1
  /\ UNCHANGED <<items, cancelled, writing, sweep, shuttingDown, historyOpen>>

\* beginTrack: the call takes the entry of its item under the lock.
Begin(c) ==
  /\ call[c].pc = "arrived" /\ ~shuttingDown
  /\ LET previous == registry[call[c].item]
     IN  call' = [call EXCEPT
           ![c].pc = IF previous = None THEN "begun" ELSE "replacing",
           ![c].previous = previous, ![c].tracked = TRUE]
  /\ registry' = [registry EXCEPT ![call[c].item] = c]
  /\ activeWG' = activeWG + 1
  /\ UNCHANGED <<items, cancelled, writing, sweep, shuttingDown, historyOpen>>

\* Mutant of CancelPrevious: the replaced call is left alone.
CancelNobody(c) ==
  /\ call[c].pc = "replacing"
  /\ GoTo(c, "begun")
  /\ UNCHANGED <<items, registry, cancelled, activeWG, writing, sweep,
                 shuttingDown, historyOpen>>

\* The context of the call it replaced is cancelled after the lock.
CancelPrevious(c) ==
  /\ call[c].pc = "replacing"
  /\ cancelled' = cancelled \cup {call[c].previous}
  /\ GoTo(c, "begun")
  /\ UNCHANGED <<items, registry, activeWG, writing, sweep, shuttingDown,
                 historyOpen>>

StartDownloadItem(c) ==
  /\ call[c].pc = "begun"
  /\ items' = Settled(call[c].item, "downloading")
  /\ GoTo(c, "running")
  /\ UNCHANGED <<registry, cancelled, activeWG, writing, sweep, shuttingDown,
                 historyOpen>>

\* The worker returns.  It may have finished before it saw a cancellation,
\* but not if its context was cancelled from the start.
Return(c, result) ==
  /\ call[c].pc = "running"
  /\ result = "canceled" => c \in cancelled
  /\ ~call[c].tracked => result = "canceled"
  /\ call[c].kind = "youtube" => result \notin {"exists", "empty"}
  /\ call' = [call EXCEPT ![c].pc = "returned", ![c].result = result]
  /\ UNCHANGED <<items, registry, cancelled, activeWG, writing, sweep,
                 shuttingDown, historyOpen>>

\* An error settles the item at once, and so does every result of a
\* redownload; a replacement that is suspicious again counts as a failure.
SettleResult(c) ==
  /\ call[c].pc = "returned"
  /\ call[c].kind = "youtube" \/ call[c].result \in {"error", "canceled"}
  /\ items' = Settled(call[c].item,
                CASE call[c].result = "canceled" -> "cancelled"
                  [] call[c].result = "file" -> "completed"
                  [] OTHER -> "failed")
  /\ Leave(c)
  /\ UNCHANGED <<registry, cancelled, activeWG, writing, sweep, shuttingDown,
                 historyOpen>>

\* DownloadTrack looks at its context again before it reports success.
CheckContext(c) ==
  /\ call[c].pc = "returned" /\ call[c].kind = "track"
  /\ call[c].result \notin {"error", "canceled"}
  /\ \/ /\ c \in cancelled
        /\ items' = Settled(call[c].item, "cancelled")
        /\ Leave(c)
     \/ /\ c \notin cancelled /\ call[c].result = "empty"
        /\ items' = Settled(call[c].item, "failed")
        /\ Leave(c)
     \/ /\ c \notin cancelled /\ call[c].result # "empty"
        /\ GoTo(c, "passed")
        /\ UNCHANGED items
  /\ UNCHANGED <<registry, cancelled, activeWG, writing, sweep, shuttingDown,
                 historyOpen>>

\* Moving a suspicious file away may fail.
Report(c, moved) ==
  /\ call[c].pc = "passed"
  /\ moved \/ call[c].result = "suspicious"
  /\ items' = Settled(call[c].item,
                CASE ~moved -> "failed"
                  [] moved /\ call[c].result = "exists" -> "skipped"
                  [] OTHER -> "completed")
  /\ IF moved /\ call[c].result # "exists"
     THEN GoTo(c, "recording") ELSE Leave(c)
  /\ UNCHANGED <<registry, cancelled, activeWG, writing, sweep, shuttingDown,
                 historyOpen>>

\* addHistoryItemAsync: the write is counted before the call is left.
AddHistoryItemAsync(c) ==
  /\ call[c].pc = "recording"
  /\ activeWG' = activeWG + 1
  /\ writing' = writing \cup {c}
  /\ Leave(c)
  /\ UNCHANGED <<items, registry, cancelled, sweep, shuttingDown, historyOpen>>

\* The write opens the database again if it was closed.
WriteHistory(c) ==
  /\ c \in writing
  /\ writing' = writing \ {c}
  /\ historyOpen' = TRUE
  /\ activeWG' = activeWG - 1
  /\ UNCHANGED <<items, call, registry, cancelled, sweep, shuttingDown>>

\* The deferred cleanup cancels the context, then takes the lock.
CancelOwn(c) ==
  /\ call[c].pc = "leaving"
  /\ cancelled' = cancelled \cup {c}
  /\ IF call[c].tracked THEN GoTo(c, "unregistering") ELSE End(c)
  /\ UNCHANGED <<items, registry, activeWG, writing, sweep, shuttingDown,
                 historyOpen>>

\* Mutant of Unregister: whatever entry the item has is deleted.
UnregisterAnybody(c) ==
  /\ call[c].pc = "unregistering"
  /\ registry' = [registry EXCEPT ![call[c].item] = None]
  /\ activeWG' = activeWG - 1
  /\ End(c)
  /\ UNCHANGED <<items, cancelled, writing, sweep, shuttingDown, historyOpen>>

\* Mutant of Unregister: only the owner of the entry cleans up.
UnregisterOwner(c) ==
  /\ call[c].pc = "unregistering"
  /\ registry' = [registry EXCEPT
                    ![call[c].item] = IF @ = c THEN None ELSE @]
  /\ activeWG' = IF registry[call[c].item] = c THEN activeWG - 1 ELSE activeWG
  /\ End(c)
  /\ UNCHANGED <<items, cancelled, writing, sweep, shuttingDown, historyOpen>>

\* The entry is deleted only if no other call has taken it.
Unregister(c) ==
  /\ call[c].pc = "unregistering"
  /\ registry' = [registry EXCEPT
                    ![call[c].item] = IF @ = c THEN None ELSE @]
  /\ activeWG' = activeWG - 1
  /\ End(c)
  /\ UNCHANGED <<items, cancelled, writing, sweep, shuttingDown, historyOpen>>

-----------------------------------------------------------------------------
(* Calls that cancel many downloads.                                       *)

Called(kind, q) ==
  [pc |-> "called", kind |-> kind, queue |-> q, doomed |-> {}]

StartSweep(s, kind, q) ==
  /\ sweep[s].pc = "idle"
  /\ (kind = "queue") <=> (q # None)
  /\ kind = "shutdown" => ~shuttingDown
  /\ shuttingDown' = (shuttingDown \/ kind = "shutdown")
  /\ sweep' = [sweep EXCEPT ![s] = Called(kind, q)]
  /\ UNCHANGED <<items, call, registry, cancelled, activeWG, writing,
                 historyOpen>>

Targets(s) ==
  {i \in ItemId : /\ registry[i] # None
                  /\ sweep[s].kind = "queue" => QueueOf[i] = sweep[s].queue}

\* The entries are deleted and their cancel functions kept, under the lock.
Collect(s) ==
  /\ sweep[s].pc = "called"
  /\ sweep' = [sweep EXCEPT ![s].pc = "cancelling",
                            ![s].doomed = {registry[i] : i \in Targets(s)}]
  /\ registry' = [i \in ItemId |->
                    IF i \in Targets(s) THEN None ELSE registry[i]]
  /\ UNCHANGED <<items, call, cancelled, activeWG, writing, shuttingDown,
                 historyOpen>>

CancelOne(s, c) ==
  /\ sweep[s].pc = "cancelling" /\ c \in sweep[s].doomed
  /\ cancelled' = cancelled \cup {c}
  /\ sweep' = [sweep EXCEPT ![s].doomed = @ \ {c}]
  /\ UNCHANGED <<items, call, registry, activeWG, writing, shuttingDown,
                 historyOpen>>

\* ClearAllDownloads and shutdown wait for the group before they go on.
Swept(s) ==
  /\ sweep[s].pc = "cancelling" /\ sweep[s].doomed = {}
  /\ sweep[s].kind \in {"clear", "shutdown"} => activeWG = 0
  /\ sweep' = [sweep EXCEPT
       ![s].pc = IF sweep[s].kind \in {"clear", "shutdown"}
                 THEN "quiet" ELSE "done"]
  /\ UNCHANGED <<items, call, registry, cancelled, activeWG, writing,
                 shuttingDown, historyOpen>>

ClearAllDownloads(s) ==
  /\ sweep[s].pc = "quiet" /\ sweep[s].kind = "clear"
  /\ items' = [i \in ItemId |-> "absent"]
  /\ sweep' = [sweep EXCEPT ![s].pc = "done"]
  /\ UNCHANGED <<call, registry, cancelled, activeWG, writing, shuttingDown,
                 historyOpen>>

CloseHistoryDB(s) ==
  /\ sweep[s].pc = "quiet" /\ sweep[s].kind = "shutdown"
  /\ historyOpen' = FALSE
  /\ sweep' = [sweep EXCEPT ![s].pc = "done"]
  /\ UNCHANGED <<items, call, registry, cancelled, activeWG, writing,
                 shuttingDown>>

\* The page records a fetch, or reads, clears or trims the history.  These
\* calls ask neither shuttingDown nor the wait group and open the database
\* whenever it is closed, after shutdown too.
UseHistory ==
  /\ historyOpen' = TRUE
  /\ UNCHANGED <<items, call, registry, cancelled, activeWG, writing, sweep,
                 shuttingDown>>

-----------------------------------------------------------------------------
\* What a goroutine does once it was called, but for the worker's return.
HandlerStep(c) ==
  \/ BeginRefused(c) \/ Begin(c) \/ CancelPrevious(c)
  \/ StartDownloadItem(c)
  \/ SettleResult(c) \/ CheckContext(c)
  \/ \E moved \in BOOLEAN : Report(c, moved)
  \/ AddHistoryItemAsync(c) \/ CancelOwn(c) \/ Unregister(c)

SweepStep(s) ==
  \/ Collect(s)
  \/ \E c \in Call : CancelOne(s, c)
  \/ Swept(s) \/ ClearAllDownloads(s) \/ CloseHistoryDB(s)

Next ==
  \/ \E i \in ItemId : AddQueueItem(i)
  \/ \E i \in ItemId, status \in Terminal : SettleItem(i, status)
  \/ ClearDownloadQueue
  \/ \E c \in Call, i \in ItemId, kind \in Kind, named \in BOOLEAN :
       Arrive(c, i, kind, named)
  \/ \E c \in Call : HandlerStep(c)
  \/ \E c \in Call, result \in Results : Return(c, result)
  \/ \E c \in Call : WriteHistory(c)
  \/ \E s \in Sweep, kind \in SweepKind, q \in Queue \cup {None} :
       StartSweep(s, kind, q)
  \/ \E s \in Sweep : SweepStep(s)
  \/ UseHistory

Spec == Init /\ [][Next]_vars

\* Goroutines go on.  A worker is only known to return once its context is
\* cancelled: a download may otherwise take any time.
Fairness ==
  /\ \A c \in Call :
       /\ WF_vars(HandlerStep(c))
       /\ WF_vars(c \in cancelled /\ \E result \in Results : Return(c, result))
       /\ WF_vars(WriteHistory(c))
  /\ \A s \in Sweep : WF_vars(SweepStep(s))

FairSpec == Spec /\ Fairness

-----------------------------------------------------------------------------
(* Properties.                                                             *)

CallRecord ==
  [pc : {"idle", "arrived", "left"} \cup Begun, item : ItemId \cup {None},
   kind : Kind, tracked : BOOLEAN, previous : Call \cup {None}, result : Result]

SweepRecord ==
  [pc : {"idle", "called", "cancelling", "quiet", "done"}, kind : SweepKind,
   queue : Queue \cup {None}, doomed : SUBSET Call]

BackendTypeOK ==
  /\ items \in [ItemId -> {"absent"} \cup Unfinished \cup Terminal]
  /\ call \in [Call -> CallRecord]
  /\ registry \in [ItemId -> Call \cup {None}]
  /\ cancelled \subseteq Call
  /\ activeWG \in Nat
  /\ writing \subseteq Call
  /\ sweep \in [Sweep -> SweepRecord]
  /\ shuttingDown \in BOOLEAN
  /\ historyOpen \in BOOLEAN

\* The wait group counts the tracked calls and the history writes, neither
\* more nor less, so that Wait returns when both are over and Done never
\* makes the counter negative.
WaitGroupCounts ==
  activeWG = Cardinality(Tracked) + Cardinality(writing)

\* Somebody is about to cancel the context of call c.
Doomed(c) ==
  \/ c \in cancelled
  \/ \E s \in Sweep : c \in sweep[s].doomed
  \/ \E d \in At("replacing") : call[d].previous = c

\* No download escapes a stop: a running call that is not registered any more
\* is cancelled or is about to be, also if its item was started twice.
NoDownloadEscapes ==
  \A c \in Tracked : registry[call[c].item] = c \/ Doomed(c)

\* When shutdown closes the history no download is left that could write to
\* it: none is in progress, no write is under way, and no call still has its
\* file to record.  Calls of the page about the history itself (UseHistory)
\* are not meant: the code lets them open it again.
NoDownloadWritesAfterClose ==
  (\E s \in Sweep : sweep[s].kind = "shutdown" /\ sweep[s].pc = "done")
    => Tracked = {} /\ writing = {} /\ At("recording") = {}

\* ClearAllDownloads and shutdown leave no stopped download behind: every call
\* whose entry they or another stop took ends.
StoppedDownloadsEnd == \A c \in Call : Doomed(c) ~> call[c].pc = "left"

\* Shutdown comes to its end and closes the history on its way, since it lets
\* no further download in and cancels those that run.
ShutdownCompletes ==
  \A s \in Sweep : sweep[s].kind = "shutdown" ~> sweep[s].pc = "done"
=============================================================================
