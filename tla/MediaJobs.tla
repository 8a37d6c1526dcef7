------------------------------ MODULE MediaJobs -----------------------------
(***************************************************************************)
(* The executors of the frontend (executeSpotify, executeYouTube and the   *)
(* session operations of useDownloadQueues.ts) composed with the backend   *)
(* of BackendDownloads.                                                    *)
(*                                                                         *)
(* The id of a job is the id of its item, so a job is named by its item.   *)
(* A call of the backend is a message: the backend handles each in a       *)
(* goroutine of its own, in any order, and its answer reaches the frontend *)
(* later.  The code between two awaits of an executor is one step.         *)
(***************************************************************************)
EXTENDS BackendDownloads, Sequences

\* A job calls DownloadTrack once, and once more with a refreshed token.
ASSUME CallsAssumption == Call = ItemId \X {1, 2}

VARIABLES
  job,         \* item -> its job: its kind, and where its executor is
  response,    \* call -> what its handler answered, or "none"
  lateCancel,  \* items whose cancelDownloadItem, sent by an abort listener,
               \* is not handled yet
  session,     \* where stopAllQueues or startNewSession is
  queues,      \* queues the scheduler knows
  cancelPromise  \* queue -> the memoized call of cancelDownloadQueue, or None

jobVars == <<job, response, lateCancel>>
stopVars == <<session, queues, cancelPromise>>
frontVars == <<jobVars, stopVars>>
backVars == vars
allVars == <<backVars, frontVars>>

\* pc is where an executor is: it waits for an answer, unless it is "waiting"
\* for a slot or "done".
NewJob(kind) ==
  [kind |-> kind, pc |-> "waiting", aborted |-> FALSE, attempt |-> 1,
   ask |-> "failed", outcome |-> "failed"]
Executing == {i \in ItemId : job[i].pc \notin {"waiting", "done"}}
CallOf(i) == <<i, job[i].attempt>>

JobInit ==
  /\ Init
  /\ \E kind \in [ItemId -> Kind] : job = [i \in ItemId |-> NewJob(kind[i])]
  /\ response = [c \in Call |-> "none"]
  /\ lateCancel = {}
  /\ session = [pc |-> "idle", reset |-> FALSE, stops |-> {}, awaited |-> {}]
  /\ queues = {}
  /\ cancelPromise = [q \in Queue |-> None]

JobGoTo(i, pc) == job' = [job EXCEPT ![i].pc = pc]
JobAsk(i, what) ==
  job' = [job EXCEPT ![i].pc = "asking", ![i].ask = what]
JobDone(i, outcome) ==
  job' = [job EXCEPT ![i].pc = "done", ![i].outcome = outcome]

-----------------------------------------------------------------------------
(* Steps of the frontend that call the backend or continue with an answer. *)

\* The scheduler starts a job that was added after the last stop of its queue;
\* none is added while a session is reset.
Execute(i) ==
  /\ job[i].pc = "waiting"
  /\ session.pc \in {"idle", "fresh"} \/ ~session.reset
  /\ JobGoTo(i, "adding")
  /\ session' = [session EXCEPT !.pc = IF @ = "fresh" THEN "idle" ELSE @]
  /\ queues' = queues \cup {QueueOf[i]}
  /\ cancelPromise' = [cancelPromise EXCEPT ![QueueOf[i]] = None]
  /\ UNCHANGED <<backVars, response, lateCancel>>

\* The frontend calls DownloadTrack or RedownloadTrackFromYouTube.
Send(i, attempt) ==
  /\ Arrive(<<i, attempt>>, i, job[i].kind, TRUE)
  /\ job' = [job EXCEPT ![i].pc = "calling", ![i].attempt = attempt]

\* Mutant of AddAnswered: a stopped job leaves its item behind.
AddAnsweredLeaves(i) ==
  /\ job[i].pc = "added"
  /\ \/ job[i].aborted /\ JobDone(i, "cancelled") /\ UNCHANGED backVars
     \/ /\ ~job[i].aborted /\ job[i].kind = "track"
        /\ JobGoTo(i, "token") \/ JobGoTo(i, "updating") \/ JobAsk(i, "skipped")
        /\ UNCHANGED backVars
     \/ ~job[i].aborted /\ job[i].kind = "youtube" /\ Send(i, 1)
  /\ UNCHANGED <<response, lateCancel, stopVars>>

\* The answer of AddDownloadJob.  A track whose file exists is skipped, after
\* an update of its tags if the settings ask for one.
AddAnswered(i) ==
  /\ job[i].pc = "added"
  /\ \/ job[i].aborted /\ JobAsk(i, "cancelled") /\ UNCHANGED backVars
     \/ /\ ~job[i].aborted /\ job[i].kind = "track"
        /\ \/ JobGoTo(i, "token")
           \/ JobGoTo(i, "updating")
           \/ JobAsk(i, "skipped")
        /\ UNCHANGED backVars
     \/ ~job[i].aborted /\ job[i].kind = "youtube" /\ Send(i, 1)
  /\ UNCHANGED <<response, lateCancel, stopVars>>

\* The answer of the update of an existing file's tags.
UpdateAnswered(i, ok) ==
  /\ job[i].pc = "updating"
  /\ JobAsk(i, IF job[i].aborted THEN "cancelled"
               ELSE IF ok THEN "skipped" ELSE "failed")
  /\ UNCHANGED <<backVars, response, lateCancel, stopVars>>

\* The first session token.
TokenAnswered(i, ok) ==
  /\ job[i].pc = "token"
  /\ \/ /\ job[i].aborted \/ ~ok
        /\ JobAsk(i, IF job[i].aborted THEN "cancelled" ELSE "failed")
        /\ UNCHANGED backVars
     \/ ~job[i].aborted /\ ok /\ Send(i, 1)
  /\ UNCHANGED <<response, lateCancel, stopVars>>

\* SkipDownloadItem, MarkDownloadItemFailed or CancelDownloadItem is answered.
\* A job that was aborted meanwhile waits for the cancellation the abort sent.
AskAnswered(i) ==
  /\ job[i].pc = "answered"
  /\ IF job[i].aborted /\ job[i].ask # "cancelled"
     THEN JobGoTo(i, "cancelWait") ELSE JobDone(i, job[i].ask)
  /\ UNCHANGED <<backVars, response, lateCancel, stopVars>>

CancelAnswered(i) ==
  /\ job[i].pc = "cancelWait" /\ i \notin lateCancel
  /\ JobDone(i, "cancelled")
  /\ UNCHANGED <<backVars, response, lateCancel, stopVars>>

\* Mutant of OutcomeOf: a job that was stopped is cancelled, whatever its
\* call answered.
OutcomeIfNotStopped(i) ==
  CASE job[i].aborted -> "cancelled"
    [] response[CallOf(i)] = "file" -> "completed"
    [] response[CallOf(i)] = "suspicious" -> "suspicious"
    [] response[CallOf(i)] = "exists" -> "skipped"
    [] response[CallOf(i)] = "canceled" -> "cancelled"
    [] response[CallOf(i)] = "error" -> "failed"

\* What the scheduler makes of the answer of a call.
OutcomeOf(i) ==
  CASE response[CallOf(i)] = "file" -> "completed"
    [] response[CallOf(i)] = "suspicious" -> "suspicious"
    [] response[CallOf(i)] = "exists" -> "skipped"
    [] response[CallOf(i)] = "canceled" -> "cancelled"
    [] response[CallOf(i)] = "error" ->
         IF job[i].aborted /\ job[i].kind = "track" THEN "cancelled" ELSE "failed"

\* The answer of DownloadTrack or RedownloadTrackFromYouTube.
\* runWithUnauthorizedRetry refreshes the token once after an error that
\* looks like a 401, unless the job was aborted.
CallAnswered(i, unauthorized) ==
  /\ job[i].pc = "calling"
  /\ call[CallOf(i)].pc = "left" /\ response[CallOf(i)] # "none"
  /\ unauthorized => /\ response[CallOf(i)] = "error"
                     /\ job[i].kind = "track" /\ job[i].attempt = 1
  /\ IF unauthorized /\ ~job[i].aborted
     THEN JobGoTo(i, "refreshing") ELSE JobDone(i, OutcomeOf(i))
  /\ UNCHANGED <<backVars, response, lateCancel, stopVars>>

\* Mutant of RefreshAnswered: a stop during the refresh is not seen.
RefreshAnsweredBlindly(i, ok) ==
  /\ job[i].pc = "refreshing"
  /\ \/ ~ok /\ JobDone(i, "failed") /\ UNCHANGED backVars
     \/ ok /\ Send(i, 2)
  /\ UNCHANGED <<response, lateCancel, stopVars>>

\* The answer of the token refresh.
RefreshAnswered(i, ok) ==
  /\ job[i].pc = "refreshing"
  /\ \/ /\ job[i].aborted \/ ~ok
        /\ JobDone(i, IF job[i].aborted THEN "cancelled" ELSE "failed")
        /\ UNCHANGED backVars
     \/ ~job[i].aborted /\ ok /\ Send(i, 2)
  /\ UNCHANGED <<response, lateCancel, stopVars>>

-----------------------------------------------------------------------------
(* Stops and sessions.                                                     *)

\* The queues' jobs are aborted.  The listener of a job that settles its item
\* at this moment sends a cancellation of the item.
Abort(stopped) ==
  LET hit == {i \in Executing : QueueOf[i] \in stopped /\ ~job[i].aborted}
  IN  /\ job' = [i \in ItemId |->
                   IF i \in hit THEN [job[i] EXCEPT !.aborted = TRUE]
                   ELSE job[i]]
      /\ lateCancel' = lateCancel \cup
           {i \in hit : /\ job[i].pc \in {"asking", "answered"}
                        /\ job[i].ask # "cancelled"}

\* The call of a queue's stop is memoized until jobs are added to the queue.
StopQueue(q, s) ==
  /\ q \in queues /\ cancelPromise[q] = None
  /\ Abort({q})
  /\ StartSweep(s, "queue", q)
  /\ cancelPromise' = [cancelPromise EXCEPT ![q] = s]
  /\ UNCHANGED <<response, session, queues>>

IdleSweeps == {s \in Sweep : sweep[s].pc = "idle"}
Unstopped == {q \in queues : cancelPromise[q] = None}

\* stopAllQueues, alone or as the beginning of startNewSession: every queue
\* is stopped at once.
StopAllQueues(reset) ==
  /\ session.pc = "idle"
  /\ Abort(queues)
  /\ \E slot \in [Unstopped -> IdleSweeps] :
       /\ \A p, q \in Unstopped : p # q => slot[p] # slot[q]
       /\ sweep' = [s \in Sweep |->
            IF \E q \in Unstopped : slot[q] = s
            THEN Called("queue", CHOOSE q \in Unstopped : slot[q] = s)
            ELSE sweep[s]]
       /\ cancelPromise' = [q \in Queue |->
            IF q \in Unstopped THEN slot[q] ELSE cancelPromise[q]]
  /\ session' = [session EXCEPT !.pc = "stopping", !.reset = reset,
                   !.stops = {cancelPromise'[q] : q \in queues}]
  /\ UNCHANGED <<items, call, registry, cancelled, activeWG, writing,
                 shuttingDown, historyOpen, response, queues>>

\* Once the queues' stops are answered, cancelActiveDownloads is called.
CancelActive(s) ==
  /\ session.pc = "stopping"
  /\ \A t \in session.stops : sweep[t].pc = "done"
  /\ StartSweep(s, "active", None)
  /\ session' = [session EXCEPT !.pc = "cancelling", !.stops = {s}]
  /\ UNCHANGED <<jobVars, queues, cancelPromise>>

\* Mutant of WaitForIdle: nobody is awaited.
WaitForNobody ==
  /\ session.pc = "cancelling"
  /\ \A t \in session.stops : sweep[t].pc = "done"
  /\ session' = [session EXCEPT !.pc = "waiting", !.awaited = {}]
  /\ UNCHANGED <<backVars, jobVars, queues, cancelPromise>>

\* waitForIdle looks at the executions once.
WaitForIdle ==
  /\ session.pc = "cancelling"
  /\ \A t \in session.stops : sweep[t].pc = "done"
  /\ session' = [session EXCEPT !.pc = "waiting", !.awaited = Executing]
  /\ UNCHANGED <<backVars, jobVars, queues, cancelPromise>>

\* The executions settled: stopAllQueues returns, or the list is cleared.
Stopped(s) ==
  /\ session.pc = "waiting"
  /\ \A i \in session.awaited : job[i].pc = "done"
  /\ \/ /\ ~session.reset
        /\ session' = [session EXCEPT !.pc = "idle"]
        /\ UNCHANGED backVars
     \/ /\ session.reset
        /\ StartSweep(s, "clear", None)
        /\ session' = [session EXCEPT !.pc = "clearing", !.stops = {s}]
  /\ UNCHANGED <<jobVars, queues, cancelPromise>>

\* clearAllDownloads is answered and the scheduler is reset.
Reset ==
  /\ session.pc = "clearing"
  /\ \A t \in session.stops : sweep[t].pc = "done"
  /\ session' = [session EXCEPT !.pc = "fresh"]
  /\ queues' = {}
  /\ cancelPromise' = [q \in Queue |-> None]
  /\ UNCHANGED <<backVars, jobVars>>

-----------------------------------------------------------------------------
(* Steps of the backend.                                                   *)

HandleAdd(i) ==
  /\ job[i].pc = "adding"
  /\ AddQueueItem(i)
  /\ JobGoTo(i, "added")
  /\ UNCHANGED <<response, lateCancel, stopVars>>

HandleAsk(i) ==
  /\ job[i].pc = "asking"
  /\ SettleItem(i, job[i].ask)
  /\ JobGoTo(i, "answered")
  /\ UNCHANGED <<response, lateCancel, stopVars>>

HandleLateCancel(i) ==
  /\ i \in lateCancel
  /\ SettleItem(i, "cancelled")
  /\ lateCancel' = lateCancel \ {i}
  /\ UNCHANGED <<job, response, stopVars>>

Answer(c, answer) ==
  response' = [response EXCEPT ![c] = answer]

\* A step of the goroutine of a call; some decide its answer.  No call replaces
\* another here, since a job calls again only after an answer, and nothing
\* shuts down.
HandleCall(c) ==
  /\ \/ /\ \/ Begin(c) \/ StartDownloadItem(c)
           \/ AddHistoryItemAsync(c) \/ CancelOwn(c) \/ Unregister(c)
        /\ UNCHANGED response
     \/ SettleResult(c) /\ Answer(c, call[c].result)
     \/ /\ CheckContext(c)
        /\ Answer(c, IF c \in cancelled THEN "canceled"
                     ELSE IF call[c].result = "empty" THEN "error" ELSE "none")
     \/ \E moved \in BOOLEAN :
          Report(c, moved) /\ Answer(c, IF moved THEN call[c].result ELSE "error")
  /\ UNCHANGED <<job, lateCancel, stopVars>>

Work(c) ==
  /\ \/ \E result \in Results : Return(c, result)
     \/ WriteHistory(c)
  /\ UNCHANGED frontVars

HandleSweep(s) == SweepStep(s) /\ UNCHANGED frontVars

\* The user clears the history: the terminal items leave the list.
ClearHistory == ClearDownloadQueue /\ UNCHANGED frontVars

JobStep(i) ==
  \/ HandleAdd(i) \/ AddAnswered(i)
  \/ \E ok \in BOOLEAN : \/ UpdateAnswered(i, ok)
                         \/ TokenAnswered(i, ok)
                         \/ RefreshAnswered(i, ok)
  \/ HandleAsk(i) \/ AskAnswered(i) \/ CancelAnswered(i)
  \/ \E unauthorized \in BOOLEAN : CallAnswered(i, unauthorized)

SessionStep ==
  \/ \E s \in Sweep : CancelActive(s) \/ Stopped(s)
  \/ WaitForIdle \/ Reset

JobNext ==
  \/ \E i \in ItemId : Execute(i) \/ JobStep(i) \/ HandleLateCancel(i)
  \/ \E c \in Call : HandleCall(c) \/ Work(c)
  \/ \E q \in Queue, s \in Sweep : StopQueue(q, s)
  \/ \E reset \in BOOLEAN : StopAllQueues(reset)
  \/ SessionStep
  \/ \E s \in Sweep : HandleSweep(s)
  \/ ClearHistory

JobSpec == JobInit /\ [][JobNext]_allVars

\* The frontend goes on, its short calls are handled and the token helper
\* answers, since it has a timeout.  Nothing is asked of downloads.
JobFairness ==
  \A i \in ItemId : WF_allVars(JobStep(i)) /\ WF_allVars(HandleLateCancel(i))

FairJobSpec == JobSpec /\ JobFairness

-----------------------------------------------------------------------------
(* Properties.                                                             *)

IsDone(i) == job[i].pc = "done"

\* No ghosts: once a job settled in the frontend, the backend does not list
\* its item as queued or downloading for ever, whichever of registration,
\* token, skip, failure, retry and stop came first.
NoGhostItems == \A i \in ItemId : IsDone(i) => items[i] \notin Unfinished

\* The row the backend shows for a job that settled undisturbed.
Row(i) ==
  CASE job[i].outcome = "suspicious" /\ job[i].kind = "youtube" -> "failed"
    [] job[i].outcome = "suspicious" /\ job[i].kind = "track" -> "completed"
    [] OTHER -> job[i].outcome

\* A job that was neither stopped nor retried ends in the page as it does in
\* the backend's list, unless a cleared history has forgotten its item.  And
\* no stop hides a download: what the list shows as completed, the page does
\* not report as cancelled, failed or skipped, whenever the stop came.
\* Nothing is claimed of the row of a stopped or retried job beyond that.
OutcomesAgree ==
  \A i \in ItemId : IsDone(i) =>
    /\ job[i].attempt = 1 /\ ~job[i].aborted => items[i] \in {"absent", Row(i)}
    /\ items[i] = "completed" => job[i].outcome \in {"completed", "suspicious"}

\* A new session starts clean: when startNewSession returns no job executes,
\* no download of the old session runs, and the list of the backend is empty.
FreshSessionIsClean ==
  session.pc = "fresh" =>
    /\ Executing = {} /\ lateCancel = {}
    /\ \A c \in Call : call[c].pc \in {"idle", "left"}
    /\ \A i \in ItemId : items[i] = "absent"

\* A job that was stopped sends no further download, whatever it waited for
\* when the stop came: the registration, a token or a token refresh.
StoppedJobsSendNothing ==
  [][\A i \in ItemId, n \in {1, 2} :
       call[<<i, n>>].pc = "idle" /\ call'[<<i, n>>].pc # "idle"
         => ~job[i].aborted]_allVars

\* A job that is stopped while no download of it runs settles, without the
\* help of the stop in the backend.
StoppedJobsSettle ==
  \A i \in ItemId :
    job[i].aborted /\ job[i].pc # "calling" ~> IsDone(i)
=============================================================================
