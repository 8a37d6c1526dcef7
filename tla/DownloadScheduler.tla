------------------------- MODULE DownloadScheduler -------------------------
(***************************************************************************)
(* The dynamic download scheduler of the frontend,                         *)
(* createDynamicDownloadScheduler in                                       *)
(* frontend/src/lib/download-queue-manager.ts.                             *)
(*                                                                         *)
(* Several queues (one per album, playlist, ...) share at most Concurrency *)
(* slots.  JavaScript runs each handler to completion, so every method of  *)
(* the scheduler, with the pump it ends in, is one action; what interleaves*)
(* is the settling of the promises the executor returned and the calls of  *)
(* the user interface.                                                     *)
(*                                                                         *)
(* A job is named by its ticket, the position at which addJob considered   *)
(* it; a rejected candidate uses up a ticket too.  Every caller of         *)
(* enqueueMany passes candidates of one queue, so a batch is a queue and a *)
(* sequence of items.                                                      *)
(***************************************************************************)
EXTENDS Integers, Sequences, FiniteSets

CONSTANTS
  Queue,        \* queue ids
  Track,        \* track keys, scoped by queue as in matchingKey
  Concurrency,  \* slots shared by all queues
  Batches,      \* the item sequences a caller may pass to enqueueMany
  Results,      \* what classifyResult may make of a fulfilled promise
  MaxTickets    \* bound: candidates considered in one session

Item == [track : Track, unavailable : BOOLEAN]

Terminal == {"completed", "skipped", "failed", "suspicious", "cancelled",
             "unavailable"}
Status   == Terminal \cup {"queued", "active"}
Policy   == {"unseen-only", "retry-terminal"}

ASSUME ConcurrencyAssumption == Concurrency \in 1..3
ASSUME BatchesAssumption == Batches \subseteq Seq(Item)
ASSUME ResultsAssumption == Results \subseteq (Status \cup {"throws"})
ASSUME MaxTicketsAssumption == MaxTickets \in Nat

None == 0                    \* no ticket

Job == [queue : Queue, track : Track, status : Status, force : BOOLEAN,
        aborted : BOOLEAN]

VARIABLES
  jobs,            \* ticket -> job, for the jobs in the lists of the queues
  nextTicket,      \* the next ticket
  queueOrder,      \* queue ids in the order of their first candidate
  rotationCursor,  \* where the next round-robin search starts
  cancelled,       \* queue -> the queue's cancelled flag
  cancelPromise,   \* queue -> the memoized answer of cancelBackendQueue
  latestByKey,     \* <<queue, track>> -> ticket of its latest job, or None
  executions,      \* tickets whose execute promise has not settled
  activeCount,     \* slots in use
  disposed,        \* dispose has run
  attempted,       \* history: keys that had a job in this session
  passedOver       \* history: queue -> how often each other queue was served
                   \* while this one kept waiting

slotVars == <<jobs, rotationCursor, activeCount, executions, passedOver>>
vars == <<slotVars, nextTicket, queueOrder, cancelled, cancelPromise,
          latestByKey, disposed, attempted>>

Tickets == DOMAIN jobs
\* A job that clearCompleted dropped was settled, and stays so.
IsSettled(j) == j \in Tickets => jobs[j].status \in Terminal
WithStatus(js, s) == {j \in DOMAIN js : js[j].status = s}
Active == WithStatus(jobs, "active")
Queued == WithStatus(jobs, "queued")
Key(job) == <<job.queue, job.track>>

-----------------------------------------------------------------------------
(* What pump reads and writes, as one record.                              *)

Slots == [jobs |-> jobs, cursor |-> rotationCursor, active |-> activeCount,
          running |-> executions, passed |-> passedOver]

QueuedIn(js, q) == {j \in WithStatus(js, "queued") : js[j].queue = q}
Waiting(s, stopped, q) == ~stopped[q] /\ QueuedIn(s.jobs, q) # {}

\* The queue at distance k from the cursor, and its position.
IndexAt(s, order, k) == (s.cursor + k) % Len(order)
QueueAt(s, order, k) == order[IndexAt(s, order, k) + 1]

\* The distances at which nextRunnableQueue stops: at most one.
Runnable(s, order, stopped) ==
  {k \in 0..(Len(order) - 1) :
     /\ Waiting(s, stopped, QueueAt(s, order, k))
     /\ \A l \in 0..(k - 1) : ~Waiting(s, stopped, QueueAt(s, order, l))}

\* The first queued job of queue q: at most one.
FirstQueued(s, q) ==
  {j \in QueuedIn(s.jobs, q) : \A i \in QueuedIn(s.jobs, q) : j <= i}

NoTurns == [q \in Queue |-> 0]

\* Mutant of StartJob: the cursor stays on the queue that was served.
StartJobCursorStays(s, order, stopped, k, j) ==
  LET q == QueueAt(s, order, k)
  IN  [jobs    |-> [s.jobs EXCEPT ![j].status = "active"],
       cursor  |-> IndexAt(s, order, k),
       active  |-> s.active + 1,
       running |-> s.running \cup {j},
       passed  |-> [p \in Queue |->
                      IF p = q \/ ~Waiting(s, stopped, p)
                      THEN NoTurns ELSE [s.passed[p] EXCEPT ![q] = @ + 1]]]

\* The body of pump's loop for the job j of the queue at distance k.
StartJob(s, order, stopped, k, j) ==
  LET q == QueueAt(s, order, k)
  IN  [jobs    |-> [s.jobs EXCEPT ![j].status = "active"],
       cursor  |-> IndexAt(s, order, k) + 1,
       active  |-> s.active + 1,
       running |-> s.running \cup {j},
       passed  |-> [p \in Queue |->
                      IF p = q \/ ~Waiting(s, stopped, p)
                      THEN NoTurns ELSE [s.passed[p] EXCEPT ![q] = @ + 1]]]

\* The pairs of a distance and a job that the loop may start next.
Startable(s, order, stopped) ==
  {kj \in Runnable(s, order, stopped) \X DOMAIN s.jobs :
     kj[2] \in FirstQueued(s, QueueAt(s, order, kj[1]))}

\* Mutant of PumpOnce: the loop runs once too often.
PumpOnceTooOften(s, order, stopped) ==
  IF ~disposed /\ s.active <= Concurrency /\ Startable(s, order, stopped) # {}
  THEN {StartJob(s, order, stopped, kj[1], kj[2]) :
          kj \in Startable(s, order, stopped)}
  ELSE {s}

\* One round of the loop: the slots after it, a single value.
PumpOnce(s, order, stopped) ==
  IF ~disposed /\ s.active < Concurrency /\ Startable(s, order, stopped) # {}
  THEN {StartJob(s, order, stopped, kj[1], kj[2]) :
          kj \in Startable(s, order, stopped)}
  ELSE {s}

\* Concurrency is at most three, so three rounds exhaust the loop.
Pump(s, order, stopped) ==
  \E s1 \in PumpOnce(s, order, stopped) :
  \E s2 \in PumpOnce(s1, order, stopped) :
  \E s3 \in PumpOnce(s2, order, stopped) :
    /\ jobs' = s3.jobs
    /\ rotationCursor' = s3.cursor
    /\ activeCount' = s3.active
    /\ executions' = s3.running
    /\ passedOver' = s3.passed

-----------------------------------------------------------------------------
Init ==
  /\ jobs = <<>>
  /\ nextTicket = 1
  /\ queueOrder = <<>>
  /\ rotationCursor = 0
  /\ cancelled = [q \in Queue |-> FALSE]
  /\ cancelPromise = [q \in Queue |-> "none"]
  /\ latestByKey = [key \in Queue \X Track |-> None]
  /\ executions = {}
  /\ activeCount = 0
  /\ disposed = FALSE
  /\ attempted = {}
  /\ passedOver = [q \in Queue |-> NoTurns]

HasQueue(q) == \E n \in DOMAIN queueOrder : queueOrder[n] = q

\* queueFor: a queue joins the rotation with its first candidate.
OrderWith(q) == IF HasQueue(q) THEN queueOrder ELSE Append(queueOrder, q)

\* Mutant of Accepted: a retry does not ask whether the track is in flight.
AcceptedInFlight(q, items, policy) ==
  {n \in DOMAIN items :
     \/ policy = "retry-terminal"
     \/ /\ latestByKey[<<q, items[n].track>>] = None
        /\ \A m \in 1..(n - 1) : items[m].track # items[n].track}

\* The items of the batch that addJob accepts.  Within one batch an earlier
\* item of the same track is already the latest job of its key.
Accepted(q, items, policy) ==
  {n \in DOMAIN items :
     LET latest  == latestByKey[<<q, items[n].track>>]
         earlier == {m \in 1..(n - 1) : items[m].track = items[n].track}
     IN  \/ /\ policy = "unseen-only"
            /\ latest = None
            /\ earlier = {}
         \/ /\ policy = "retry-terminal"
            /\ latest # None => IsSettled(latest)
            /\ \A m \in earlier : items[m].unavailable}

\* A retry of a track seen before is forced.
NewJob(q, items, policy, n) ==
  [queue   |-> q,
   track   |-> items[n].track,
   status  |-> IF items[n].unavailable THEN "unavailable" ELSE "queued",
   force   |-> /\ policy = "retry-terminal"
               /\ \/ latestByKey[<<q, items[n].track>>] # None
                  \/ \E m \in 1..(n - 1) : items[m].track = items[n].track,
   aborted |-> FALSE]

\* The item of the batch that a new ticket stands for.
Position(j) == j - nextTicket + 1

NewTickets(q, items, policy) ==
  {j \in nextTicket..(nextTicket + Len(items) - 1) :
     Position(j) \in Accepted(q, items, policy)}

AddJobs(q, items, policy) ==
  [j \in Tickets \cup NewTickets(q, items, policy) |->
     IF j \in Tickets THEN jobs[j] ELSE NewJob(q, items, policy, Position(j))]

\* The last accepted item of each track becomes the latest job of its key.
LatestAfter(q, items, policy) ==
  [key \in Queue \X Track |->
     LET mine == {j \in NewTickets(q, items, policy) :
                    key = <<q, items[Position(j)].track>>}
         last == {j \in mine : \A i \in mine : i <= j}
     IN  IF last = {} THEN latestByKey[key] ELSE CHOOSE j \in last : TRUE]

\* enqueueMany: the whole batch is added before the first job starts.
EnqueueMany(q, items, policy) ==
  /\ ~disposed
  /\ items # <<>>
  /\ nextTicket + Len(items) <= MaxTickets + 1
  /\ nextTicket' = nextTicket + Len(items)
  /\ queueOrder' = OrderWith(q)
  /\ latestByKey' = LatestAfter(q, items, policy)
  /\ UNCHANGED disposed
  /\ \/ /\ Accepted(q, items, policy) # {}
        /\ cancelled' = [cancelled EXCEPT ![q] = FALSE]
        /\ cancelPromise' = [cancelPromise EXCEPT ![q] = "none"]
        /\ attempted' = attempted \cup
             {<<q, items[n].track>> : n \in Accepted(q, items, policy)}
        /\ Pump([Slots EXCEPT !.jobs = AddJobs(q, items, policy)],
                OrderWith(q), cancelled')
     \/ /\ Accepted(q, items, policy) = {}
        /\ UNCHANGED <<slotVars, cancelled, cancelPromise, attempted>>

-----------------------------------------------------------------------------
(* Settling of the promise of an execution.                                *)

\* Slots after job j left its slot with the given status.
Finished(j, status) ==
  [Slots EXCEPT !.jobs = [@ EXCEPT ![j].status = status],
                !.active = @ - 1,
                !.running = @ \ {j}]

Classified(result) == IF result \in Terminal THEN result ELSE "failed"

Fulfil(j, result) ==
  /\ j \in executions /\ ~IsSettled(j)
  /\ Pump(Finished(j, Classified(result)), queueOrder, cancelled)
  /\ UNCHANGED <<nextTicket, queueOrder, cancelled, cancelPromise,
                 latestByKey, disposed, attempted>>

\* Mutant of Reject: a failed execution does not pump.
RejectWithoutPump(j) ==
  /\ j \in executions /\ ~IsSettled(j)
  /\ jobs' = [jobs EXCEPT ![j].status = "failed"]
  /\ activeCount' = activeCount - 1
  /\ executions' = executions \ {j}
  /\ UNCHANGED <<rotationCursor, passedOver, nextTicket, queueOrder,
                 cancelled, cancelPromise, latestByKey, disposed, attempted>>

Reject(j) ==
  /\ j \in executions /\ ~IsSettled(j)
  /\ Pump(Finished(j, IF jobs[j].aborted THEN "cancelled" ELSE "failed"),
          queueOrder, cancelled)
  /\ UNCHANGED <<nextTicket, queueOrder, cancelled, cancelPromise,
                 latestByKey, disposed, attempted>>

\* The promise of a job that dispose settled: the answer is ignored.
LateSettle(j) ==
  /\ j \in executions /\ IsSettled(j)
  /\ executions' = executions \ {j}
  /\ UNCHANGED <<jobs, rotationCursor, activeCount, passedOver, nextTicket,
                 queueOrder, cancelled, cancelPromise, latestByKey, disposed,
                 attempted>>

-----------------------------------------------------------------------------
(* Calls of the user interface.                                            *)

\* cancelQueue settles the queued jobs; an active one is only told to abort.
StopJobs(q) ==
  [j \in Tickets |->
     IF jobs[j].queue # q THEN jobs[j]
     ELSE CASE jobs[j].status = "queued" ->
                 [jobs[j] EXCEPT !.status = "cancelled"]
            [] jobs[j].status = "active" ->
                 [jobs[j] EXCEPT !.aborted = TRUE]
            [] OTHER -> jobs[j]]

CancelQueue(q) ==
  /\ HasQueue(q)
  /\ \/ /\ ~cancelled[q]
        /\ cancelled' = [cancelled EXCEPT ![q] = TRUE]
        /\ Pump([Slots EXCEPT !.jobs = StopJobs(q)], queueOrder, cancelled')
     \/ /\ cancelled[q]
        /\ UNCHANGED <<slotVars, cancelled>>
  /\ cancelPromise' = [cancelPromise EXCEPT
                         ![q] = IF @ = "none" THEN "pending" ELSE @]
  /\ UNCHANGED <<nextTicket, queueOrder, latestByKey, disposed, attempted>>

\* The memoized call is answered; that it failed changes nothing here.
BackendCancelled(q) ==
  /\ cancelPromise[q] = "pending"
  /\ cancelPromise' = [cancelPromise EXCEPT ![q] = "answered"]
  /\ UNCHANGED <<slotVars, nextTicket, queueOrder, cancelled, latestByKey,
                 disposed, attempted>>

\* Mutant of ClearCompleted: the tracks are forgotten with their jobs.
ClearCompletedForgets ==
  /\ jobs' = [j \in Active \cup Queued |-> jobs[j]]
  /\ latestByKey' = [key \in Queue \X Track |->
       IF latestByKey[key] \in Active \cup Queued
       THEN latestByKey[key] ELSE None]
  /\ UNCHANGED <<nextTicket, queueOrder, rotationCursor, cancelled,
                 cancelPromise, executions, activeCount, disposed, attempted,
                 passedOver>>

\* clearCompleted drops settled jobs from the lists but not from latestByKey:
\* their tracks stay represented.
ClearCompleted ==
  /\ jobs' = [j \in Active \cup Queued |-> jobs[j]]
  /\ UNCHANGED <<nextTicket, queueOrder, rotationCursor, cancelled,
                 cancelPromise, latestByKey, executions, activeCount, disposed,
                 attempted, passedOver>>

Reset ==
  /\ activeCount <= 0
  /\ jobs' = <<>>
  /\ nextTicket' = 1
  /\ queueOrder' = <<>>
  /\ rotationCursor' = 0
  /\ cancelled' = [q \in Queue |-> FALSE]
  /\ cancelPromise' = [q \in Queue |-> "none"]
  /\ latestByKey' = [key \in Queue \X Track |-> None]
  /\ attempted' = {}
  /\ passedOver' = [q \in Queue |-> NoTurns]
  /\ UNCHANGED <<executions, activeCount, disposed>>

Dispose ==
  /\ ~disposed
  /\ disposed' = TRUE
  /\ cancelled' = [q \in Queue |-> HasQueue(q)]
  /\ jobs' = [j \in Tickets |->
                IF jobs[j].status \in Terminal THEN jobs[j]
                ELSE [jobs[j] EXCEPT !.status = "cancelled",
                                     !.aborted = jobs[j].status = "active"]]
  /\ activeCount' = activeCount - Cardinality(WithStatus(jobs, "active"))
  /\ UNCHANGED <<nextTicket, queueOrder, rotationCursor, cancelPromise,
                 latestByKey, executions, attempted, passedOver>>

-----------------------------------------------------------------------------
Settle(j) ==
  \/ LateSettle(j)
  \/ Reject(j)
  \/ \E result \in Results : Fulfil(j, result)

Next ==
  \/ \E q \in Queue, items \in Batches, policy \in Policy :
       EnqueueMany(q, items, policy)
  \/ \E j \in executions : Settle(j)
  \/ \E q \in Queue : CancelQueue(q)
  \/ \E q \in Queue : BackendCancelled(q)
  \/ ClearCompleted
  \/ Reset
  \/ Dispose

Spec == Init /\ [][Next]_vars

\* An execution always settles: every call it awaits is answered by the
\* backend.  Nothing is asked of the user or of the cancellation call.
Fairness == \A j \in 1..MaxTickets : WF_vars(Settle(j))
FairSpec == Spec /\ Fairness

-----------------------------------------------------------------------------
(* Properties.                                                             *)

SchedulerTypeOK ==
  /\ nextTicket \in 1..(MaxTickets + 1)
  /\ Tickets \subseteq 1..(nextTicket - 1)
  /\ jobs \in [Tickets -> Job]
  /\ queueOrder \in Seq(Queue)
  /\ rotationCursor \in 0..Len(queueOrder)
  /\ cancelled \in [Queue -> BOOLEAN]
  /\ cancelPromise \in [Queue -> {"none", "pending", "answered"}]
  /\ latestByKey \in [Queue \X Track -> 0..MaxTickets]
  /\ executions \subseteq 1..MaxTickets
  /\ activeCount \in 0..Concurrency
  /\ disposed \in BOOLEAN
  /\ attempted \subseteq Queue \X Track
  /\ passedOver \in [Queue -> [Queue -> Nat]]

\* The slot counter that pump trusts never drifts from the jobs that hold a
\* slot, whatever order cancellations, late settlements and dispose come in,
\* so no more than Concurrency downloads run and no slot is leaked.
SlotAccounting ==
  /\ activeCount = Cardinality(Active)
  /\ ~disposed => executions = Active

\* A track is never downloaded twice at once in its queue: the live job of a
\* key, if there is one, is the latest job of that key.
OneLiveJobPerKey ==
  \A j \in Active \cup Queued :
    latestByKey[Key(jobs[j])] = j

\* After every handler no slot is idle while a job waits: each path that
\* frees a slot or adds a job ends in pump, also the cancellation of another
\* queue and the rejection of an execution.
WorkConserving == activeCount < Concurrency => Queued = {}

\* A stopped queue holds no job that a later pump could start.
StoppedQueueIsDrained ==
  \A q \in Queue : cancelled[q] => QueuedIn(jobs, q) = {}

\* Round robin: while a queue waits, no other queue is served twice, even
\* when queues join the rotation behind the cursor in between.
RoundRobin == \A p, q \in Queue : passedOver[p][q] <= 1

\* A queue is stopped exactly while a call of cancelBackendQueue is memoized
\* for it, so that a queue that was refilled can be stopped again.
StopReachesBackend ==
  ~disposed => \A q \in Queue : cancelled[q] <=> cancelPromise[q] # "none"

\* Nothing is left running for the scheduler once it is disposed.
DisposedIsQuiet == disposed => Active \cup Queued = {} /\ activeCount = 0

\* The outcome of a job is final: neither a late settlement nor a stop of its
\* queue changes it; only a reset forgets it.
OutcomeIsFinal ==
  [][\A j \in Tickets :
       jobs[j].status \in Terminal /\ j \in DOMAIN jobs'
         => jobs'[j].status = jobs[j].status]_vars

\* In one session a track is attempted at most once without force, also when
\* its finished job was cleared in between: a playlist fetched again does not
\* download again what it downloaded before.
OneUnforcedAttemptPerKey ==
  [][\A j \in DOMAIN jobs' \ Tickets :
       ~jobs'[j].force => Key(jobs'[j]) \notin attempted]_vars

\* Every queued job settles or is forgotten, if every execution settles.
QueuedJobsSettle ==
  \A j \in 1..MaxTickets : j \in Queued ~> IsSettled(j)

\* What a user sees of a track, and the abstract pool it implements.
TrackPhase ==
  [key \in Queue \X Track |->
     IF latestByKey[key] = None THEN "absent"
     ELSE CASE latestByKey[key] \in Queued -> "waiting"
            [] latestByKey[key] \in Active -> "running"
            [] OTHER -> "finished"]

Pool == INSTANCE SlotPool WITH Client <- Queue \X Track,
                               Slots <- Concurrency,
                               phase <- TrackPhase

\* Every step of the scheduler is a step of the pool or changes no phase.
ImplementsSlotPool == Pool!Spec
=============================================================================
