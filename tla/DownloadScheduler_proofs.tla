---------------------- MODULE DownloadScheduler_proofs ----------------------
(***************************************************************************)
(* Proofs about DownloadScheduler, for every set of queues, tracks and     *)
(* batches and every admissible concurrency.                               *)
(*                                                                         *)
(* The difficulty is pump, which ends almost every handler.  The lemmas    *)
(* about one round of it (PumpOnceKeeps) and about three (PumpKeeps) say   *)
(* that it keeps the slots well formed and only turns queued jobs into     *)
(* active ones; each action is then reduced to the slots it hands to pump. *)
(*                                                                         *)
(* The first invariant, IInv, accounts for slots and jobs.  The second,    *)
(* BookedInv, keeps the books that the promises to a user need: the index  *)
(* forgets no attempt and names only jobs of its track, the jobs are in    *)
(* the rotation, and after every handler no slot is idle (PumpExhausts).   *)
(* From it follow final outcomes, forced repeats and, as every step only   *)
(* moves jobs forward (Evolves, Goes), that the scheduler implements       *)
(* SlotPool.  Round robin needs a third one, Rotation: a queue that was    *)
(* served while another waited is behind it in the rotation.               *)
(***************************************************************************)
EXTENDS DownloadScheduler, FiniteSetTheorems, TLAPS

\* The slots as a record that pump may work on.
SlotsOK(s, order) ==
  /\ DOMAIN s.jobs \subseteq 1..MaxTickets
  /\ s.jobs \in [DOMAIN s.jobs -> Job]
  /\ s.cursor \in 0..Len(order)
  /\ s.active \in 0..Concurrency
  /\ s.active = Cardinality(WithStatus(s.jobs, "active"))
  /\ s.running \subseteq 1..MaxTickets
  /\ ~disposed => s.running = WithStatus(s.jobs, "active")
  /\ s.passed \in [Queue -> [Queue -> Nat]]

\* The jobs ks are the jobs js after some queued ones were started.
Started(js, ks) ==
  /\ DOMAIN ks = DOMAIN js
  /\ \A j \in DOMAIN js :
       \/ ks[j] = js[j]
       \/ /\ js[j].status = "queued"
          /\ ks[j] = [js[j] EXCEPT !.status = "active"]

\* dispose stops every queue, and none is added after it.
DisposedStopsQueues ==
  disposed => \A q \in Queue : HasQueue(q) => cancelled[q]

\* The inductive invariant.
IInv ==
  /\ SchedulerTypeOK
  /\ SlotAccounting
  /\ OneLiveJobPerKey
  /\ StoppedQueueIsDrained
  /\ StopReachesBackend
  /\ DisposedIsQuiet
  /\ DisposedStopsQueues

-----------------------------------------------------------------------------
(* Numbers.                                                                *)

\* A set of natural numbers has a least element.
LEMMA SmallestOf ==
  ASSUME NEW S, S \subseteq Nat, S # {}
  PROVE  \E n \in S : \A m \in S : n <= m
<1>1. PICK n \in S : \A m \in S : <<m, n>> \notin OpToRel(<, Nat)
  BY NatLessThanWellFounded, WFMin
<1>2. \A m \in S : ~(m < n)
  BY <1>1 DEF OpToRel
<1> QED
  BY <1>2

\* A bounded one has a greatest element.
LEMMA GreatestOf ==
  ASSUME NEW N \in Nat, NEW S, S \subseteq 1..N, S # {}
  PROVE  \E n \in S : \A m \in S : m <= n
<1> DEFINE T == {N - s : s \in S}
<1>1. PICK x \in S : TRUE
  OBVIOUS
<1>2. \A s \in S : s \in Nat /\ N - s \in Nat
  OBVIOUS
<1>3. T \subseteq Nat /\ N - x \in T
  BY <1>2
<1>4. PICK t \in T : \A u \in T : t <= u
  <2> HIDE DEF T
  <2> QED
    BY <1>3, SmallestOf
<1>5. PICK n \in S : t = N - n
  OBVIOUS
<1>6. \A m \in S : N - n <= N - m
  BY <1>4, <1>5
<1> QED
  BY <1>2, <1>6

\* The remainder of a position, and of a position one turn later.
LEMMA OneTurn ==
  ASSUME NEW n \in Nat, n > 0, NEW i \in 0..(n - 1)
  PROVE  i % n = i /\ (i + n) % n = i
OBVIOUS

-----------------------------------------------------------------------------
\* The jobs of one status are finitely many.
LEMMA ActiveFinite ==
  ASSUME NEW js, DOMAIN js \subseteq 1..MaxTickets, NEW st
  PROVE  /\ IsFiniteSet(WithStatus(js, st))
         /\ Cardinality(WithStatus(js, st)) \in Nat
<1>1. IsFiniteSet(1..MaxTickets)
  BY FS_Interval, MaxTicketsAssumption
<1>2. WithStatus(js, st) \in SUBSET (1..MaxTickets)
  BY DEF WithStatus
<1> QED
  BY <1>1, <1>2, FS_Subset, FS_CardinalityType

\* Where the round-robin search stops lies in the order of the queues.
LEMMA IndexInOrder ==
  ASSUME NEW s, NEW order \in Seq(Queue), s.cursor \in 0..Len(order),
         NEW k \in 0..(Len(order) - 1)
  PROVE  /\ IndexAt(s, order, k) \in 0..(Len(order) - 1)
         /\ QueueAt(s, order, k) \in Queue
<1>1. Len(order) \in Nat /\ Len(order) > 0 /\ s.cursor + k \in Nat
  OBVIOUS
<1>2. IndexAt(s, order, k) \in 0..(Len(order) - 1)
  BY <1>1 DEF IndexAt
<1> QED
  BY <1>1, <1>2 DEF QueueAt

\* A round of the loop keeps the slots well formed and starts at most a job.
LEMMA PumpOnceKeeps ==
  ASSUME NEW s, NEW order \in Seq(Queue), NEW stopped,
         SlotsOK(s, order), NEW t \in PumpOnce(s, order, stopped)
  PROVE  SlotsOK(t, order) /\ Started(s.jobs, t.jobs)
<1>1. CASE t = s
  BY <1>1 DEF Started
<1>2. ASSUME s.active < Concurrency, ~disposed,
             NEW kj \in Startable(s, order, stopped),
             t = StartJob(s, order, stopped, kj[1], kj[2])
      PROVE  SlotsOK(t, order) /\ Started(s.jobs, t.jobs)
  <2> DEFINE k == kj[1]
             j == kj[2]
  <2>1. /\ k \in 0..(Len(order) - 1)
        /\ j \in DOMAIN s.jobs
        /\ s.jobs[j].status = "queued"
    BY <1>2 DEF Startable, Runnable, FirstQueued, QueuedIn, WithStatus
  <2>2. /\ IndexAt(s, order, k) \in 0..(Len(order) - 1)
        /\ QueueAt(s, order, k) \in Queue
    BY <2>1, IndexInOrder DEF SlotsOK
  <2>3. /\ t.jobs = [s.jobs EXCEPT ![j].status = "active"]
        /\ t.cursor = IndexAt(s, order, k) + 1
        /\ t.active = s.active + 1
        /\ t.running = s.running \cup {j}
    BY <1>2 DEF StartJob
  <2>4. t.passed \in [Queue -> [Queue -> Nat]]
    <3> DEFINE q == QueueAt(s, order, k)
               turns(p) == [s.passed[p] EXCEPT ![q] = @ + 1]
               keep(p) == p = q \/ ~Waiting(s, stopped, p)
    <3>1. s.passed \in [Queue -> [Queue -> Nat]] /\ q \in Queue
      BY <2>2 DEF SlotsOK
    <3>2. \A p \in Queue : turns(p) \in [Queue -> Nat]
      BY <3>1
    <3>3. NoTurns \in [Queue -> Nat]
      BY DEF NoTurns
    <3>4. t.passed = [p \in Queue |-> IF keep(p) THEN NoTurns ELSE turns(p)]
      BY <1>2 DEF StartJob
    <3> HIDE DEF turns, keep, q
    <3> QED
      BY <3>2, <3>3, <3>4
  <2>5. Started(s.jobs, t.jobs)
    BY <2>1, <2>3 DEF Started, SlotsOK
  <2>6. WithStatus(t.jobs, "active") = WithStatus(s.jobs, "active") \cup {j}
    BY <2>1, <2>3 DEF WithStatus, SlotsOK, Job
  <2>7. j \notin WithStatus(s.jobs, "active")
    BY <2>1 DEF WithStatus
  <2> HIDE DEF k, j
  <2>8. t.active = Cardinality(WithStatus(t.jobs, "active"))
    <3>1. IsFiniteSet(WithStatus(s.jobs, "active"))
      BY ActiveFinite DEF SlotsOK
    <3> QED
      BY <2>3, <2>6, <2>7, <3>1, FS_AddElement DEF SlotsOK
  <2>9. t.jobs \in [DOMAIN t.jobs -> Job] /\ DOMAIN t.jobs = DOMAIN s.jobs
    <3>1. s.jobs \in [DOMAIN s.jobs -> Job]
      BY DEF SlotsOK
    <3>2. [s.jobs[j] EXCEPT !.status = "active"] \in Job
      BY <2>1, <3>1 DEF Job, Status
    <3> QED
      BY <2>1, <2>3, <3>1, <3>2
  <2>10. t.cursor \in 0..Len(order) /\ t.active \in 0..Concurrency
    <3>1. Len(order) \in Nat
      OBVIOUS
    <3>2. t.cursor \in 0..Len(order)
      BY <2>2, <2>3, <3>1
    <3>3. s.active \in 0..Concurrency /\ s.active < Concurrency
      BY <1>2 DEF SlotsOK
    <3>4. t.active \in 0..Concurrency
      BY <2>3, <3>3, ConcurrencyAssumption
    <3> QED
      BY <3>2, <3>4
  <2> QED
    BY <1>2, <2>1, <2>3, <2>4, <2>5, <2>6, <2>8, <2>9, <2>10 DEF SlotsOK
<1> QED
  BY <1>1, <1>2 DEF PumpOnce

\* Starting jobs twice is starting them.
LEMMA StartedTransitive ==
  ASSUME NEW js, NEW ks, NEW ls, js \in [DOMAIN js -> Job],
         Started(js, ks), Started(ks, ls)
  PROVE  Started(js, ls)
BY DEF Started, Job

\* What pump starts keeps the slots exact and the jobs well typed.
LEMMA PumpKeeps ==
  ASSUME NEW s, NEW order \in Seq(Queue), NEW stopped,
         SlotsOK(s, order), Pump(s, order, stopped)
  PROVE  /\ Started(s.jobs, jobs')
         /\ DOMAIN jobs' \subseteq 1..MaxTickets
         /\ jobs' \in [DOMAIN jobs' -> Job]
         /\ rotationCursor' \in 0..Len(order)
         /\ activeCount' \in 0..Concurrency
         /\ activeCount' = Cardinality(Active')
         /\ executions' \subseteq 1..MaxTickets
         /\ ~disposed => executions' = Active'
         /\ passedOver' \in [Queue -> [Queue -> Nat]]
<1>1. PICK s1 \in PumpOnce(s, order, stopped) :
       \E s2 \in PumpOnce(s1, order, stopped) :
       \E s3 \in PumpOnce(s2, order, stopped) :
         /\ jobs' = s3.jobs
         /\ rotationCursor' = s3.cursor
         /\ activeCount' = s3.active
         /\ executions' = s3.running
         /\ passedOver' = s3.passed
  BY DEF Pump
<1>2. PICK s2 \in PumpOnce(s1, order, stopped) :
       \E s3 \in PumpOnce(s2, order, stopped) :
         /\ jobs' = s3.jobs
         /\ rotationCursor' = s3.cursor
         /\ activeCount' = s3.active
         /\ executions' = s3.running
         /\ passedOver' = s3.passed
  BY <1>1
<1>3. PICK s3 \in PumpOnce(s2, order, stopped) :
         /\ jobs' = s3.jobs
         /\ rotationCursor' = s3.cursor
         /\ activeCount' = s3.active
         /\ executions' = s3.running
         /\ passedOver' = s3.passed
  BY <1>2
<1>4. SlotsOK(s1, order) /\ Started(s.jobs, s1.jobs)
  BY PumpOnceKeeps
<1>5. SlotsOK(s2, order) /\ Started(s1.jobs, s2.jobs)
  BY <1>4, PumpOnceKeeps
<1>6. SlotsOK(s3, order) /\ Started(s2.jobs, s3.jobs)
  BY <1>5, PumpOnceKeeps
<1>7. Started(s.jobs, s3.jobs)
  <2>1. Started(s.jobs, s2.jobs)
    BY <1>4, <1>5, StartedTransitive DEF SlotsOK
  <2> QED
    BY <2>1, <1>6, StartedTransitive DEF SlotsOK
<1> QED
  BY <1>3, <1>6, <1>7 DEF SlotsOK, Active, WithStatus

-----------------------------------------------------------------------------
(* What starting queued jobs cannot break.                                 *)

LiveOK(js, latest) ==
  \A j \in DOMAIN js : js[j].status \in {"queued", "active"}
                         => latest[Key(js[j])] = j

Drained(js, stopped) == \A q \in Queue : stopped[q] => QueuedIn(js, q) = {}

\* Starting jobs keeps the index of live jobs, and stopped queues drained.
LEMMA StartedKeeps ==
  ASSUME NEW js, NEW ks, js \in [DOMAIN js -> Job], Started(js, ks),
         NEW latest, NEW stopped
  PROVE  /\ LiveOK(js, latest) => LiveOK(ks, latest)
         /\ Drained(js, stopped) => Drained(ks, stopped)
<1>1. \A j \in DOMAIN js :
        /\ ks[j].queue = js[j].queue /\ ks[j].track = js[j].track
        /\ ks[j].status \in {"queued", "active"}
             => js[j].status \in {"queued", "active"}
        /\ ks[j].status = "queued" => js[j].status = "queued"
  BY DEF Started, Job
<1>2. DOMAIN ks = DOMAIN js
  BY DEF Started
<1> QED
  BY <1>1, <1>2 DEF LiveOK, Drained, QueuedIn, WithStatus, Key

\* The slots as they are, and as they are with other jobs.
LEMMA CurrentSlots ==
  ASSUME SchedulerTypeOK, SlotAccounting, NEW order \in Seq(Queue),
         Len(queueOrder) <= Len(order),
         NEW js, DOMAIN js \subseteq 1..MaxTickets, js \in [DOMAIN js -> Job],
         WithStatus(js, "active") = Active
  PROVE  SlotsOK([Slots EXCEPT !.jobs = js], order)
<1> DEFINE s == [Slots EXCEPT !.jobs = js]
<1>1. /\ s.jobs = js /\ s.cursor = rotationCursor /\ s.active = activeCount
      /\ s.running = executions /\ s.passed = passedOver
  BY DEF Slots
<1>2. s.cursor \in 0..Len(order)
  <2>1. Len(queueOrder) \in Nat /\ Len(order) \in Nat
    BY DEF SchedulerTypeOK
  <2> QED
    BY <1>1, <2>1 DEF SchedulerTypeOK
<1> QED
  BY <1>1, <1>2 DEF SlotsOK, SchedulerTypeOK, SlotAccounting

\* What an action that ends in pump has to show.
LEMMA PumpReestablishes ==
  ASSUME NEW s, NEW order \in Seq(Queue), NEW stopped,
         SlotsOK(s, order), Pump(s, order, stopped), ~disposed,
         LiveOK(s.jobs, latestByKey'), Drained(s.jobs, cancelled'),
         disposed' = disposed
  PROVE  /\ SlotAccounting' /\ OneLiveJobPerKey' /\ StoppedQueueIsDrained'
         /\ DisposedIsQuiet' /\ DOMAIN jobs' = DOMAIN s.jobs
         /\ jobs' \in [Tickets' -> Job]
         /\ rotationCursor' \in 0..Len(order)
         /\ activeCount' \in 0..Concurrency
         /\ executions' \subseteq 1..MaxTickets
         /\ passedOver' \in [Queue -> [Queue -> Nat]]
<1>2. Started(s.jobs, jobs') /\ s.jobs \in [DOMAIN s.jobs -> Job]
  BY PumpKeeps DEF SlotsOK
<1>3. LiveOK(jobs', latestByKey') /\ Drained(jobs', cancelled')
  BY <1>2, StartedKeeps
<1>4. OneLiveJobPerKey'
  BY <1>3 DEF OneLiveJobPerKey, LiveOK, Active, Queued, WithStatus
<1>5. StoppedQueueIsDrained'
  BY <1>3 DEF StoppedQueueIsDrained, Drained
<1>6. SlotAccounting'
  BY PumpKeeps DEF SlotAccounting
<1>7. DisposedIsQuiet'
  BY DEF DisposedIsQuiet
<1>8. DOMAIN jobs' = DOMAIN s.jobs
  BY <1>2 DEF Started
<1> QED
  BY <1>4, <1>5, <1>6, <1>7, <1>8, PumpKeeps DEF Tickets

-----------------------------------------------------------------------------
(* How the jobs of the lists change.                                       *)

\* The status of a job goes forward, and a final one stays.
Forward(a, b) ==
  \/ a = b
  \/ a = "queued"
  \/ a = "active" /\ b \in Terminal

\* The jobs ks are the jobs js later on.
Evolves(js, ks) ==
  /\ DOMAIN ks = DOMAIN js
  /\ \A j \in DOMAIN js : /\ Key(ks[j]) = Key(js[j])
                          /\ Forward(js[j].status, ks[j].status)

\* Starting jobs is one way to go forward.
LEMMA StartedEvolves ==
  ASSUME NEW js, NEW ks, js \in [DOMAIN js -> Job], Started(js, ks)
  PROVE  Evolves(js, ks)
<1>1. \A j \in DOMAIN js : /\ ks[j].queue = js[j].queue
                           /\ ks[j].track = js[j].track
                           /\ Forward(js[j].status, ks[j].status)
  BY DEF Started, Job, Forward
<1> QED
  BY <1>1 DEF Evolves, Started, Key

\* Jobs that went forward twice went forward.
LEMMA EvolvesTransitive ==
  ASSUME NEW js, NEW ks, NEW ls, Evolves(js, ks), Evolves(ks, ls)
  PROVE  Evolves(js, ls)
BY DEF Evolves, Forward, Terminal

-----------------------------------------------------------------------------
(* Pump starts what can be started.                                        *)

\* Every job is in a queue of the rotation.
Listed(js, order) ==
  \A j \in DOMAIN js : \E n \in DOMAIN order : order[n] = js[j].queue

\* The loop has nothing left to do.
Exhausted(s) ==
  s.active < Concurrency => WithStatus(s.jobs, "queued") = {}

\* How far the queue at position i (from 0) of n is ahead of the cursor.
Ahead(i, cursor, n) == IF i >= cursor THEN i - cursor ELSE i - cursor + n

\* The search meets a queue at the distance it is ahead of the cursor.
LEMMA SearchMeets ==
  ASSUME NEW s, NEW order \in Seq(Queue), s.cursor \in 0..Len(order),
         NEW n \in DOMAIN order
  PROVE  LET k == Ahead(n - 1, s.cursor, Len(order))
         IN  /\ k \in 0..(Len(order) - 1)
             /\ IndexAt(s, order, k) = n - 1
             /\ QueueAt(s, order, k) = order[n]
<1> DEFINE L == Len(order)
           k == Ahead(n - 1, s.cursor, L)
<1>1. L \in Nat /\ L > 0 /\ n - 1 \in 0..(L - 1)
  OBVIOUS
<1>2. k \in 0..(L - 1)
  BY <1>1 DEF Ahead
<1>3. s.cursor + k = n - 1 \/ s.cursor + k = n - 1 + L
  BY <1>1 DEF Ahead
<1>4. IndexAt(s, order, k) = n - 1
  <2>1. (n - 1) % L = n - 1 /\ (n - 1 + L) % L = n - 1
    BY <1>1, OneTurn
  <2> QED
    BY <1>3, <2>1 DEF IndexAt
<1> QED
  BY <1>1, <1>2, <1>4 DEF QueueAt

\* If no job can be started, none waits.
LEMMA NothingStartable ==
  ASSUME NEW s, NEW order \in Seq(Queue), NEW stopped, SlotsOK(s, order),
         Drained(s.jobs, stopped), Listed(s.jobs, order),
         Startable(s, order, stopped) = {}
  PROVE  WithStatus(s.jobs, "queued") = {}
<1> SUFFICES ASSUME NEW j \in WithStatus(s.jobs, "queued")
             PROVE  FALSE
  OBVIOUS
<1> DEFINE q == s.jobs[j].queue
<1>1. j \in DOMAIN s.jobs /\ q \in Queue /\ j \in QueuedIn(s.jobs, q)
  BY DEF SlotsOK, Job, WithStatus, QueuedIn
<1>2. Waiting(s, stopped, q)
  BY <1>1 DEF Waiting, Drained
<1>3. PICK n \in DOMAIN order : order[n] = q
  BY <1>1 DEF Listed
<1> DEFINE D == {k \in 0..(Len(order) - 1) :
                   Waiting(s, stopped, QueueAt(s, order, k))}
<1>4. D # {} /\ D \subseteq Nat
  <2>1. s.cursor \in 0..Len(order)
    BY DEF SlotsOK
  <2>2. PICK k \in 0..(Len(order) - 1) : QueueAt(s, order, k) = order[n]
    BY <2>1, SearchMeets
  <2>3. Len(order) \in Nat
    OBVIOUS
  <2> QED
    BY <1>2, <1>3, <2>2, <2>3
<1>5. PICK k \in D : \A l \in D : k <= l
  <2> HIDE DEF D
  <2> QED
    BY <1>4, SmallestOf
<1>6. k \in Runnable(s, order, stopped)
  BY <1>4, <1>5 DEF Runnable
<1> DEFINE mine == QueuedIn(s.jobs, QueueAt(s, order, k))
<1>7. mine # {} /\ mine \subseteq Nat
  <2>1. mine # {}
    BY <1>5 DEF Waiting
  <2>2. mine \subseteq DOMAIN s.jobs /\ DOMAIN s.jobs \subseteq 1..MaxTickets
    BY DEF QueuedIn, WithStatus, SlotsOK
  <2>3. 1..MaxTickets \subseteq Nat
    BY MaxTicketsAssumption
  <2> HIDE DEF mine
  <2> QED
    BY <2>1, <2>2, <2>3
<1>8. PICK i \in mine : \A h \in mine : i <= h
  <2> HIDE DEF mine
  <2> QED
    BY <1>7, SmallestOf
<1>9. i \in FirstQueued(s, QueueAt(s, order, k)) /\ i \in DOMAIN s.jobs
  BY <1>8 DEF FirstQueued, QueuedIn, WithStatus
<1>10. <<k, i>> \in Startable(s, order, stopped)
  BY <1>6, <1>9 DEF Startable
<1> QED
  BY <1>10

\* A round starts a job or has nothing left to do.
LEMMA PumpOnceProgress ==
  ASSUME NEW s, NEW order \in Seq(Queue), NEW stopped, ~disposed,
         SlotsOK(s, order), Drained(s.jobs, stopped), Listed(s.jobs, order),
         NEW t \in PumpOnce(s, order, stopped)
  PROVE  /\ SlotsOK(t, order) /\ Drained(t.jobs, stopped)
         /\ Listed(t.jobs, order)
         /\ Exhausted(s) => Exhausted(t)
         /\ Exhausted(t) \/ t.active = s.active + 1
<1>1. SlotsOK(t, order) /\ Started(s.jobs, t.jobs)
  BY PumpOnceKeeps
<1>2. s.jobs \in [DOMAIN s.jobs -> Job]
  BY DEF SlotsOK
<1>3. Drained(t.jobs, stopped)
  BY <1>1, <1>2, StartedKeeps
<1>4. Listed(t.jobs, order)
  BY <1>1, <1>2, StartedEvolves DEF Listed, Evolves, Key
<1>5. CASE s.active < Concurrency /\ Startable(s, order, stopped) # {}
  <2>1. PICK kj \in Startable(s, order, stopped) :
          t = StartJob(s, order, stopped, kj[1], kj[2])
    BY <1>5 DEF PumpOnce
  <2>2. t.active = s.active + 1
    BY <2>1 DEF StartJob
  <2>3. kj[2] \in WithStatus(s.jobs, "queued")
    BY <2>1 DEF Startable, FirstQueued, QueuedIn
  <2>4. ~Exhausted(s)
    BY <1>5, <2>3 DEF Exhausted
  <2> QED
    BY <1>1, <1>3, <1>4, <2>2, <2>4
<1>6. CASE ~(s.active < Concurrency) \/ Startable(s, order, stopped) = {}
  <2>1. t = s
    BY <1>6 DEF PumpOnce
  <2>2. Exhausted(s)
    BY <1>6, NothingStartable DEF Exhausted
  <2> QED
    BY <1>1, <1>3, <1>4, <2>1, <2>2
<1> QED
  BY <1>5, <1>6

\* There are at most three slots, so three rounds exhaust the loop.
LEMMA PumpExhausts ==
  ASSUME NEW s, NEW order \in Seq(Queue), NEW stopped, ~disposed,
         SlotsOK(s, order), Drained(s.jobs, stopped), Listed(s.jobs, order),
         Pump(s, order, stopped)
  PROVE  WorkConserving' /\ Listed(jobs', order)
<1>1. PICK s1 \in PumpOnce(s, order, stopped) :
       \E s2 \in PumpOnce(s1, order, stopped) :
       \E s3 \in PumpOnce(s2, order, stopped) :
         jobs' = s3.jobs /\ activeCount' = s3.active
  BY DEF Pump
<1>2. PICK s2 \in PumpOnce(s1, order, stopped) :
       \E s3 \in PumpOnce(s2, order, stopped) :
         jobs' = s3.jobs /\ activeCount' = s3.active
  BY <1>1
<1>3. PICK s3 \in PumpOnce(s2, order, stopped) :
         jobs' = s3.jobs /\ activeCount' = s3.active
  BY <1>2
<1>4. /\ SlotsOK(s1, order) /\ Drained(s1.jobs, stopped)
      /\ Listed(s1.jobs, order)
      /\ Exhausted(s1) \/ s1.active = s.active + 1
  BY PumpOnceProgress
<1>5. /\ SlotsOK(s2, order) /\ Drained(s2.jobs, stopped)
      /\ Listed(s2.jobs, order)
      /\ Exhausted(s1) => Exhausted(s2)
      /\ Exhausted(s2) \/ s2.active = s1.active + 1
  BY <1>4, PumpOnceProgress
<1>6. /\ SlotsOK(s3, order) /\ Listed(s3.jobs, order)
      /\ Exhausted(s2) => Exhausted(s3)
      /\ Exhausted(s3) \/ s3.active = s2.active + 1
  BY <1>5, PumpOnceProgress
<1>7. Exhausted(s3)
  <2> SUFFICES ASSUME s1.active = s.active + 1, s2.active = s1.active + 1,
                      s3.active = s2.active + 1
               PROVE  Exhausted(s3)
    BY <1>4, <1>5, <1>6
  <2>1. s.active \in Nat
    BY DEF SlotsOK
  <2> QED
    BY <2>1, ConcurrencyAssumption DEF Exhausted
<1> QED
  BY <1>3, <1>6, <1>7 DEF Exhausted, WorkConserving, Queued

-----------------------------------------------------------------------------
(* Init and the actions.                                                   *)

\* The invariant holds before anything is enqueued.
LEMMA InitEstablishes == Init => IInv
<1> SUFFICES ASSUME Init PROVE IInv
  OBVIOUS
<1>1. jobs = <<>> /\ DOMAIN jobs = {} /\ Tickets = {}
  BY DEF Init, Tickets
<1>2. Active = {} /\ Queued = {} /\ \A q \in Queue : QueuedIn(jobs, q) = {}
  BY <1>1 DEF Active, Queued, WithStatus, QueuedIn
<1>3. jobs \in [Tickets -> Job]
  BY <1>1
<1>4. SchedulerTypeOK
  <2>1. /\ nextTicket \in 1..(MaxTickets + 1) /\ Tickets \subseteq 1..(nextTicket - 1)
        /\ rotationCursor \in 0..Len(queueOrder) /\ activeCount \in 0..Concurrency
    BY <1>1, MaxTicketsAssumption, ConcurrencyAssumption DEF Init
  <2>2. latestByKey \in [Queue \X Track -> 0..MaxTickets]
    BY MaxTicketsAssumption DEF Init, None
  <2>3. passedOver \in [Queue -> [Queue -> Nat]]
    BY DEF Init, NoTurns
  <2>4. /\ queueOrder \in Seq(Queue) /\ cancelled \in [Queue -> BOOLEAN]
        /\ cancelPromise \in [Queue -> {"none", "pending", "answered"}]
        /\ executions \subseteq 1..MaxTickets /\ disposed \in BOOLEAN
        /\ attempted \subseteq Queue \X Track
    <3>1. <<>> \in Seq(Queue)
      OBVIOUS
    <3> QED
      BY <3>1, Zenon DEF Init
  <2> QED
    BY <1>3, <2>1, <2>2, <2>3, <2>4 DEF SchedulerTypeOK
<1>5. SlotAccounting
  BY <1>2, FS_EmptySet DEF Init, SlotAccounting
<1> QED
  BY <1>2, <1>4, <1>5 DEF Init, IInv, OneLiveJobPerKey, StoppedQueueIsDrained,
     StopReachesBackend, DisposedIsQuiet, DisposedStopsQueues

\* What the batch adds as js, under the tickets added.
BatchShape(q, items, policy, js, added) ==
  /\ items \in Seq(Item) /\ Len(items) \in Nat
  /\ nextTicket \in Nat /\ nextTicket >= 1
  /\ Tickets \subseteq 1..(nextTicket - 1)
  /\ DOMAIN js = Tickets \cup added
  /\ Tickets \cap added = {}
  /\ \A j \in Tickets : js[j] = jobs[j]
  /\ \A j \in added : /\ j \in nextTicket..(nextTicket + Len(items) - 1)
                      /\ Position(j) \in Accepted(q, items, policy)
                      /\ Position(j) \in 1..Len(items)
                      /\ items[Position(j)] \in Item
                      /\ js[j] = NewJob(q, items, policy, Position(j))
                      /\ js[j].queue = q
                      /\ js[j].track = items[Position(j)].track
                      /\ js[j].status # "active"
                      /\ js[j].status = "queued"
                           => ~items[Position(j)].unavailable
                      /\ js[j] \in Job

\* A batch adds its accepted items, and nothing else.
LEMMA AddJobsShape ==
  ASSUME SchedulerTypeOK,
         NEW q \in Queue, NEW items \in Batches, NEW policy \in Policy
  PROVE  BatchShape(q, items, policy, AddJobs(q, items, policy),
                    NewTickets(q, items, policy))
<1> DEFINE js == AddJobs(q, items, policy)
           added == NewTickets(q, items, policy)
<1>1. /\ items \in Seq(Item) /\ Len(items) \in Nat
      /\ nextTicket \in Nat /\ nextTicket >= 1
      /\ Tickets \subseteq 1..(nextTicket - 1)
  BY BatchesAssumption, MaxTicketsAssumption DEF SchedulerTypeOK
<1>2. \A j \in added :
        /\ j \in nextTicket..(nextTicket + Len(items) - 1)
        /\ Position(j) \in Accepted(q, items, policy)
        /\ Position(j) \in 1..Len(items)
        /\ items[Position(j)] \in Item
  BY <1>1 DEF NewTickets, Position
<1>3. Tickets \cap added = {}
  BY <1>1, <1>2
<1>4. DOMAIN js = Tickets \cup added
  BY DEF AddJobs
<1>5. \A j \in Tickets : js[j] = jobs[j]
  BY DEF AddJobs
<1>6. \A j \in added : js[j] = NewJob(q, items, policy, Position(j))
  BY <1>3 DEF AddJobs
<1>7. \A j \in added :
        /\ js[j].queue = q
        /\ js[j].track = items[Position(j)].track
        /\ js[j].status # "active"
        /\ js[j].status = "queued" => ~items[Position(j)].unavailable
        /\ js[j] \in Job
  <2> TAKE j \in added
  <2>1. /\ js[j] = NewJob(q, items, policy, Position(j))
        /\ items[Position(j)] \in Item
    BY <1>2, <1>6
  <2> QED
    BY <2>1 DEF NewJob, Job, Item, Status, Terminal
<1> HIDE DEF js, added
<1>8. BatchShape(q, items, policy, js, added)
  BY <1>1, <1>2, <1>3, <1>4, <1>5, <1>6, <1>7 DEF BatchShape
<1> QED
  BY <1>8 DEF js, added

\* The jobs a batch adds.
LEMMA AddJobsOK ==
  ASSUME SchedulerTypeOK, OneLiveJobPerKey,
         NEW q \in Queue, NEW items \in Batches, NEW policy \in Policy,
         nextTicket + Len(items) <= MaxTickets + 1
  PROVE  LET js == AddJobs(q, items, policy)
         IN  /\ DOMAIN js \subseteq 1..(nextTicket + Len(items) - 1)
             /\ DOMAIN js \subseteq 1..MaxTickets
             /\ js \in [DOMAIN js -> Job]
             /\ WithStatus(js, "active") = Active
             /\ LiveOK(js, LatestAfter(q, items, policy))
             /\ LatestAfter(q, items, policy) \in
                  [Queue \X Track -> 0..MaxTickets]
             /\ \A p \in Queue : p # q => QueuedIn(js, p) = QueuedIn(jobs, p)
<1> DEFINE js == AddJobs(q, items, policy)
           acc == Accepted(q, items, policy)
           added == NewTickets(q, items, policy)
           latest == LatestAfter(q, items, policy)
           item(j) == items[Position(j)]
<1>0. BatchShape(q, items, policy, js, added)
  BY AddJobsShape
<1>1. /\ items \in Seq(Item) /\ Len(items) \in Nat
      /\ nextTicket \in Nat /\ nextTicket >= 1
      /\ Tickets \subseteq 1..(nextTicket - 1)
  BY <1>0 DEF BatchShape
<1>2. \A j \in added : /\ j \in nextTicket..(nextTicket + Len(items) - 1)
                       /\ Position(j) \in acc
                       /\ Position(j) \in 1..Len(items)
                       /\ item(j) \in Item
  BY <1>0 DEF BatchShape
<1>4. DOMAIN js = Tickets \cup added
  BY <1>0 DEF BatchShape
<1>5. \A j \in Tickets : js[j] = jobs[j]
  BY <1>0 DEF BatchShape
<1>7. \A j \in added : /\ js[j].queue = q
                       /\ js[j].track = item(j).track
                       /\ js[j].status # "active"
                       /\ js[j].status = "queued" => ~item(j).unavailable
                       /\ js[j] \in Job
  BY <1>0 DEF BatchShape
<1>8. js \in [DOMAIN js -> Job]
  <2>1. \A j \in DOMAIN js : js[j] \in Job
    BY <1>4, <1>5, <1>7 DEF SchedulerTypeOK
  <2>2. js = [j \in DOMAIN js |-> js[j]]
    BY DEF AddJobs
  <2> QED
    BY <2>1, <2>2
<1>9. WithStatus(js, "active") = Active
  BY <1>4, <1>5, <1>7 DEF WithStatus, Active, Tickets
<1>10. \A p \in Queue : p # q => QueuedIn(js, p) = QueuedIn(jobs, p)
  BY <1>4, <1>5, <1>7 DEF WithStatus, QueuedIn, Tickets
<1>11. DOMAIN js \subseteq 1..(nextTicket + Len(items) - 1)
  <2>1. \A j \in Tickets \cup added : j \in 1..(nextTicket + Len(items) - 1)
    BY <1>1, <1>2
  <2> HIDE DEF js
  <2> QED
    BY <2>1, <1>4
<1>12. DOMAIN js \subseteq 1..MaxTickets
  BY <1>1, <1>11, MaxTicketsAssumption
\* An accepted item that may wait is the last accepted one of its track.
<1>13. ASSUME NEW i \in added, NEW j \in added,
              ~item(i).unavailable, item(j).track = item(i).track
       PROVE  j <= i
  <2>1. CASE j > i
    <3>1. Position(i) \in 1..(Position(j) - 1)
      BY <1>1, <1>2, <2>1 DEF Position
    <3> QED
      BY <1>2, <1>13, <3>1 DEF Accepted
  <2> QED
    BY <1>1, <1>2, <2>1
<1>14. ASSUME NEW i \in added, ~item(i).unavailable
       PROVE  latest[<<q, item(i).track>>] = i
  <2> DEFINE key == <<q, item(i).track>>
             mine == {j \in added : key = <<q, item(j).track>>}
             last == {j \in mine : \A m \in mine : m <= j}
  <2>1. key \in Queue \X Track
    BY <1>2 DEF Item
  <2>2. i \in mine /\ \A j \in mine : j \in Nat /\ j <= i
    BY <1>1, <1>2, <1>13, <1>14
  <2>3. i \in last
    BY <2>2
  <2>4. \A j \in last : j = i
    BY <2>2, <2>3
  <2>5. latest[key] = CHOOSE j \in last : TRUE
    BY <2>1, <2>3 DEF LatestAfter
  <2> QED
    BY <2>3, <2>4, <2>5
\* A key that gets a new job had no live one.
<1>15. \A j \in Active \cup Queued : latest[Key(jobs[j])] = j
  <2> SUFFICES ASSUME NEW j \in Active \cup Queued
               PROVE  latest[Key(jobs[j])] = j
    OBVIOUS
  <2> DEFINE key == Key(jobs[j])
             mine == {i \in added : key = <<q, item(i).track>>}
  <2>1. j \in Tickets /\ jobs[j] \in Job /\ jobs[j].status \notin Terminal
    BY DEF SchedulerTypeOK, Active, Queued, WithStatus, Tickets, Terminal
  <2>2. latestByKey[key] = j /\ j # None /\ key \in Queue \X Track
    BY <2>1, <1>1 DEF OneLiveJobPerKey, None, Key, Job
  <2>3. mine = {}
    BY <1>2, <2>1, <2>2 DEF Accepted, IsSettled
  <2> QED
    BY <2>2, <2>3 DEF LatestAfter
<1>16. LiveOK(js, latest)
  <2> SUFFICES ASSUME NEW j \in DOMAIN js, js[j].status \in {"queued", "active"}
               PROVE  latest[Key(js[j])] = j
    BY DEF LiveOK
  <2>1. CASE j \in Tickets
    BY <2>1, <1>5, <1>15 DEF Active, Queued, WithStatus, Tickets
  <2>2. CASE j \in added
    BY <2>2, <1>7, <1>14 DEF Key
  <2> QED
    BY <1>4, <2>1, <2>2
\* The map of latest jobs keeps its type.
<1>17. latest \in [Queue \X Track -> 0..MaxTickets]
  <2>1. \A j \in added : j \in 0..MaxTickets
    BY <1>1, <1>4, <1>12
  <2> DEFINE mine(key) == {j \in added : key = <<q, item(j).track>>}
             last(key) == {j \in mine(key) : \A i \in mine(key) : i <= j}
             new(key) == IF last(key) = {} THEN latestByKey[key]
                         ELSE CHOOSE j \in last(key) : TRUE
  <2>2. \A key \in Queue \X Track : new(key) \in 0..MaxTickets
    BY <2>1 DEF SchedulerTypeOK
  <2>3. latest = [key \in Queue \X Track |-> new(key)]
    BY DEF LatestAfter
  <2> HIDE DEF new
  <2> QED
    BY <2>2, <2>3
<1> QED
  BY <1>8, <1>9, <1>10, <1>11, <1>12, <1>16, <1>17

\* A queue that joins the order makes it no shorter.
LEMMA OrderWithOK ==
  ASSUME SchedulerTypeOK, NEW q \in Queue
  PROVE  /\ OrderWith(q) \in Seq(Queue)
         /\ Len(queueOrder) <= Len(OrderWith(q))
BY DEF SchedulerTypeOK, OrderWith

\* Enqueueing keeps the invariant.
LEMMA EnqueueManyKeeps ==
  ASSUME IInv, NEW q \in Queue, NEW items \in Batches, NEW policy \in Policy,
         EnqueueMany(q, items, policy)
  PROVE  IInv'
<1> DEFINE js == AddJobs(q, items, policy)
           s == [Slots EXCEPT !.jobs = js]
<1>1. SchedulerTypeOK /\ SlotAccounting /\ OneLiveJobPerKey
      /\ StoppedQueueIsDrained /\ StopReachesBackend
  BY DEF IInv
<1>2. /\ ~disposed /\ disposed' = disposed
      /\ nextTicket + Len(items) <= MaxTickets + 1
      /\ nextTicket' = nextTicket + Len(items)
      /\ queueOrder' = OrderWith(q)
      /\ latestByKey' = LatestAfter(q, items, policy)
  BY DEF EnqueueMany
<1>3. queueOrder' \in Seq(Queue) /\ Len(queueOrder) <= Len(queueOrder')
  BY <1>1, <1>2, OrderWithOK
<1>4. /\ DOMAIN js \subseteq 1..(nextTicket' - 1)
      /\ DOMAIN js \subseteq 1..MaxTickets
      /\ js \in [DOMAIN js -> Job]
      /\ WithStatus(js, "active") = Active
      /\ LiveOK(js, latestByKey')
      /\ latestByKey' \in [Queue \X Track -> 0..MaxTickets]
      /\ \A p \in Queue : p # q => QueuedIn(js, p) = QueuedIn(jobs, p)
  <2>1. nextTicket' - 1 = nextTicket + Len(items) - 1
    <3>1. nextTicket \in Nat /\ Len(items) \in Nat
      BY <1>1, BatchesAssumption, MaxTicketsAssumption DEF SchedulerTypeOK
    <3> QED
      BY <1>2, <3>1
  <2> QED
    BY <1>1, <1>2, <2>1, AddJobsOK
<1>5. nextTicket' \in 1..(MaxTickets + 1)
  <2>1. Len(items) \in Nat
    BY BatchesAssumption
  <2> QED
    BY <1>1, <1>2, <2>1, MaxTicketsAssumption DEF SchedulerTypeOK
<1>6. \A n \in Accepted(q, items, policy) : <<q, items[n].track>> \in Queue \X Track
  <2> TAKE n \in Accepted(q, items, policy)
  <2>1. items \in Seq(Item) /\ n \in 1..Len(items)
    BY BatchesAssumption DEF Accepted
  <2>2. items[n] \in Item
    BY <2>1
  <2> QED
    BY <2>2 DEF Item
<1>7. CASE /\ Accepted(q, items, policy) # {}
           /\ cancelled' = [cancelled EXCEPT ![q] = FALSE]
           /\ cancelPromise' = [cancelPromise EXCEPT ![q] = "none"]
           /\ attempted' = attempted \cup
                {<<q, items[n].track>> : n \in Accepted(q, items, policy)}
           /\ Pump(s, OrderWith(q), cancelled')
  <2>1. s.jobs = js
    BY DEF Slots
  <2>2. SlotsOK(s, queueOrder')
    BY <1>1, <1>3, <1>4, CurrentSlots
  <2>3. Drained(s.jobs, cancelled')
    BY <1>1, <1>4, <1>7, <2>1
       DEF Drained, StoppedQueueIsDrained, SchedulerTypeOK
  <2>4. /\ SlotAccounting' /\ OneLiveJobPerKey' /\ StoppedQueueIsDrained'
        /\ DisposedIsQuiet' /\ DOMAIN jobs' = DOMAIN js
        /\ jobs' \in [Tickets' -> Job]
        /\ rotationCursor' \in 0..Len(queueOrder')
        /\ activeCount' \in 0..Concurrency
        /\ executions' \subseteq 1..MaxTickets
        /\ passedOver' \in [Queue -> [Queue -> Nat]]
    <3> HIDE DEF s, js
    <3> QED
      BY <1>2, <1>3, <1>4, <1>7, <2>1, <2>2, <2>3, PumpReestablishes
  <2>5. /\ cancelled' \in [Queue -> BOOLEAN]
        /\ cancelPromise' \in [Queue -> {"none", "pending", "answered"}]
        /\ attempted' \subseteq Queue \X Track
    BY <1>1, <1>6, <1>7 DEF SchedulerTypeOK
  <2>6. SchedulerTypeOK'
    BY <1>1, <1>2, <1>3, <1>4, <1>5, <2>4, <2>5 DEF SchedulerTypeOK, Tickets
  <2>7. StopReachesBackend'
    BY <1>1, <1>2, <1>7 DEF StopReachesBackend, SchedulerTypeOK
  <2>8. DisposedStopsQueues'
    BY <1>2 DEF DisposedStopsQueues
  <2> QED
    BY <2>4, <2>6, <2>7, <2>8 DEF IInv
<1>8. CASE /\ Accepted(q, items, policy) = {}
           /\ UNCHANGED <<slotVars, cancelled, cancelPromise, attempted>>
  <2>1. UNCHANGED <<jobs, rotationCursor, activeCount, executions, passedOver,
                    cancelled, cancelPromise, attempted, disposed>>
    BY <1>2, <1>8 DEF slotVars
  <2>2. NewTickets(q, items, policy) = {}
    BY <1>8 DEF NewTickets
  <2>3. latestByKey' = latestByKey
    BY <1>1, <1>2, <2>2 DEF LatestAfter, SchedulerTypeOK
  <2>4. Tickets' \subseteq 1..(nextTicket' - 1)
    <3>1. Len(items) \in Nat
      BY BatchesAssumption
    <3> QED
      BY <1>1, <1>2, <2>1, <3>1 DEF SchedulerTypeOK, Tickets
  <2>5. rotationCursor' \in 0..Len(queueOrder')
    BY <1>1, <1>3, <2>1 DEF SchedulerTypeOK
  <2>6. SchedulerTypeOK'
    BY <1>1, <1>3, <1>4, <1>5, <2>1, <2>4, <2>5 DEF SchedulerTypeOK, Tickets
  <2> QED
    BY <1>1, <1>2, <2>1, <2>3, <2>6
       DEF IInv, SlotAccounting, OneLiveJobPerKey, StoppedQueueIsDrained,
           StopReachesBackend, DisposedIsQuiet, DisposedStopsQueues, Active,
           Queued, QueuedIn, WithStatus
<1> QED
  BY <1>7, <1>8 DEF EnqueueMany

\* A settled execution: the job leaves its slot before pump runs.
LEMMA FinishedSlots ==
  ASSUME IInv, ~disposed, NEW j \in Active, NEW st \in Terminal
  PROVE  LET s == Finished(j, st)
         IN  /\ s.jobs = [jobs EXCEPT ![j].status = st]
             /\ s.cursor = rotationCursor /\ s.passed = passedOver
             /\ DOMAIN s.jobs = Tickets
             /\ SlotsOK(s, queueOrder)
             /\ LiveOK(s.jobs, latestByKey) /\ Drained(s.jobs, cancelled)
<1> DEFINE s == Finished(j, st)
           js == [jobs EXCEPT ![j].status = st]
<1>1. SchedulerTypeOK /\ SlotAccounting /\ OneLiveJobPerKey
      /\ StoppedQueueIsDrained /\ StopReachesBackend
  BY DEF IInv
<1>2. /\ j \in Tickets /\ jobs[j].status = "active"
      /\ st # "active" /\ st # "queued" /\ st \in Status
  BY DEF Active, WithStatus, Tickets, Terminal, Status
<1>3. /\ s.jobs = js /\ s.cursor = rotationCursor /\ s.active = activeCount - 1
      /\ s.running = executions \ {j} /\ s.passed = passedOver
  BY DEF Finished, Slots
<1>4. DOMAIN js = Tickets /\ js \in [Tickets -> Job]
  <2>1. [jobs[j] EXCEPT !.status = st] \in Job
    BY <1>1, <1>2 DEF SchedulerTypeOK, Job
  <2> QED
    BY <1>1, <1>2, <2>1 DEF SchedulerTypeOK, Tickets
<1>5. WithStatus(js, "active") = Active \ {j}
  BY <1>1, <1>2 DEF WithStatus, Active, Tickets, SchedulerTypeOK, Job
<1>6. Tickets \subseteq 1..MaxTickets
  BY <1>1, MaxTicketsAssumption DEF SchedulerTypeOK
<1>7. IsFiniteSet(Active) /\ Cardinality(Active) \in Nat
  BY <1>6, ActiveFinite DEF Active, Tickets
<1>8. s.active = Cardinality(WithStatus(js, "active"))
  BY <1>1, <1>3, <1>5, <1>7, FS_RemoveElement DEF SlotAccounting
<1>9. s.active \in 0..Concurrency
  <2>1. Cardinality(WithStatus(js, "active")) \in Nat
    BY <1>4, <1>6, ActiveFinite
  <2>2. activeCount \in 0..Concurrency
    BY <1>1 DEF SchedulerTypeOK
  <2> QED
    BY <1>3, <1>8, <2>1, <2>2, ConcurrencyAssumption
<1>10. SlotsOK(s, queueOrder)
  <2> HIDE DEF s, js
  <2> QED
    BY <1>1, <1>3, <1>4, <1>5, <1>6, <1>8, <1>9
       DEF SlotsOK, SchedulerTypeOK, SlotAccounting
<1>11. LiveOK(js, latestByKey) /\ Drained(js, cancelled)
  <2>1. \A i \in Tickets :
          /\ js[i].queue = jobs[i].queue /\ js[i].track = jobs[i].track
          /\ js[i].status \in {"queued", "active"} => js[i] = jobs[i]
    BY <1>1, <1>2 DEF SchedulerTypeOK, Job, Tickets
  <2> HIDE DEF js
  <2>2. LiveOK(js, latestByKey)
    BY <1>1, <1>4, <2>1
       DEF LiveOK, Key, OneLiveJobPerKey, Active, Queued, WithStatus, Tickets
  <2>3. \A p \in Queue : QueuedIn(js, p) \subseteq QueuedIn(jobs, p)
    BY <1>4, <2>1 DEF QueuedIn, WithStatus, Tickets
  <2>4. Drained(js, cancelled)
    BY <1>1, <2>3 DEF Drained, StoppedQueueIsDrained
  <2> QED
    BY <2>2, <2>4
<1> QED
  BY <1>3, <1>4, <1>10, <1>11

\* Pump after a settled execution keeps the invariant.
LEMMA FinishedOK ==
  ASSUME IInv, ~disposed, NEW j \in Active, NEW st \in Terminal,
         Pump(Finished(j, st), queueOrder, cancelled),
         UNCHANGED <<nextTicket, queueOrder, cancelled, cancelPromise,
                     latestByKey, disposed, attempted>>
  PROVE  IInv'
<1> DEFINE s == Finished(j, st)
<1>1. SchedulerTypeOK /\ queueOrder \in Seq(Queue)
  BY DEF IInv, SchedulerTypeOK
<1>2. /\ DOMAIN s.jobs = Tickets
      /\ SlotsOK(s, queueOrder)
      /\ LiveOK(s.jobs, latestByKey') /\ Drained(s.jobs, cancelled')
  BY FinishedSlots
<1>3. /\ SlotAccounting' /\ OneLiveJobPerKey' /\ StoppedQueueIsDrained'
      /\ DisposedIsQuiet' /\ DOMAIN jobs' = Tickets
      /\ jobs' \in [Tickets' -> Job]
      /\ rotationCursor' \in 0..Len(queueOrder)
      /\ activeCount' \in 0..Concurrency
      /\ executions' \subseteq 1..MaxTickets
      /\ passedOver' \in [Queue -> [Queue -> Nat]]
  <2> HIDE DEF s
  <2>1. Pump(s, queueOrder, cancelled)
    BY DEF s
  <2> QED
    BY <1>1, <1>2, <2>1, PumpReestablishes
<1> QED
  BY <1>1, <1>3
     DEF IInv, SchedulerTypeOK, StopReachesBackend, DisposedStopsQueues, Tickets

\* A job that ends keeps the invariant.
LEMMA SettleKeeps ==
  ASSUME IInv, NEW j \in executions, Settle(j)
  PROVE  IInv'
<1>1. ASSUME ~IsSettled(j)
      PROVE  j \in Active /\ ~disposed
  <2>1. j \in Tickets /\ jobs[j].status \notin Terminal /\ jobs[j] \in Job
    BY <1>1 DEF IsSettled, IInv, SchedulerTypeOK
  <2>2. j \in Active \cup Queued
    BY <2>1 DEF Active, Queued, WithStatus, Tickets, Job, Status, Terminal
  <2>3. ~disposed
    BY <2>2 DEF IInv, DisposedIsQuiet
  <2>4. executions = Active
    BY <2>3 DEF IInv, SlotAccounting
  <2> QED
    BY <2>3, <2>4
<1>2. ASSUME NEW result \in Results, Fulfil(j, result)
      PROVE  IInv'
  <2>1. Classified(result) \in Terminal
    BY DEF Classified, Terminal
  <2> QED
    BY <1>1, <1>2, <2>1, FinishedOK DEF Fulfil
<1>3. CASE Reject(j)
  <2>1. (IF jobs[j].aborted THEN "cancelled" ELSE "failed") \in Terminal
    BY DEF Terminal
  <2> QED
    BY <1>1, <1>3, <2>1, FinishedOK DEF Reject
<1>4. CASE LateSettle(j)
  <2>1. disposed
    <3>1. j \notin Active
      BY <1>4 DEF LateSettle, IsSettled, Active, WithStatus, Tickets, Terminal
    <3> QED
      BY <3>1 DEF IInv, SlotAccounting
  <2> QED
    BY <1>4, <2>1
       DEF LateSettle, IInv, SchedulerTypeOK, SlotAccounting, OneLiveJobPerKey,
           StoppedQueueIsDrained, StopReachesBackend, DisposedIsQuiet,
           DisposedStopsQueues, Active, Queued, QueuedIn, WithStatus, Tickets,
           HasQueue
<1> QED
  BY <1>2, <1>3, <1>4 DEF Settle

\* Stopping jobs keeps the types of the others.
LEMMA StopJobsOK ==
  ASSUME SchedulerTypeOK, OneLiveJobPerKey, StoppedQueueIsDrained,
         NEW q \in Queue
  PROVE  /\ DOMAIN StopJobs(q) = Tickets
         /\ StopJobs(q) \in [Tickets -> Job]
         /\ WithStatus(StopJobs(q), "active") = Active
         /\ LiveOK(StopJobs(q), latestByKey)
         /\ Drained(StopJobs(q), [cancelled EXCEPT ![q] = TRUE])
<1> DEFINE js == StopJobs(q)
<1>1. DOMAIN js = Tickets
  BY DEF StopJobs
<1>2. \A j \in Tickets :
        /\ js[j] \in Job
        /\ js[j].queue = jobs[j].queue /\ js[j].track = jobs[j].track
        /\ js[j].status = "active" <=> jobs[j].status = "active"
        /\ js[j].status = "queued"
             => jobs[j].status = "queued" /\ jobs[j].queue # q
  <2> TAKE j \in Tickets
  <2>1. jobs[j] \in Job
    BY DEF SchedulerTypeOK
  <2>2. CASE jobs[j].queue # q
    BY <2>1, <2>2 DEF StopJobs
  <2>3. CASE jobs[j].queue = q /\ jobs[j].status = "queued"
    <3>1. js[j] = [jobs[j] EXCEPT !.status = "cancelled"]
      BY <2>3 DEF StopJobs
    <3> QED
      BY <2>1, <2>3, <3>1 DEF Job, Status, Terminal
  <2>4. CASE jobs[j].queue = q /\ jobs[j].status = "active"
    <3>1. js[j] = [jobs[j] EXCEPT !.aborted = TRUE]
      BY <2>4 DEF StopJobs
    <3> QED
      BY <2>1, <2>4, <3>1 DEF Job
  <2>5. CASE jobs[j].queue = q /\ jobs[j].status \notin {"queued", "active"}
    <3>1. js[j] = jobs[j]
      BY <2>5 DEF StopJobs
    <3> QED
      BY <2>1, <2>5, <3>1
  <2> QED
    BY <2>2, <2>3, <2>4, <2>5
<1>3. js \in [Tickets -> Job]
  <2>1. js = [j \in Tickets |-> js[j]]
    BY DEF StopJobs
  <2> HIDE DEF js
  <2> QED
    BY <1>2, <2>1
<1>4. WithStatus(js, "active") = Active
  BY <1>1, <1>2 DEF WithStatus, Active, Tickets
<1>5. LiveOK(js, latestByKey)
  BY <1>1, <1>2
     DEF LiveOK, OneLiveJobPerKey, Active, Queued, WithStatus, Key, Tickets
<1>6. Drained(js, [cancelled EXCEPT ![q] = TRUE])
  <2> SUFFICES ASSUME NEW p \in Queue, [cancelled EXCEPT ![q] = TRUE][p],
                      NEW j \in QueuedIn(js, p)
               PROVE  FALSE
    BY DEF Drained
  <2>1. j \in Tickets /\ js[j].status = "queued" /\ js[j].queue = p
    BY <1>1 DEF QueuedIn, WithStatus
  <2>2. p # q /\ j \in QueuedIn(jobs, p)
    BY <1>2, <2>1 DEF QueuedIn, WithStatus, Tickets
  <2>3. cancelled[p]
    BY <2>2 DEF SchedulerTypeOK
  <2> QED
    BY <2>2, <2>3 DEF StoppedQueueIsDrained
<1> QED
  BY <1>1, <1>3, <1>4, <1>5, <1>6

\* Stopping a queue keeps the invariant.
LEMMA CancelQueueKeeps ==
  ASSUME IInv, NEW q \in Queue, CancelQueue(q)
  PROVE  IInv'
<1> DEFINE js == StopJobs(q)
           s == [Slots EXCEPT !.jobs = js]
<1>1. SchedulerTypeOK /\ SlotAccounting /\ OneLiveJobPerKey
      /\ StoppedQueueIsDrained /\ StopReachesBackend /\ DisposedStopsQueues
  BY DEF IInv
<1>2. /\ UNCHANGED <<nextTicket, queueOrder, latestByKey, disposed, attempted>>
      /\ cancelPromise' = [cancelPromise EXCEPT
                             ![q] = IF @ = "none" THEN "pending" ELSE @]
      /\ HasQueue(q)
  BY DEF CancelQueue
<1>3. cancelPromise' \in [Queue -> {"none", "pending", "answered"}]
  BY <1>1, <1>2 DEF SchedulerTypeOK
<1>4. CASE /\ ~cancelled[q]
           /\ cancelled' = [cancelled EXCEPT ![q] = TRUE]
           /\ Pump(s, queueOrder, cancelled')
  <2>1. ~disposed
    BY <1>1, <1>2, <1>4 DEF DisposedStopsQueues
  <2>2. s.jobs = js
    BY DEF Slots
  <2>3. /\ DOMAIN js = Tickets /\ js \in [Tickets -> Job]
        /\ WithStatus(js, "active") = Active
        /\ LiveOK(js, latestByKey') /\ Drained(js, cancelled')
    BY <1>1, <1>2, <1>4, StopJobsOK
  <2>4. Tickets \subseteq 1..MaxTickets
    BY <1>1, MaxTicketsAssumption DEF SchedulerTypeOK
  <2>5. queueOrder \in Seq(Queue) /\ Len(queueOrder) <= Len(queueOrder)
    BY <1>1 DEF SchedulerTypeOK
  <2>6. SlotsOK(s, queueOrder)
    BY <1>1, <2>3, <2>4, <2>5, CurrentSlots
  <2>7. /\ SlotAccounting' /\ OneLiveJobPerKey' /\ StoppedQueueIsDrained'
        /\ DisposedIsQuiet' /\ DOMAIN jobs' = Tickets
        /\ jobs' \in [Tickets' -> Job]
        /\ rotationCursor' \in 0..Len(queueOrder)
        /\ activeCount' \in 0..Concurrency
        /\ executions' \subseteq 1..MaxTickets
        /\ passedOver' \in [Queue -> [Queue -> Nat]]
    <3> HIDE DEF s, js
    <3> QED
      BY <1>2, <1>4, <2>1, <2>2, <2>3, <2>5, <2>6, PumpReestablishes
  <2>8. SchedulerTypeOK'
    BY <1>1, <1>2, <1>3, <1>4, <2>7 DEF SchedulerTypeOK, Tickets
  <2>9. StopReachesBackend' /\ DisposedStopsQueues'
    BY <1>1, <1>2, <1>4, <2>1
       DEF StopReachesBackend, DisposedStopsQueues, SchedulerTypeOK
  <2> QED
    BY <2>7, <2>8, <2>9 DEF IInv
<1>5. CASE cancelled[q] /\ UNCHANGED <<slotVars, cancelled>>
  <2>1. UNCHANGED <<jobs, rotationCursor, activeCount, executions, passedOver>>
    BY <1>5 DEF slotVars
  <2>2. SchedulerTypeOK'
    BY <1>1, <1>2, <1>3, <1>5, <2>1 DEF SchedulerTypeOK, Tickets
  <2>3. StopReachesBackend'
    BY <1>1, <1>2, <1>5 DEF StopReachesBackend, SchedulerTypeOK
  <2> QED
    BY <1>2, <1>5, <2>1, <2>2, <2>3
       DEF IInv, SlotAccounting, OneLiveJobPerKey, StoppedQueueIsDrained,
           DisposedIsQuiet, DisposedStopsQueues, Active, Queued, QueuedIn,
           WithStatus, HasQueue
<1> QED
  BY <1>4, <1>5 DEF CancelQueue

\* The answer to a cancel keeps the invariant.
LEMMA BackendCancelledKeeps ==
  ASSUME IInv, NEW q \in Queue, BackendCancelled(q)
  PROVE  IInv'
<1>1. /\ UNCHANGED <<jobs, rotationCursor, activeCount, executions, passedOver,
                     nextTicket, queueOrder, cancelled, latestByKey, disposed,
                     attempted>>
      /\ cancelPromise[q] = "pending"
      /\ cancelPromise' = [cancelPromise EXCEPT ![q] = "answered"]
  BY DEF BackendCancelled, slotVars
<1>2. SchedulerTypeOK' /\ StopReachesBackend'
  BY <1>1 DEF IInv, SchedulerTypeOK, Tickets, StopReachesBackend
<1> QED
  BY <1>1, <1>2
     DEF IInv, SlotAccounting, OneLiveJobPerKey, StoppedQueueIsDrained,
         DisposedIsQuiet, DisposedStopsQueues, Active, Queued, QueuedIn,
         WithStatus, HasQueue

\* Clearing the history keeps the invariant.
LEMMA ClearCompletedKeeps ==
  ASSUME IInv, ClearCompleted
  PROVE  IInv'
<1>1. /\ UNCHANGED <<nextTicket, queueOrder, rotationCursor, cancelled,
                     cancelPromise, latestByKey, executions, activeCount,
                     disposed, attempted, passedOver>>
      /\ jobs' = [j \in Active \cup Queued |-> jobs[j]]
  BY DEF ClearCompleted
<1>2. /\ Tickets' = Active \cup Queued /\ Tickets' \subseteq Tickets
      /\ \A j \in Tickets' : jobs'[j] = jobs[j]
  BY <1>1 DEF Tickets, Active, Queued, WithStatus
<1>3. jobs' \in [Tickets' -> Job]
  BY <1>1, <1>2 DEF IInv, SchedulerTypeOK
<1>4. Active' = Active /\ Queued' = Queued
  BY <1>2 DEF Active, Queued, WithStatus, Tickets
<1>5. \A q \in Queue : QueuedIn(jobs', q) = QueuedIn(jobs, q)
  BY <1>2 DEF QueuedIn, Queued, WithStatus, Tickets
<1>6. SchedulerTypeOK'
  BY <1>1, <1>2, <1>3 DEF IInv, SchedulerTypeOK
<1>7. OneLiveJobPerKey'
  BY <1>1, <1>2, <1>4 DEF IInv, OneLiveJobPerKey, Key
<1> QED
  BY <1>1, <1>4, <1>5, <1>6, <1>7
     DEF IInv, SlotAccounting, StoppedQueueIsDrained, StopReachesBackend,
         DisposedIsQuiet, DisposedStopsQueues, HasQueue

\* A new session keeps the invariant.
LEMMA ResetKeeps ==
  ASSUME IInv, Reset
  PROVE  IInv'
<1>1. /\ jobs' = <<>> /\ nextTicket' = 1 /\ queueOrder' = <<>>
      /\ rotationCursor' = 0 /\ attempted' = {}
      /\ cancelled' = [q \in Queue |-> FALSE]
      /\ cancelPromise' = [q \in Queue |-> "none"]
      /\ latestByKey' = [key \in Queue \X Track |-> None]
      /\ passedOver' = [q \in Queue |-> NoTurns]
      /\ UNCHANGED <<executions, activeCount, disposed>>
  BY DEF Reset
<1>2. Tickets' = {}
  BY <1>1 DEF Tickets
<1>3. Active' = {} /\ Queued' = {} /\ \A q \in Queue : QueuedIn(jobs', q) = {}
  BY <1>2 DEF Active, Queued, WithStatus, QueuedIn, Tickets
<1>4. activeCount = 0
  BY ConcurrencyAssumption DEF IInv, SchedulerTypeOK, Reset
<1>5. Active = {}
  <2>1. Tickets \subseteq 1..MaxTickets
    BY MaxTicketsAssumption DEF IInv, SchedulerTypeOK
  <2>2. IsFiniteSet(Active)
    BY <2>1, ActiveFinite DEF Active, Tickets
  <2> QED
    BY <1>4, <2>2, FS_EmptySet DEF IInv, SlotAccounting
<1>6. SlotAccounting'
  BY <1>1, <1>3, <1>4, <1>5, FS_EmptySet DEF IInv, SlotAccounting
<1>7. SchedulerTypeOK'
  <2>1. jobs' \in [Tickets' -> Job] /\ Tickets' \subseteq 1..(nextTicket' - 1)
    BY <1>1, <1>2
  <2>2. nextTicket' \in 1..(MaxTickets + 1)
    BY <1>1, MaxTicketsAssumption
  <2>3. rotationCursor' \in 0..Len(queueOrder') /\ queueOrder' \in Seq(Queue)
    BY <1>1
  <2>4. latestByKey' \in [Queue \X Track -> 0..MaxTickets]
    BY <1>1, MaxTicketsAssumption DEF None
  <2>5. passedOver' \in [Queue -> [Queue -> Nat]]
    BY <1>1 DEF NoTurns
  <2>6. /\ cancelled' \in [Queue -> BOOLEAN]
        /\ cancelPromise' \in [Queue -> {"none", "pending", "answered"}]
    BY <1>1
  <2> QED
    BY <1>1, <2>1, <2>2, <2>3, <2>4, <2>5, <2>6 DEF IInv, SchedulerTypeOK
<1>8. StopReachesBackend'
  BY <1>1 DEF StopReachesBackend
<1>9. DisposedStopsQueues'
  BY <1>1 DEF DisposedStopsQueues, HasQueue
<1> QED
  BY <1>1, <1>3, <1>4, <1>6, <1>7, <1>8, <1>9
     DEF IInv, OneLiveJobPerKey, StoppedQueueIsDrained, DisposedIsQuiet

\* Disposing of the scheduler keeps the invariant.
LEMMA DisposeKeeps ==
  ASSUME IInv, Dispose
  PROVE  IInv'
<1> DEFINE stopped(j) ==
      IF jobs[j].status \in Terminal THEN jobs[j]
      ELSE [jobs[j] EXCEPT !.status = "cancelled",
                           !.aborted = jobs[j].status = "active"]
<1>1. /\ disposed' = TRUE
      /\ cancelled' = [q \in Queue |-> HasQueue(q)]
      /\ jobs' = [j \in Tickets |-> stopped(j)]
      /\ activeCount' = activeCount - Cardinality(WithStatus(jobs, "active"))
      /\ UNCHANGED <<nextTicket, queueOrder, rotationCursor, cancelPromise,
                     latestByKey, executions, attempted, passedOver>>
  BY DEF Dispose
<1>2. \A j \in Tickets : stopped(j) \in Job /\ stopped(j).status \in Terminal
  <2> TAKE j \in Tickets
  <2>1. jobs[j] \in Job
    BY DEF IInv, SchedulerTypeOK
  <2> QED
    BY <2>1 DEF Job, Status, Terminal
<1> HIDE DEF stopped
<1>3. Tickets' = Tickets /\ jobs' \in [Tickets' -> Job]
  BY <1>1, <1>2 DEF Tickets
<1>4. Active' = {} /\ Queued' = {} /\ \A q \in Queue : QueuedIn(jobs', q) = {}
  BY <1>1, <1>2, <1>3 DEF Active, Queued, QueuedIn, WithStatus, Tickets, Terminal
<1>5. activeCount' = 0
  BY <1>1, ConcurrencyAssumption
     DEF IInv, SlotAccounting, SchedulerTypeOK, Active
<1>6. SchedulerTypeOK'
  <2>1. cancelled' \in [Queue -> BOOLEAN]
    BY <1>1 DEF HasQueue
  <2>2. activeCount' \in 0..Concurrency
    BY <1>5, ConcurrencyAssumption
  <2> QED
    BY <1>1, <1>3, <2>1, <2>2 DEF IInv, SchedulerTypeOK
<1>7. SlotAccounting'
  BY <1>1, <1>4, <1>5, FS_EmptySet DEF SlotAccounting
<1>8. StopReachesBackend' /\ DisposedStopsQueues'
  BY <1>1 DEF StopReachesBackend, DisposedStopsQueues, HasQueue
<1> QED
  BY <1>4, <1>5, <1>6, <1>7, <1>8
     DEF IInv, OneLiveJobPerKey, StoppedQueueIsDrained, DisposedIsQuiet

\* Every step keeps the invariant.
LEMMA NextKeeps == IInv /\ [Next]_vars => IInv'
<1> SUFFICES ASSUME IInv, [Next]_vars
             PROVE  IInv'
  OBVIOUS
<1>1. ASSUME NEW q \in Queue, NEW items \in Batches, NEW policy \in Policy,
             EnqueueMany(q, items, policy)
      PROVE  IInv'
  BY <1>1, EnqueueManyKeeps
<1>2. ASSUME NEW j \in executions, Settle(j)
      PROVE  IInv'
  BY <1>2, SettleKeeps
<1>3. ASSUME NEW q \in Queue, CancelQueue(q)
      PROVE  IInv'
  BY <1>3, CancelQueueKeeps
<1>4. ASSUME NEW q \in Queue, BackendCancelled(q)
      PROVE  IInv'
  BY <1>4, BackendCancelledKeeps
<1>5. CASE ClearCompleted
  BY <1>5, ClearCompletedKeeps
<1>6. CASE Reset
  BY <1>6, ResetKeeps
<1>7. CASE Dispose
  BY <1>7, DisposeKeeps
<1>8. CASE UNCHANGED vars
  BY <1>8
     DEF vars, slotVars, IInv, SchedulerTypeOK, SlotAccounting,
         OneLiveJobPerKey, StoppedQueueIsDrained, StopReachesBackend,
         DisposedIsQuiet, DisposedStopsQueues, Active, Queued, QueuedIn,
         WithStatus, Tickets, HasQueue
<1> QED
  BY <1>1, <1>2, <1>3, <1>4, <1>5, <1>6, <1>7, <1>8 DEF Next

\* The inductive invariant holds of every behaviour of the scheduler.
THEOREM InductiveInvariant == Spec => []IInv
BY InitEstablishes, NextKeeps, PTL DEF Spec

\* Every variable of the scheduler keeps its type.
THEOREM TypeCorrect == Spec => []SchedulerTypeOK
<1>1. IInv => SchedulerTypeOK
  BY DEF IInv
<1> QED
  BY <1>1, InductiveInvariant, PTL

\* No slot is leaked or given out twice: activeCount is the number of running
\* jobs and never exceeds the concurrency, in any order of settlements, stops,
\* retries, resets and dispose.
THEOREM SlotsAreAccountedFor == Spec => [](SlotAccounting /\ SchedulerTypeOK)
<1>1. IInv => SlotAccounting /\ SchedulerTypeOK
  BY DEF IInv
<1> QED
  BY <1>1, InductiveInvariant, PTL

\* A track never has two live jobs in its queue.
THEOREM NoTrackRunsTwice == Spec => []OneLiveJobPerKey
<1>1. IInv => OneLiveJobPerKey
  BY DEF IInv
<1> QED
  BY <1>1, InductiveInvariant, PTL

\* A stopped queue never has a job left that pump could start.
THEOREM StoppedQueuesStartNothing == Spec => []StoppedQueueIsDrained
<1>1. IInv => StoppedQueueIsDrained
  BY DEF IInv
<1> QED
  BY <1>1, InductiveInvariant, PTL

\* The memo of the backend call and the flag of the queue never disagree.
THEOREM StopsReachTheBackend == Spec => []StopReachesBackend
<1>1. IInv => StopReachesBackend
  BY DEF IInv
<1> QED
  BY <1>1, InductiveInvariant, PTL

\* Nothing runs for a disposed scheduler.
THEOREM DisposedStaysQuiet == Spec => []DisposedIsQuiet
<1>1. IInv => DisposedIsQuiet
  BY DEF IInv
<1> QED
  BY <1>1, InductiveInvariant, PTL
-----------------------------------------------------------------------------
(* The index of latest jobs, and what follows from it.                     *)

\* The index forgets no attempt, names only tickets given out, and names them
\* under their own keys; every job is in a queue of the rotation.
Bookkeeping ==
  /\ \A key \in attempted : latestByKey[key] # None
  /\ \A key \in Queue \X Track : latestByKey[key] < nextTicket
  /\ \A key \in Queue \X Track :
       latestByKey[key] \in Tickets => Key(jobs[latestByKey[key]]) = key
  /\ Listed(jobs, queueOrder)

BookedInv == IInv /\ Bookkeeping /\ WorkConserving

\* The slots that an action leaves to pump.
HandsOver(s) ==
  /\ ~disposed
  /\ SlotsOK(s, queueOrder') /\ Drained(s.jobs, cancelled')
  /\ s.cursor = rotationCursor /\ s.passed = passedOver
  /\ Pump(s, queueOrder', cancelled')

\* Of the actions that add and forget nothing: they pump, or leave the slots.
Goes ==
  /\ UNCHANGED <<latestByKey, nextTicket, attempted, queueOrder>>
  /\ \/ \E s : HandsOver(s) /\ Evolves(jobs, s.jobs)
     \/ UNCHANGED <<jobs, rotationCursor, activeCount, passedOver>>

\* A job that ends lets the others go on.
LEMMA SettleGoes ==
  ASSUME IInv, NEW j \in executions, Settle(j)
  PROVE  Goes
<1>1. ASSUME ~IsSettled(j)
      PROVE  j \in Active /\ ~disposed
  <2>1. j \in Tickets /\ jobs[j].status \notin Terminal /\ jobs[j] \in Job
    BY <1>1 DEF IsSettled, IInv, SchedulerTypeOK
  <2>2. j \in Active \cup Queued
    BY <2>1 DEF Active, Queued, WithStatus, Tickets, Job, Status, Terminal
  <2>3. ~disposed
    BY <2>2 DEF IInv, DisposedIsQuiet
  <2> QED
    BY <2>2, <2>3 DEF IInv, SlotAccounting
<1>2. ASSUME NEW st \in Terminal, ~IsSettled(j),
             Pump(Finished(j, st), queueOrder, cancelled),
             UNCHANGED <<nextTicket, queueOrder, cancelled, cancelPromise,
                         latestByKey, disposed, attempted>>
      PROVE  Goes
  <2> DEFINE s == Finished(j, st)
  <2>1. j \in Active /\ ~disposed
    BY <1>1, <1>2
  <2>2. /\ s.jobs = [jobs EXCEPT ![j].status = st]
        /\ s.cursor = rotationCursor /\ s.passed = passedOver
        /\ SlotsOK(s, queueOrder) /\ Drained(s.jobs, cancelled)
    BY <2>1, FinishedSlots
  <2>3. Evolves(jobs, s.jobs)
    <3>1. jobs \in [Tickets -> Job] /\ j \in Tickets
          /\ jobs[j].status = "active"
      BY <2>1 DEF IInv, SchedulerTypeOK, Active, WithStatus, Tickets
    <3> HIDE DEF s
    <3> QED
      BY <2>2, <3>1 DEF Evolves, Forward, Key, Job
  <2>4. HandsOver(s)
    BY <1>2, <2>1, <2>2 DEF HandsOver
  <2> HIDE DEF s
  <2> QED
    BY <1>2, <2>3, <2>4 DEF Goes
<1>3. ASSUME NEW result \in Results, Fulfil(j, result)
      PROVE  Goes
  <2>1. Classified(result) \in Terminal
    BY DEF Classified, Terminal
  <2> QED
    BY <1>2, <1>3, <2>1 DEF Fulfil
<1>4. CASE Reject(j)
  <2>1. (IF jobs[j].aborted THEN "cancelled" ELSE "failed") \in Terminal
    BY DEF Terminal
  <2> QED
    BY <1>2, <1>4, <2>1 DEF Reject
<1>5. CASE LateSettle(j)
  BY <1>5 DEF LateSettle, Goes
<1> QED
  BY <1>3, <1>4, <1>5 DEF Settle

\* So does a stop.
LEMMA CancelQueueGoes ==
  ASSUME IInv, NEW q \in Queue, CancelQueue(q)
  PROVE  Goes
<1>1. CASE cancelled[q]
  BY <1>1 DEF CancelQueue, Goes, slotVars
<1>2. CASE ~cancelled[q]
  <2> DEFINE js == StopJobs(q)
             s == [Slots EXCEPT !.jobs = js]
  <2>1. /\ UNCHANGED <<nextTicket, queueOrder, latestByKey, attempted>>
        /\ cancelled' = [cancelled EXCEPT ![q] = TRUE]
        /\ Pump(s, queueOrder', cancelled')
        /\ HasQueue(q)
    BY <1>2 DEF CancelQueue
  <2>2. ~disposed
    BY <1>2, <2>1 DEF IInv, DisposedStopsQueues
  <2>3. /\ DOMAIN js = Tickets /\ js \in [Tickets -> Job]
        /\ WithStatus(js, "active") = Active
        /\ Drained(js, cancelled')
    BY <2>1, StopJobsOK DEF IInv
  <2>4. /\ s.jobs = js /\ s.cursor = rotationCursor /\ s.passed = passedOver
    BY DEF Slots
  <2>5. SlotsOK(s, queueOrder')
    <3>1. Tickets \subseteq 1..MaxTickets
      BY MaxTicketsAssumption DEF IInv, SchedulerTypeOK
    <3>2. /\ queueOrder' \in Seq(Queue) /\ Len(queueOrder) <= Len(queueOrder')
      BY <2>1 DEF IInv, SchedulerTypeOK
    <3> QED
      BY <2>3, <3>1, <3>2, CurrentSlots DEF IInv
  <2>6. Evolves(jobs, js)
    <3>1. \A j \in Tickets : Key(js[j]) = Key(jobs[j])
                             /\ Forward(jobs[j].status, js[j].status)
      <4> TAKE j \in Tickets
      <4>1. jobs[j] \in Job
        BY DEF IInv, SchedulerTypeOK
      <4>2. \/ js[j] = jobs[j]
            \/ /\ jobs[j].status = "queued"
               /\ js[j] = [jobs[j] EXCEPT !.status = "cancelled"]
            \/ js[j] = [jobs[j] EXCEPT !.aborted = TRUE]
        BY DEF StopJobs
      <4> HIDE DEF js
      <4> QED
        BY <4>1, <4>2 DEF Forward, Key, Job
    <3> HIDE DEF js
    <3> QED
      BY <2>3, <3>1 DEF Evolves, Tickets
  <2>7. HandsOver(s)
    BY <2>1, <2>2, <2>3, <2>4, <2>5 DEF HandsOver
  <2> HIDE DEF s, js
  <2> QED
    BY <2>1, <2>4, <2>6, <2>7 DEF Goes
<1> QED
  BY <1>1, <1>2

\* Of a step that goes on, the jobs go forward and the books stay right.
LEMMA GoesKeeps ==
  ASSUME IInv, IInv', Bookkeeping, WorkConserving, Goes
  PROVE  Evolves(jobs, jobs') /\ Bookkeeping' /\ WorkConserving'
<1>1. UNCHANGED <<latestByKey, nextTicket, attempted, queueOrder>>
  BY DEF Goes
<1>2. Evolves(jobs, jobs') /\ WorkConserving' /\ Listed(jobs', queueOrder')
  <2>1. CASE UNCHANGED <<jobs, rotationCursor, activeCount, passedOver>>
    BY <1>1, <2>1
       DEF Evolves, Forward, WorkConserving, Queued, WithStatus, Listed,
           Bookkeeping
  <2>2. ASSUME NEW s, HandsOver(s), Evolves(jobs, s.jobs)
        PROVE  Evolves(jobs, jobs') /\ WorkConserving'
               /\ Listed(jobs', queueOrder')
    <3>1. /\ ~disposed /\ SlotsOK(s, queueOrder') /\ Drained(s.jobs, cancelled')
          /\ Pump(s, queueOrder', cancelled')
      BY <2>2 DEF HandsOver
    <3>2. queueOrder' \in Seq(Queue)
      BY DEF IInv, SchedulerTypeOK
    <3>3. Listed(s.jobs, queueOrder')
      BY <1>1, <2>2 DEF Bookkeeping, Listed, Evolves, Key
    <3>4. Started(s.jobs, jobs')
      BY <3>1, <3>2, PumpKeeps
    <3>5. Evolves(s.jobs, jobs')
      BY <3>1, <3>4, StartedEvolves DEF SlotsOK
    <3> QED
      BY <2>2, <3>1, <3>2, <3>3, <3>5, PumpExhausts, EvolvesTransitive
  <2> QED
    BY <2>1, <2>2 DEF Goes
<1>3. \A key \in Queue \X Track :
        latestByKey'[key] \in Tickets' => Key(jobs'[latestByKey'[key]]) = key
  BY <1>1, <1>2 DEF Bookkeeping, Evolves, Tickets
<1> QED
  BY <1>1, <1>2, <1>3 DEF Bookkeeping

\* Disposing ends every job that has not ended.
LEMMA DisposeBooks ==
  ASSUME IInv, IInv', Bookkeeping, Dispose
  PROVE  Evolves(jobs, jobs') /\ Bookkeeping' /\ WorkConserving'
<1>1. /\ UNCHANGED <<latestByKey, nextTicket, attempted, queueOrder>>
      /\ disposed'
      /\ jobs' = [j \in Tickets |->
                    IF jobs[j].status \in Terminal THEN jobs[j]
                    ELSE [jobs[j] EXCEPT !.status = "cancelled",
                                         !.aborted = jobs[j].status = "active"]]
  BY DEF Dispose
<1>2. Evolves(jobs, jobs')
  <2>1. \A j \in Tickets : /\ Key(jobs'[j]) = Key(jobs[j])
                           /\ Forward(jobs[j].status, jobs'[j].status)
    <3> TAKE j \in Tickets
    <3>1. jobs[j] \in Job
      BY DEF IInv, SchedulerTypeOK
    <3>2. CASE jobs[j].status \in Terminal
      BY <1>1, <3>2 DEF Forward
    <3>3. CASE jobs[j].status \notin Terminal
      <4>1. jobs'[j] = [jobs[j] EXCEPT !.status = "cancelled",
                                       !.aborted = jobs[j].status = "active"]
        BY <1>1, <3>3
      <4>2. jobs[j].status \in {"queued", "active"}
        BY <3>1, <3>3 DEF Job, Status, Terminal
      <4> QED
        BY <3>1, <4>1, <4>2 DEF Key, Forward, Job, Terminal
    <3> QED
      BY <3>2, <3>3
  <2> QED
    BY <1>1, <2>1 DEF Evolves, Tickets
<1>3. WorkConserving'
  BY <1>1 DEF IInv, DisposedIsQuiet, WorkConserving
<1>4. \A key \in Queue \X Track :
        latestByKey'[key] \in Tickets' => Key(jobs'[latestByKey'[key]]) = key
  BY <1>1, <1>2 DEF Bookkeeping, Evolves, Tickets
<1>5. Listed(jobs', queueOrder')
  <2>1. /\ DOMAIN jobs' = DOMAIN jobs
        /\ \A j \in DOMAIN jobs : jobs'[j].queue = jobs[j].queue
    BY <1>2 DEF Evolves, Key
  <2> QED
    BY <1>1, <2>1 DEF Bookkeeping, Listed
<1> QED
  BY <1>1, <1>2, <1>3, <1>4, <1>5 DEF Bookkeeping

\* Clearing the history leaves the index alone.
LEMMA ClearCompletedBooks ==
  ASSUME IInv, Bookkeeping, WorkConserving, ClearCompleted
  PROVE  /\ Bookkeeping' /\ WorkConserving'
         /\ Tickets' = Active \cup Queued /\ Tickets' \subseteq Tickets
         /\ \A j \in Tickets' : jobs'[j] = jobs[j]
         /\ Active' = Active /\ Queued' = Queued
<1>1. /\ UNCHANGED <<latestByKey, nextTicket, attempted, queueOrder,
                     activeCount>>
      /\ jobs' = [j \in Active \cup Queued |-> jobs[j]]
  BY DEF ClearCompleted
<1>2. /\ Tickets' = Active \cup Queued /\ Tickets' \subseteq Tickets
      /\ \A j \in Tickets' : jobs'[j] = jobs[j]
  BY <1>1 DEF Tickets, Active, Queued, WithStatus
<1>3. Active' = Active /\ Queued' = Queued
  BY <1>2 DEF Active, Queued, WithStatus, Tickets
<1>4. Bookkeeping'
  BY <1>1, <1>2 DEF Bookkeeping, Listed, Tickets
<1> QED
  BY <1>1, <1>2, <1>3, <1>4 DEF WorkConserving

\* A new session starts with empty books.
LEMMA ResetBooks ==
  ASSUME Reset
  PROVE  Bookkeeping' /\ WorkConserving' /\ Tickets' = {}
<1>1. /\ jobs' = <<>> /\ nextTicket' = 1 /\ attempted' = {}
      /\ latestByKey' = [key \in Queue \X Track |-> None]
  BY DEF Reset
<1>2. DOMAIN jobs' = {} /\ Tickets' = {}
  BY <1>1 DEF Tickets
<1>3. Queued' = {}
  BY <1>2 DEF Queued, WithStatus
<1> QED
  BY <1>1, <1>2, <1>3 DEF Bookkeeping, WorkConserving, Listed, None

\* The latest job of a key after a batch: as before, or a job of the batch,
\* if the key had none that was still to settle.
LEMMA LatestAfterShape ==
  ASSUME SchedulerTypeOK,
         NEW q \in Queue, NEW items \in Batches, NEW policy \in Policy,
         NEW key \in Queue \X Track
  PROVE  LET js == AddJobs(q, items, policy)
             added == NewTickets(q, items, policy)
             new == LatestAfter(q, items, policy)[key]
         IN  \/ new = latestByKey[key] /\ \A j \in added : Key(js[j]) # key
             \/ /\ new \in added /\ Key(js[new]) = key
                /\ latestByKey[key] # None => IsSettled(latestByKey[key])
<1> DEFINE js == AddJobs(q, items, policy)
           added == NewTickets(q, items, policy)
           new == LatestAfter(q, items, policy)[key]
           mine == {j \in added : key = <<q, items[Position(j)].track>>}
           last == {j \in mine : \A i \in mine : i <= j}
<1>1. BatchShape(q, items, policy, js, added)
  BY AddJobsShape
<1>2. new = IF last = {} THEN latestByKey[key]
            ELSE CHOOSE j \in last : TRUE
  BY DEF LatestAfter
<1> HIDE DEF js, new, added
<1>3. CASE mine = {}
  <2>1. last = {}
    BY <1>3
  <2>2. \A j \in added : Key(js[j]) # key
    BY <1>1, <1>3 DEF BatchShape, Key
  <2> QED
    BY <1>2, <2>1, <2>2 DEF js, new, added
<1>4. CASE mine # {}
  <2>1. mine \subseteq 1..(nextTicket + Len(items))
        /\ nextTicket + Len(items) \in Nat
    BY <1>1 DEF BatchShape
  <2>2. last # {}
    <3>1. \E n \in mine : \A m \in mine : m <= n
      <4> HIDE DEF mine
      <4> QED
        BY <1>4, <2>1, GreatestOf
    <3> QED
      BY <3>1
  <2>3. new \in mine
    <3> HIDE DEF mine
    <3> QED
      BY <1>2, <2>2
  <2>4. Key(js[new]) = key /\ new \in added
    BY <1>1, <2>3 DEF BatchShape, Key
  <2>5. latestByKey[key] # None => IsSettled(latestByKey[key])
    <3>1. /\ Position(new) \in Accepted(q, items, policy)
          /\ key = <<q, items[Position(new)].track>>
      BY <1>1, <2>3 DEF BatchShape
    <3> QED
      BY <3>1 DEF Accepted
  <2> QED
    BY <2>4, <2>5 DEF js, new, added
<1> QED
  BY <1>3, <1>4

\* A queue that joins the rotation does so at its end.
LEMMA OrderWithShape ==
  ASSUME SchedulerTypeOK, NEW q \in Queue
  PROVE  /\ DOMAIN queueOrder \subseteq DOMAIN OrderWith(q)
         /\ \A n \in DOMAIN queueOrder : OrderWith(q)[n] = queueOrder[n]
         /\ \E n \in DOMAIN OrderWith(q) : OrderWith(q)[n] = q
<1>1. CASE HasQueue(q)
  BY <1>1 DEF HasQueue, OrderWith
<1>2. CASE ~HasQueue(q)
  <2>1. OrderWith(q) = Append(queueOrder, q) /\ queueOrder \in Seq(Queue)
    BY <1>2 DEF OrderWith, SchedulerTypeOK
  <2>2. /\ Len(queueOrder) + 1 \in DOMAIN Append(queueOrder, q)
        /\ Append(queueOrder, q)[Len(queueOrder) + 1] = q
    BY <2>1
  <2> QED
    BY <2>1, <2>2
<1> QED
  BY <1>1, <1>2

\* A batch is added, and pump has the slots with it.
LEMMA EnqueueManyGoes ==
  ASSUME IInv, Bookkeeping,
         NEW q \in Queue, NEW items \in Batches, NEW policy \in Policy,
         EnqueueMany(q, items, policy)
  PROVE  LET js == AddJobs(q, items, policy)
         IN  /\ Listed(js, queueOrder')
             /\ \/ \E s : HandsOver(s) /\ s.jobs = js
                \/ /\ UNCHANGED <<jobs, rotationCursor, activeCount,
                                  passedOver, attempted>>
                   /\ js = jobs
                   /\ Accepted(q, items, policy) = {}
<1> DEFINE js == AddJobs(q, items, policy)
           added == NewTickets(q, items, policy)
           s == [Slots EXCEPT !.jobs = js]
<1>1. SchedulerTypeOK /\ SlotAccounting /\ OneLiveJobPerKey
      /\ StoppedQueueIsDrained
  BY DEF IInv
<1>2. /\ ~disposed /\ queueOrder' = OrderWith(q)
      /\ nextTicket + Len(items) <= MaxTickets + 1
  BY DEF EnqueueMany
<1>3. BatchShape(q, items, policy, js, added)
  BY <1>1, AddJobsShape
<1>4. Listed(js, queueOrder')
  <2>1. /\ DOMAIN queueOrder \subseteq DOMAIN queueOrder'
        /\ \A n \in DOMAIN queueOrder : queueOrder'[n] = queueOrder[n]
        /\ \E n \in DOMAIN queueOrder' : queueOrder'[n] = q
    BY <1>1, <1>2, OrderWithShape
  <2>2. \A j \in DOMAIN js : \/ j \in DOMAIN jobs /\ js[j] = jobs[j]
                             \/ js[j].queue = q
    BY <1>3 DEF BatchShape, Tickets
  <2> HIDE DEF js
  <2> QED
    BY <2>1, <2>2 DEF Listed, Bookkeeping
<1>5. CASE /\ Accepted(q, items, policy) # {}
           /\ cancelled' = [cancelled EXCEPT ![q] = FALSE]
           /\ Pump(s, queueOrder', cancelled')
  <2>1. /\ DOMAIN js \subseteq 1..MaxTickets
        /\ js \in [DOMAIN js -> Job]
        /\ WithStatus(js, "active") = Active
        /\ \A p \in Queue : p # q => QueuedIn(js, p) = QueuedIn(jobs, p)
    BY <1>1, <1>2, AddJobsOK
  <2>2. queueOrder' \in Seq(Queue) /\ Len(queueOrder) <= Len(queueOrder')
    BY <1>1, <1>2, OrderWithOK
  <2>3. SlotsOK(s, queueOrder')
    BY <1>1, <2>1, <2>2, CurrentSlots
  <2>4. /\ s.jobs = js /\ s.cursor = rotationCursor /\ s.passed = passedOver
    BY DEF Slots
  <2>5. Drained(s.jobs, cancelled')
    BY <1>1, <1>5, <2>1, <2>4
       DEF Drained, StoppedQueueIsDrained, SchedulerTypeOK
  <2>6. HandsOver(s)
    BY <1>2, <1>5, <2>3, <2>4, <2>5 DEF HandsOver
  <2> HIDE DEF s
  <2> QED
    BY <1>4, <2>4, <2>6
<1>6. CASE /\ Accepted(q, items, policy) = {}
           /\ UNCHANGED <<slotVars, cancelled, cancelPromise, attempted>>
  <2>1. added = {}
    BY <1>6 DEF NewTickets
  <2>2. js = jobs
    <3>1. js = [j \in Tickets |-> jobs[j]]
      BY <2>1 DEF AddJobs
    <3> QED
      BY <1>1, <3>1 DEF SchedulerTypeOK
  <2> QED
    BY <1>4, <1>6, <2>2 DEF slotVars
<1> QED
  BY <1>2, <1>5, <1>6 DEF EnqueueMany

\* Adding a batch keeps the books.
LEMMA EnqueueManyBooks ==
  ASSUME IInv, IInv', Bookkeeping, WorkConserving,
         NEW q \in Queue, NEW items \in Batches, NEW policy \in Policy,
         EnqueueMany(q, items, policy)
  PROVE  /\ Evolves(AddJobs(q, items, policy), jobs')
         /\ Bookkeeping' /\ WorkConserving'
<1> DEFINE js == AddJobs(q, items, policy)
           added == NewTickets(q, items, policy)
<1>1. SchedulerTypeOK /\ queueOrder' \in Seq(Queue)
  BY DEF IInv, SchedulerTypeOK
<1>2. /\ nextTicket' = nextTicket + Len(items)
      /\ latestByKey' = LatestAfter(q, items, policy)
      /\ \/ attempted' = attempted
         \/ attempted' = attempted \cup
              {<<q, items[n].track>> : n \in Accepted(q, items, policy)}
  BY DEF EnqueueMany
<1>3. BatchShape(q, items, policy, js, added)
  BY <1>1, AddJobsShape
<1>4. /\ Listed(js, queueOrder')
      /\ \/ \E s : HandsOver(s) /\ s.jobs = js
         \/ jobs' = jobs /\ activeCount' = activeCount /\ js = jobs
  BY EnqueueManyGoes
<1>5. Evolves(js, jobs') /\ WorkConserving' /\ Listed(jobs', queueOrder')
  <2> HIDE DEF js
  <2>1. CASE jobs' = jobs /\ activeCount' = activeCount /\ js = jobs
    BY <1>4, <2>1 DEF Evolves, Forward, WorkConserving, Queued, WithStatus
  <2>2. ASSUME NEW s, HandsOver(s), s.jobs = js
        PROVE  Evolves(js, jobs') /\ WorkConserving'
               /\ Listed(jobs', queueOrder')
    <3>1. /\ ~disposed /\ SlotsOK(s, queueOrder') /\ Drained(s.jobs, cancelled')
          /\ Pump(s, queueOrder', cancelled')
      BY <2>2 DEF HandsOver
    <3>2. Started(s.jobs, jobs')
      BY <1>1, <3>1, PumpKeeps
    <3>3. Evolves(s.jobs, jobs')
      BY <3>1, <3>2, StartedEvolves DEF SlotsOK
    <3> QED
      BY <1>1, <1>4, <2>2, <3>1, <3>3, PumpExhausts
  <2> QED
    BY <1>4, <2>1, <2>2
<1>6. \A key \in Queue \X Track :
        \/ /\ latestByKey'[key] = latestByKey[key]
           /\ \A j \in added : Key(js[j]) # key
        \/ latestByKey'[key] \in added /\ Key(js[latestByKey'[key]]) = key
  BY <1>1, <1>2, LatestAfterShape
<1> HIDE DEF js, added
<1>7. \A key \in attempted' : latestByKey'[key] # None
  <2> TAKE key \in attempted'
  <2>1. key \in Queue \X Track
    BY DEF IInv, SchedulerTypeOK
  <2>2. CASE key \in attempted
    BY <1>3, <1>6, <2>1, <2>2 DEF Bookkeeping, BatchShape, None
  <2>3. CASE key \notin attempted
    <3>1. PICK n \in Accepted(q, items, policy) : key = <<q, items[n].track>>
      BY <1>2, <2>3
    <3>2. n \in 1..Len(items)
      BY <1>3, <3>1 DEF Accepted, BatchShape
    <3>3. n + nextTicket - 1 \in added
          /\ Position(n + nextTicket - 1) = n
      BY <1>3, <3>1, <3>2 DEF added, NewTickets, Position, BatchShape
    <3>4. Key(js[n + nextTicket - 1]) = key
      BY <1>3, <3>1, <3>3 DEF Key, BatchShape
    <3> QED
      BY <1>3, <1>6, <2>1, <3>3, <3>4 DEF BatchShape, None
  <2> QED
    BY <2>2, <2>3
<1>8. \A key \in Queue \X Track : latestByKey'[key] < nextTicket'
  <2> TAKE key \in Queue \X Track
  <2>1. latestByKey[key] \in Int /\ latestByKey[key] < nextTicket
    BY DEF Bookkeeping, IInv, SchedulerTypeOK
  <2> QED
    BY <1>2, <1>3, <1>6, <2>1 DEF BatchShape
<1>9. \A key \in Queue \X Track :
        latestByKey'[key] \in Tickets' => Key(jobs'[latestByKey'[key]]) = key
  <2> SUFFICES ASSUME NEW key \in Queue \X Track,
                      latestByKey'[key] \in Tickets'
               PROVE  Key(jobs'[latestByKey'[key]]) = key
    OBVIOUS
  <2>1. latestByKey'[key] \in DOMAIN js
        /\ Key(jobs'[latestByKey'[key]]) = Key(js[latestByKey'[key]])
    BY <1>5 DEF Evolves, Tickets
  <2>2. CASE latestByKey'[key] \in added
    <3>1. latestByKey[key] \in Int /\ latestByKey[key] < nextTicket
      BY DEF Bookkeeping, IInv, SchedulerTypeOK
    <3>2. latestByKey'[key] \in Int /\ latestByKey'[key] >= nextTicket
          /\ nextTicket \in Int
      BY <1>3, <2>2 DEF BatchShape
    <3>3. latestByKey'[key] # latestByKey[key]
      BY <3>1, <3>2
    <3> QED
      BY <1>6, <2>1, <3>3
  <2>3. CASE latestByKey'[key] \notin added
    <3>1. latestByKey'[key] = latestByKey[key] /\ latestByKey[key] \in Tickets
          /\ js[latestByKey[key]] = jobs[latestByKey[key]]
      BY <1>3, <1>6, <2>1, <2>3 DEF BatchShape
    <3> QED
      BY <2>1, <3>1 DEF Bookkeeping
  <2> QED
    BY <2>2, <2>3
<1> QED
  BY <1>5, <1>7, <1>8, <1>9 DEF Bookkeeping, js

\* A step of the scheduler: a batch is added, or the jobs go forward, or the
\* settled ones are cleared, or all are forgotten.
LEMMA StepShape ==
  ASSUME BookedInv, [Next]_vars
  PROVE  /\ IInv'
         /\ \/ \E q \in Queue, items \in Batches, policy \in Policy :
                 EnqueueMany(q, items, policy)
            \/ Goes
            \/ Dispose
            \/ ClearCompleted
            \/ Reset
<1>1. IInv'
  BY NextKeeps DEF BookedInv
<1>2. ASSUME NEW j \in executions, Settle(j)
      PROVE  Goes
  BY <1>2, SettleGoes DEF BookedInv
<1>3. ASSUME NEW q \in Queue, CancelQueue(q)
      PROVE  Goes
  BY <1>3, CancelQueueGoes DEF BookedInv
<1>4. ASSUME NEW q \in Queue, BackendCancelled(q)
      PROVE  Goes
  BY <1>4 DEF BackendCancelled, Goes, slotVars
<1>5. CASE UNCHANGED vars
  BY <1>1, <1>5 DEF vars, slotVars, Goes
<1> QED
  BY <1>1, <1>2, <1>3, <1>4, <1>5 DEF Next

\* The books are right and no slot idles, of every behaviour.
LEMMA BookedInvariant == Spec => []BookedInv
<1>1. Init => BookedInv
  <2> SUFFICES ASSUME Init PROVE BookedInv
    OBVIOUS
  <2>1. DOMAIN jobs = {} /\ Tickets = {} /\ Queued = {}
    BY DEF Init, Tickets, Queued, WithStatus
  <2>2. Bookkeeping
    BY <2>1 DEF Init, Bookkeeping, Listed, None
  <2> QED
    BY <2>1, <2>2, InitEstablishes DEF BookedInv, WorkConserving
<1>2. BookedInv /\ [Next]_vars => BookedInv'
  <2> SUFFICES ASSUME BookedInv, [Next]_vars
               PROVE  BookedInv'
    OBVIOUS
  <2>1. IInv /\ IInv' /\ Bookkeeping /\ WorkConserving
    BY StepShape DEF BookedInv
  <2>2. Bookkeeping' /\ WorkConserving'
    BY <2>1, StepShape, EnqueueManyBooks, GoesKeeps, DisposeBooks,
       ClearCompletedBooks, ResetBooks
  <2> QED
    BY <2>1, <2>2 DEF BookedInv
<1> QED
  BY <1>1, <1>2, PTL DEF Spec

\* No slot is idle while a job waits, whichever handler ran last.
THEOREM NoSlotIdles == Spec => []WorkConserving
<1>1. BookedInv => WorkConserving
  BY DEF BookedInv
<1> QED
  BY <1>1, BookedInvariant, PTL

\* The outcome of a job never changes: not by a late settlement, a stop, a
\* retry of its track or dispose.
THEOREM OutcomesAreFinal == Spec => OutcomeIsFinal
<1> DEFINE Final == \A j \in Tickets :
                      jobs[j].status \in Terminal /\ j \in DOMAIN jobs'
                        => jobs'[j].status = jobs[j].status
<1>1. BookedInv /\ [Next]_vars => Final
  <2> SUFFICES ASSUME BookedInv, [Next]_vars
               PROVE  Final
    OBVIOUS
  <2>1. IInv /\ IInv' /\ Bookkeeping /\ WorkConserving
    BY StepShape DEF BookedInv
  <2>2. ASSUME NEW q \in Queue, NEW items \in Batches, NEW policy \in Policy,
               EnqueueMany(q, items, policy)
        PROVE  Final
    <3> DEFINE js == AddJobs(q, items, policy)
    <3>1. Evolves(js, jobs')
      BY <2>1, <2>2, EnqueueManyBooks
    <3>2. \A j \in Tickets : j \in DOMAIN js /\ js[j] = jobs[j]
      <4>1. BatchShape(q, items, policy, js, NewTickets(q, items, policy))
        BY <2>1, AddJobsShape DEF IInv
      <4> HIDE DEF js
      <4> QED
        BY <4>1 DEF BatchShape
    <3> HIDE DEF js
    <3> QED
      BY <3>1, <3>2 DEF Evolves, Forward, Terminal
  <2>3. CASE Goes \/ Dispose
    <3>1. Evolves(jobs, jobs')
      BY <2>1, <2>3, GoesKeeps, DisposeBooks
    <3> QED
      BY <3>1 DEF Evolves, Forward, Terminal, Tickets
  <2>4. CASE ClearCompleted
    BY <2>1, <2>4, ClearCompletedBooks DEF Tickets
  <2>5. CASE Reset
    BY <2>5, ResetBooks DEF Tickets
  <2> QED
    BY StepShape, <2>2, <2>3, <2>4, <2>5
<1> QED
  BY <1>1, BookedInvariant, PTL DEF Spec, OutcomeIsFinal

\* No track is attempted twice in a session unless the user asks for it, also
\* when its finished job was cleared in between.
THEOREM RepeatsAreForced == Spec => OneUnforcedAttemptPerKey
<1> DEFINE Once == \A j \in DOMAIN jobs' \ Tickets :
                     ~jobs'[j].force => Key(jobs'[j]) \notin attempted
<1>1. BookedInv /\ [Next]_vars => Once
  <2> SUFFICES ASSUME BookedInv, [Next]_vars
               PROVE  Once
    OBVIOUS
  <2>1. IInv /\ IInv' /\ Bookkeeping /\ WorkConserving
    BY StepShape DEF BookedInv
  <2>2. ASSUME NEW q \in Queue, NEW items \in Batches, NEW policy \in Policy,
               EnqueueMany(q, items, policy)
        PROVE  Once
    <3> DEFINE js == AddJobs(q, items, policy)
               added == NewTickets(q, items, policy)
    <3>1. BatchShape(q, items, policy, js, added)
      BY <2>1, AddJobsShape DEF IInv
    <3>2. ASSUME NEW j \in DOMAIN jobs' \ Tickets
          PROVE  /\ j \in added
                 /\ jobs'[j].force = js[j].force
                 /\ Key(jobs'[j]) = Key(js[j])
      <4>1. \/ \E s : HandsOver(s) /\ s.jobs = js
            \/ jobs' = jobs
        BY <2>1, <2>2, EnqueueManyGoes
      <4>2. PICK s : HandsOver(s) /\ s.jobs = js
        BY <3>2, <4>1 DEF Tickets
      <4>3. Started(js, jobs') /\ js \in [DOMAIN js -> Job]
        <5>1. queueOrder' \in Seq(Queue)
          BY <2>1 DEF IInv, SchedulerTypeOK
        <5> HIDE DEF js
        <5> QED
          BY <4>2, <5>1, PumpKeeps DEF HandsOver, SlotsOK
      <4> HIDE DEF js, added
      <4>4. j \in DOMAIN js /\ js[j] \in Job
        BY <4>3 DEF Started
      <4>5. j \in added
        BY <3>1, <3>2, <4>4 DEF BatchShape
      <4>6. jobs'[j] = js[j] \/ jobs'[j] = [js[j] EXCEPT !.status = "active"]
        BY <4>3, <4>4 DEF Started
      <4>7. /\ jobs'[j].force = js[j].force
            /\ jobs'[j].queue = js[j].queue /\ jobs'[j].track = js[j].track
        BY <4>4, <4>6 DEF Job
      <4> QED
        BY <4>5, <4>7 DEF Key
    <3>3. ASSUME NEW j \in added, ~js[j].force
          PROVE  Key(js[j]) \notin attempted
      <4> HIDE DEF js, added
      <4> DEFINE n == Position(j)
      <4>1. /\ n \in Accepted(q, items, policy) /\ n \in 1..Len(items)
            /\ js[j] = NewJob(q, items, policy, n)
            /\ Key(js[j]) = <<q, items[n].track>>
        BY <3>1 DEF BatchShape, Key
      <4> HIDE DEF n
      <4>2. latestByKey[<<q, items[n].track>>] = None
        BY <3>3, <4>1 DEF Accepted, NewJob
      <4> QED
        BY <2>1, <4>1, <4>2 DEF Bookkeeping
    <3> QED
      BY <3>2, <3>3
  <2>3. CASE Goes \/ Dispose
    <3>1. Evolves(jobs, jobs')
      BY <2>1, <2>3, GoesKeeps, DisposeBooks
    <3> QED
      BY <3>1 DEF Evolves, Tickets
  <2>4. CASE ClearCompleted
    BY <2>1, <2>4, ClearCompletedBooks DEF Tickets
  <2>5. CASE Reset
    BY <2>5, ResetBooks DEF Tickets
  <2> QED
    BY StepShape, <2>2, <2>3, <2>4, <2>5
<1> QED
  BY <1>1, BookedInvariant, PTL DEF Spec, OneUnforcedAttemptPerKey

-----------------------------------------------------------------------------
(* The scheduler implements SlotPool.                                      *)

\* The phase of a track whose latest job has ticket l.
PhaseOf(js, l) ==
  IF l = None THEN "absent"
  ELSE IF l \in WithStatus(js, "queued") THEN "waiting"
  ELSE IF l \in WithStatus(js, "active") THEN "running"
  ELSE "finished"

PhasesFit ==
  /\ TrackPhase \in [Queue \X Track -> Pool!Phase]
  /\ Pool!Orderly(TrackPhase)

\* TrackPhase, key by key.
LEMMA PhaseByKey ==
  ASSUME NEW key \in Queue \X Track
  PROVE  /\ TrackPhase[key] = PhaseOf(jobs, latestByKey[key])
         /\ TrackPhase'[key] = PhaseOf(jobs', latestByKey'[key])
<1>1. \A js : WithStatus(js, "queued") \cap WithStatus(js, "active") = {}
  BY DEF WithStatus
<1>2. TrackPhase[key] = PhaseOf(jobs, latestByKey[key])
  BY <1>1, Zenon DEF TrackPhase, PhaseOf, Active, Queued
<1>3. TrackPhase'[key] = PhaseOf(jobs', latestByKey'[key])
  BY <1>1, Zenon DEF TrackPhase, PhaseOf, Active, Queued
<1> QED
  BY <1>2, <1>3

\* The tracks that run are as many as the slots in use, and none waits while
\* a slot is free.
LEMMA PhasesAreOrderly == BookedInv => PhasesFit
<1> SUFFICES ASSUME BookedInv PROVE PhasesFit
  OBVIOUS
<1> DEFINE running == {key \in Queue \X Track : TrackPhase[key] = "running"}
           waiting == {key \in Queue \X Track : TrackPhase[key] = "waiting"}
           keyOf == [j \in Active |-> Key(jobs[j])]
<1>1. SchedulerTypeOK /\ SlotAccounting /\ OneLiveJobPerKey /\ Bookkeeping
      /\ WorkConserving
  BY DEF BookedInv, IInv
<1>2. TrackPhase \in [Queue \X Track -> Pool!Phase]
  BY DEF TrackPhase, Pool!Phase
<1>3. \A key \in running : latestByKey[key] \in Active
                           /\ Key(jobs[latestByKey[key]]) = key
  <2> TAKE key \in running
  <2>1. latestByKey[key] \in Active
    BY PhaseByKey DEF PhaseOf, Active
  <2> QED
    BY <1>1, <2>1 DEF Bookkeeping, Active, WithStatus, Tickets
<1>4. \A j \in Active : /\ Key(jobs[j]) \in running
                        /\ latestByKey[Key(jobs[j])] = j
  <2> TAKE j \in Active
  <2>1. j \in Tickets /\ jobs[j] \in Job /\ jobs[j].status = "active"
    BY <1>1 DEF SchedulerTypeOK, Active, WithStatus, Tickets
  <2>2. Key(jobs[j]) \in Queue \X Track
    BY <2>1 DEF Key, Job
  <2>3. latestByKey[Key(jobs[j])] = j /\ j # None
    <3>1. j \in 1..MaxTickets
      BY <1>1, <2>1, MaxTicketsAssumption DEF SchedulerTypeOK
    <3> QED
      BY <1>1, <3>1 DEF OneLiveJobPerKey, None
  <2>4. j \notin WithStatus(jobs, "queued")
    BY <2>1 DEF WithStatus
  <2>5. TrackPhase[Key(jobs[j])] = "running"
    BY <2>2, <2>3, <2>4, PhaseByKey DEF PhaseOf, Active
  <2> QED
    BY <2>2, <2>3, <2>5
<1>5. IsFiniteSet(Active)
  <2>1. Tickets \subseteq 1..MaxTickets
    BY <1>1, MaxTicketsAssumption DEF SchedulerTypeOK
  <2> QED
    BY <2>1, ActiveFinite DEF Active, Tickets
<1> HIDE DEF running
<1>6. ExistsBijection(Active, running)
  <2>1. keyOf \in [Active -> running]
    BY <1>4
  <2>2. \A i, j \in Active : keyOf[i] = keyOf[j] => i = j
    BY <1>4
  <2>3. \A key \in running : \E j \in Active : keyOf[j] = key
    BY <1>3
  <2> HIDE DEF keyOf
  <2>4. keyOf \in Bijection(Active, running)
    BY <2>1, <2>2, <2>3 DEF Bijection, Injection, Surjection, IsInjective
  <2> QED
    BY <2>4 DEF ExistsBijection
<1>7. Cardinality(running) = activeCount
  BY <1>1, <1>5, <1>6, FS_Bijection DEF SlotAccounting
<1>8. waiting # {} => activeCount = Concurrency
  <2> SUFFICES ASSUME NEW key \in waiting
               PROVE  activeCount = Concurrency
    OBVIOUS
  <2>1. latestByKey[key] \in Queued
    BY PhaseByKey DEF PhaseOf, Queued
  <2> QED
    BY <1>1, <2>1, ConcurrencyAssumption DEF WorkConserving, SchedulerTypeOK
<1>9. Pool!In(TrackPhase, "running") = running
      /\ Pool!In(TrackPhase, "waiting") = waiting
  BY DEF Pool!In, running
<1>10. activeCount <= Concurrency
  BY <1>1, ConcurrencyAssumption DEF SchedulerTypeOK
<1>11. Pool!Orderly(TrackPhase)
  <2> HIDE DEF waiting
  <2>1. \A S : Pool!Cardinality(S) = Cardinality(S)
    BY DEF Pool!Cardinality, Cardinality
  <2> QED
    BY <2>1, <1>7, <1>8, <1>9, <1>10 DEF Pool!Orderly
<1> QED
  BY <1>2, <1>11 DEF PhasesFit

\* The pool allows what jobs that go forward make of the phase of a track.
LEMMA ForwardMoves ==
  ASSUME NEW js, NEW ks, Evolves(js, ks), NEW l,
         js \in [DOMAIN js -> Job], ks \in [DOMAIN ks -> Job]
  PROVE  \/ PhaseOf(ks, l) = PhaseOf(js, l)
         \/ <<PhaseOf(js, l), PhaseOf(ks, l)>> \in Pool!Moves
<1>1. CASE l \notin DOMAIN js
  BY <1>1 DEF PhaseOf, WithStatus, Evolves
<1>2. CASE l \in DOMAIN js
  <2>1. /\ l \in DOMAIN ks
        /\ Forward(js[l].status, ks[l].status)
        /\ ks[l].status \in Status
    BY <1>2 DEF Evolves, Job
  <2>2. \A st : /\ l \in WithStatus(js, st) <=> js[l].status = st
                /\ l \in WithStatus(ks, st) <=> ks[l].status = st
    BY <1>2, <2>1 DEF WithStatus
  <2> QED
    BY <2>1, <2>2 DEF PhaseOf, Forward, Terminal, Pool!Moves
<1> QED
  BY <1>1, <1>2

\* What a batch makes of the phase of a track is a move of the pool.
LEMMA EnqueueManyMoves ==
  ASSUME BookedInv, IInv',
         NEW q \in Queue, NEW items \in Batches, NEW policy \in Policy,
         EnqueueMany(q, items, policy), NEW key \in Queue \X Track
  PROVE  \/ TrackPhase'[key] = TrackPhase[key]
         \/ <<TrackPhase[key], TrackPhase'[key]>> \in Pool!Moves
<1> DEFINE js == AddJobs(q, items, policy)
           added == NewTickets(q, items, policy)
           l == latestByKey[key]
           new == latestByKey'[key]
<1>1. /\ BatchShape(q, items, policy, js, added)
      /\ Evolves(js, jobs')
  BY AddJobsShape, EnqueueManyBooks DEF BookedInv, IInv
<1>2. js \in [DOMAIN js -> Job] /\ jobs' \in [DOMAIN jobs' -> Job]
  <2>1. nextTicket + Len(items) <= MaxTickets + 1
    BY DEF EnqueueMany
  <2>2. js \in [DOMAIN js -> Job]
    BY <2>1, AddJobsOK DEF BookedInv, IInv
  <2> QED
    BY <2>2 DEF IInv, SchedulerTypeOK, Tickets
<1>3. \/ new = l
      \/ new \in added /\ (l # None => IsSettled(l))
  BY LatestAfterShape DEF EnqueueMany, BookedInv, IInv
<1>4. l \in Nat /\ l < nextTicket
  BY MaxTicketsAssumption DEF BookedInv, Bookkeeping, IInv, SchedulerTypeOK
<1>5. /\ TrackPhase[key] = PhaseOf(jobs, l)
      /\ TrackPhase'[key] = PhaseOf(jobs', new)
  BY PhaseByKey
<1> HIDE DEF js, added, l, new
<1>6. l \notin added
  BY <1>1, <1>4 DEF BatchShape
<1>7. CASE new = l
  <2>1. PhaseOf(js, l) = PhaseOf(jobs, l)
    BY <1>1, <1>6 DEF PhaseOf, WithStatus, BatchShape, Tickets
  <2> QED
    BY <1>1, <1>2, <1>5, <1>7, <2>1, ForwardMoves
<1>8. CASE new \in added /\ (l # None => IsSettled(l))
  <2>1. PhaseOf(jobs, l) \in {"absent", "finished"}
    BY <1>8 DEF PhaseOf, IsSettled, WithStatus, Terminal, Tickets
  <2>2. new # None
    BY <1>1, <1>8 DEF BatchShape, None
  <2>3. PhaseOf(jobs', new) \in {"waiting", "running", "finished"}
    BY <2>2 DEF PhaseOf
  <2> QED
    BY <1>5, <2>1, <2>3 DEF Pool!Moves
<1> QED
  BY <1>3, <1>7, <1>8

\* A new session forgets tracks of which none waits or runs.
LEMMA ResetForgets ==
  ASSUME BookedInv, Reset
  PROVE  Pool!Forget
<1>1. activeCount = 0 /\ WorkConserving
  BY ConcurrencyAssumption DEF BookedInv, IInv, SchedulerTypeOK, Reset
<1>2. Queued = {}
  BY <1>1, ConcurrencyAssumption DEF WorkConserving
<1>3. Active = {}
  <2>1. Tickets \subseteq 1..MaxTickets
    BY MaxTicketsAssumption DEF BookedInv, IInv, SchedulerTypeOK
  <2>2. IsFiniteSet(Active)
    BY <2>1, ActiveFinite DEF Active, Tickets
  <2> QED
    BY <1>1, <2>2, FS_EmptySet DEF BookedInv, IInv, SlotAccounting
<1>4. \A key \in Queue \X Track : TrackPhase[key] \notin {"waiting", "running"}
  BY <1>2, <1>3, PhaseByKey DEF PhaseOf, Active, Queued
<1>5. TrackPhase' = [key \in Queue \X Track |-> "absent"]
  BY DEF Reset, TrackPhase
<1> QED
  BY <1>4, <1>5 DEF Pool!Forget, Pool!In

\* Every step of the scheduler is a step of the pool, or changes no phase.
LEMMA StepsArePoolSteps ==
  ASSUME BookedInv, [Next]_vars, PhasesFit'
  PROVE  [Pool!Advance \/ Pool!Forget]_TrackPhase
<1>1. IInv /\ IInv' /\ Bookkeeping /\ WorkConserving
  BY StepShape DEF BookedInv
<1>2. ASSUME \A key \in Queue \X Track :
               \/ TrackPhase'[key] = TrackPhase[key]
               \/ <<TrackPhase[key], TrackPhase'[key]>> \in Pool!Moves
      PROVE  Pool!Advance
  BY <1>2 DEF Pool!Advance, PhasesFit
<1>3. ASSUME NEW q \in Queue, NEW items \in Batches, NEW policy \in Policy,
             EnqueueMany(q, items, policy)
      PROVE  Pool!Advance
  BY <1>1, <1>2, <1>3, EnqueueManyMoves
<1>4. CASE Goes \/ Dispose
  <2>1. Evolves(jobs, jobs') /\ latestByKey' = latestByKey
    BY <1>1, <1>4, GoesKeeps, DisposeBooks DEF Goes, Dispose
  <2>2. jobs \in [DOMAIN jobs -> Job] /\ jobs' \in [DOMAIN jobs' -> Job]
    BY <1>1 DEF IInv, SchedulerTypeOK, Tickets
  <2>3. ASSUME NEW key \in Queue \X Track
        PROVE  \/ TrackPhase'[key] = TrackPhase[key]
               \/ <<TrackPhase[key], TrackPhase'[key]>> \in Pool!Moves
    BY <2>1, <2>2, PhaseByKey, ForwardMoves
  <2> QED
    BY <1>2, <2>3
<1>5. CASE ClearCompleted
  <2>1. Active' = Active /\ Queued' = Queued /\ latestByKey' = latestByKey
    BY <1>1, <1>5, ClearCompletedBooks DEF ClearCompleted
  <2> QED
    BY <2>1 DEF TrackPhase
<1>6. CASE Reset
  BY <1>6, ResetForgets
<1> QED
  BY StepShape, <1>3, <1>4, <1>5, <1>6

\* The scheduler implements the pool: for each track of each queue it waits
\* and runs at most Concurrency at a time, no slot is free while one waits, a
\* finished one may return, and all are forgotten only together.
THEOREM PoolIsImplemented == Spec => ImplementsSlotPool
<1>1. Init => Pool!Init
  BY DEF Init, Pool!Init, TrackPhase
<1> QED
  BY <1>1, BookedInvariant, PhasesAreOrderly, StepsArePoolSteps, PTL
     DEF Spec, ImplementsSlotPool, Pool!Spec
-----------------------------------------------------------------------------
(* The rotation is fair.                                                   *)

\* Each queue is in the rotation once; a queue that was served while another
\* one waited is further ahead of the cursor than that one, so that its next
\* turn comes later.
Rotation(passed, cursor, order) ==
  /\ \A m, n \in DOMAIN order : order[m] = order[n] => m = n
  /\ \A p, q \in Queue : passed[p][q] <= 1
  /\ \A p, q \in Queue :
       passed[p][q] > 0
         => \E m, n \in DOMAIN order :
              /\ order[m] = p /\ order[n] = q
              /\ Ahead(n - 1, cursor, Len(order))
                   > Ahead(m - 1, cursor, Len(order))

\* The position at distance k of the cursor is k ahead of it.
LEMMA AheadOfIndex ==
  ASSUME NEW n \in Nat, n > 0, NEW c \in 0..n, NEW k \in 0..(n - 1)
  PROVE  /\ Ahead((c + k) % n, c, n) = k
         /\ (c + k) % n \in 0..(n - 1)
         /\ (c + k) % n = c + k \/ (c + k) % n = c + k - n
<1>1. CASE c + k < n
  <2>1. (c + k) % n = c + k
    BY <1>1, OneTurn
  <2> QED
    BY <1>1, <2>1 DEF Ahead
<1>2. CASE c + k >= n
  <2>1. c + k - n \in 0..(n - 1)
    BY <1>2
  <2>2. (c + k - n + n) % n = c + k - n
    BY <2>1, OneTurn
  <2>3. c + k - n + n = c + k
    OBVIOUS
  <2>4. (c + k) % n = c + k - n
    BY <2>2, <2>3
  <2> QED
    BY <1>2, <2>1, <2>4 DEF Ahead
<1> QED
  BY <1>1, <1>2

\* When the cursor passes the position at distance k, that one becomes the
\* furthest, and the ones behind it come nearer.
LEMMA AheadAfterTurn ==
  ASSUME NEW n \in Nat, n > 0, NEW c \in 0..n, NEW k \in 0..(n - 1),
         NEW i \in 0..(n - 1)
  PROVE  LET d == ((c + k) % n) + 1
         IN  /\ d \in 0..n
             /\ Ahead(i, c, n) > k => Ahead(i, d, n) = Ahead(i, c, n) - k - 1
             /\ Ahead(d - 1, d, n) = n - 1
<1> DEFINE x == (c + k) % n
<1>1. x \in 0..(n - 1) /\ (x = c + k \/ x = c + k - n)
  BY AheadOfIndex
<1> HIDE DEF x
<1>2. Ahead(i, c, n) > k => Ahead(i, x + 1, n) = Ahead(i, c, n) - k - 1
  <2>1. CASE x = c + k
    BY <1>1, <2>1 DEF Ahead
  <2>2. CASE x = c + k - n
    BY <1>1, <2>2 DEF Ahead
  <2> QED
    BY <1>1, <2>1, <2>2
<1>3. Ahead(x + 1 - 1, x + 1, n) = n - 1
  BY <1>1 DEF Ahead
<1> QED
  BY <1>1, <1>2, <1>3 DEF x

\* A round of the loop keeps the rotation fair.
LEMMA PumpOnceTurns ==
  ASSUME NEW s, NEW order \in Seq(Queue), NEW stopped, SlotsOK(s, order),
         Listed(s.jobs, order), Rotation(s.passed, s.cursor, order),
         NEW t \in PumpOnce(s, order, stopped)
  PROVE  Rotation(t.passed, t.cursor, order)
<1>1. CASE t = s
  BY <1>1
<1>2. ASSUME NEW kj \in Startable(s, order, stopped),
             t = StartJob(s, order, stopped, kj[1], kj[2])
      PROVE  Rotation(t.passed, t.cursor, order)
  <2> DEFINE k == kj[1]
             c == s.cursor
             n == Len(order)
             q == QueueAt(s, order, k)
             x == IndexAt(s, order, k) + 1
             new == t.passed
  <2>1. /\ k \in 0..(n - 1) /\ n \in Nat /\ n > 0 /\ c \in 0..n
        /\ \A l \in 0..(k - 1) : ~Waiting(s, stopped, QueueAt(s, order, l))
    <3>1. k \in Runnable(s, order, stopped)
      BY <1>2 DEF Startable
    <3>2. n \in Nat /\ c \in 0..n
      BY DEF SlotsOK
    <3>3. k \in 0..(n - 1)
      BY <3>1 DEF Runnable
    <3> QED
      BY <3>1, <3>2, <3>3 DEF Runnable
  <2>2. /\ x \in DOMAIN order /\ order[x] = q /\ q \in Queue
        /\ x \in 1..n
        /\ Ahead(x - 1, c, n) = k /\ Ahead(x - 1, x, n) = n - 1
    <3>1. IndexAt(s, order, k) = (c + k) % n
      BY DEF IndexAt
    <3>2. /\ Ahead(x - 1, c, n) = k /\ x \in 1..n
      <4> DEFINE y == (c + k) % n
      <4>1. Ahead(y, c, n) = k /\ y \in 0..(n - 1)
        BY <2>1, AheadOfIndex
      <4>2. x = y + 1
        BY <3>1
      <4> HIDE DEF y, x, n
      <4>3. x - 1 = y /\ x \in 1..n
        BY <2>1, <4>1, <4>2
      <4> QED
        BY <4>1, <4>3
    <3>3. Ahead(x - 1, x, n) = n - 1
      BY <3>2 DEF Ahead
    <3> QED
      BY <3>2, <3>3 DEF QueueAt
  <2>3. /\ t.cursor = x
        /\ new = [p \in Queue |->
                    IF p = q \/ ~Waiting(s, stopped, p)
                    THEN NoTurns ELSE [s.passed[p] EXCEPT ![q] = @ + 1]]
    BY <1>2 DEF StartJob
  <2>4. \A i \in 0..(n - 1) :
          Ahead(i, c, n) > k => Ahead(i, x, n) = Ahead(i, c, n) - k - 1
    BY <2>1, AheadAfterTurn DEF IndexAt
  <2>5. s.passed \in [Queue -> [Queue -> Nat]]
    BY DEF SlotsOK
  <2>6. \A m \in DOMAIN order : m \in 1..n /\ m - 1 \in 0..(n - 1)
    OBVIOUS
  \* A queue that goes on waiting is behind the one that is served.
  <2>7. ASSUME NEW p \in Queue, p # q, Waiting(s, stopped, p)
        PROVE  \E m \in DOMAIN order :
                 order[m] = p /\ Ahead(m - 1, c, n) > k
    <3>1. PICK j \in DOMAIN s.jobs : s.jobs[j].queue = p
      BY <2>7 DEF Waiting, QueuedIn, WithStatus
    <3>2. PICK m \in DOMAIN order : order[m] = p
      BY <3>1 DEF Listed
    <3> DEFINE d == Ahead(m - 1, c, n)
    <3>3. d \in 0..(n - 1) /\ QueueAt(s, order, d) = p
      BY <2>1, <3>2, SearchMeets
    <3> HIDE DEF d
    <3>4. d # k
      BY <2>7, <3>3
    <3>5. ~(d < k)
      BY <2>1, <2>7, <3>3
    <3> QED
      BY <2>1, <3>2, <3>3, <3>4, <3>5 DEF d
  <2> HIDE DEF k, q, x, n, c, new
  <2>8. ASSUME NEW p \in Queue, NEW r \in Queue, new[p][r] > 0
        PROVE  /\ new[p][r] = 1
               /\ \E m, i \in DOMAIN order :
                    /\ order[m] = p /\ order[i] = r
                    /\ Ahead(i - 1, x, n) > Ahead(m - 1, x, n)
    <3>1. p # q /\ Waiting(s, stopped, p)
      BY <2>3, <2>8 DEF NoTurns
    <3>2. new[p] = [s.passed[p] EXCEPT ![q] = @ + 1]
      BY <2>3, <3>1
    <3>3. PICK m \in DOMAIN order : order[m] = p /\ Ahead(m - 1, c, n) > k
      BY <2>7, <3>1
    <3>4. Ahead(m - 1, x, n) = Ahead(m - 1, c, n) - k - 1
      BY <2>4, <2>6, <3>3
    <3>5. Ahead(m - 1, c, n) \in 0..(n - 1)
      BY <2>1, <2>6 DEF Ahead
    <3>6. CASE r = q
      <4>1. ~(s.passed[p][q] > 0)
        <5> SUFFICES ASSUME s.passed[p][q] > 0 PROVE FALSE
          OBVIOUS
        <5>1. PICK m1, i1 \in DOMAIN order :
                /\ order[m1] = p /\ order[i1] = q
                /\ Ahead(i1 - 1, c, n) > Ahead(m1 - 1, c, n)
          BY <2>2 DEF Rotation, n, c
        <5>2. m1 = m /\ i1 = x
          BY <2>2, <3>3, <5>1 DEF Rotation
        <5> QED
          BY <2>1, <2>2, <3>3, <3>5, <5>1, <5>2
      <4>2. new[p][q] = 1
        <5>1. s.passed[p] \in [Queue -> Nat]
          BY <2>5
        <5>2. s.passed[p][q] = 0
          BY <2>2, <4>1, <5>1
        <5> QED
          BY <2>2, <3>2, <5>1, <5>2
      <4>3. Ahead(x - 1, x, n) > Ahead(m - 1, x, n)
        BY <2>1, <2>2, <3>4, <3>5
      <4> QED
        BY <2>2, <3>3, <3>6, <4>2, <4>3
    <3>7. CASE r # q
      <4>1. new[p][r] = s.passed[p][r]
        BY <2>2, <2>5, <3>2, <3>7
      <4>2. PICK m1, i1 \in DOMAIN order :
              /\ order[m1] = p /\ order[i1] = r
              /\ Ahead(i1 - 1, c, n) > Ahead(m1 - 1, c, n)
        BY <2>8, <4>1 DEF Rotation, n, c
      <4>3. m1 = m
        BY <3>3, <4>2 DEF Rotation
      <4>4. Ahead(i1 - 1, c, n) \in 0..(n - 1)
        <5>1. i1 - 1 \in 0..(n - 1)
          BY <2>6
        <5> QED
          BY <2>1, <5>1 DEF Ahead
      <4>5. Ahead(i1 - 1, c, n) > k
        BY <2>1, <3>3, <3>5, <4>2, <4>3, <4>4
      <4>6. Ahead(i1 - 1, x, n) = Ahead(i1 - 1, c, n) - k - 1
        BY <2>4, <2>6, <4>5
      <4>7. Ahead(i1 - 1, x, n) > Ahead(m - 1, x, n)
        BY <2>1, <3>4, <3>5, <4>2, <4>3, <4>4, <4>6
      <4>8. new[p][r] = 1
        <5>1. s.passed[p][r] <= 1 /\ s.passed[p][r] \in Nat
          BY <2>5 DEF Rotation
        <5> QED
          BY <2>8, <4>1, <5>1
      <4> QED
        BY <3>3, <4>2, <4>7, <4>8
    <3> QED
      BY <3>6, <3>7
  <2>9. \A p, r \in Queue : new[p][r] \in Nat
    <3>1. \A p \in Queue : new[p] \in [Queue -> Nat]
      <4> DEFINE turns(p) == [s.passed[p] EXCEPT ![q] = @ + 1]
      <4>1. \A p \in Queue : turns(p) \in [Queue -> Nat]
        <5>1. q \in Queue
          BY <2>2
        <5> QED
          BY <5>1, <2>5
      <4>2. NoTurns \in [Queue -> Nat]
        BY DEF NoTurns
      <4>3. \A p \in Queue : new[p] = NoTurns \/ new[p] = turns(p)
        BY <2>3
      <4> HIDE DEF turns
      <4> QED
        BY <4>1, <4>2, <4>3
    <3> QED
      BY <3>1
  <2>10. \A p, r \in Queue : new[p][r] <= 1
    BY <2>8, <2>9
  <2> QED
    BY <2>3, <2>8, <2>10 DEF Rotation, n, new
<1> QED
  BY <1>1, <1>2 DEF PumpOnce

\* So do three.
LEMMA PumpTurns ==
  ASSUME NEW s, NEW order \in Seq(Queue), NEW stopped, ~disposed,
         SlotsOK(s, order), Drained(s.jobs, stopped), Listed(s.jobs, order),
         Rotation(s.passed, s.cursor, order), Pump(s, order, stopped)
  PROVE  Rotation(passedOver', rotationCursor', order)
<1>1. PICK s1 \in PumpOnce(s, order, stopped) :
       \E s2 \in PumpOnce(s1, order, stopped) :
       \E s3 \in PumpOnce(s2, order, stopped) :
         passedOver' = s3.passed /\ rotationCursor' = s3.cursor
  BY DEF Pump
<1>2. PICK s2 \in PumpOnce(s1, order, stopped) :
       \E s3 \in PumpOnce(s2, order, stopped) :
         passedOver' = s3.passed /\ rotationCursor' = s3.cursor
  BY <1>1
<1>3. PICK s3 \in PumpOnce(s2, order, stopped) :
         passedOver' = s3.passed /\ rotationCursor' = s3.cursor
  BY <1>2
<1>4. /\ SlotsOK(s1, order) /\ Drained(s1.jobs, stopped)
      /\ Listed(s1.jobs, order)
      /\ Rotation(s1.passed, s1.cursor, order)
  BY PumpOnceProgress, PumpOnceTurns
<1>5. /\ SlotsOK(s2, order) /\ Listed(s2.jobs, order)
      /\ Rotation(s2.passed, s2.cursor, order)
  BY <1>4, PumpOnceProgress, PumpOnceTurns
<1>6. Rotation(s3.passed, s3.cursor, order)
  BY <1>5, PumpOnceTurns
<1> QED
  BY <1>3, <1>6

\* A queue that joins at the end takes no turn from the others.
LEMMA OrderWithTurns ==
  ASSUME SchedulerTypeOK, NEW q \in Queue,
         Rotation(passedOver, rotationCursor, queueOrder)
  PROVE  Rotation(passedOver, rotationCursor, OrderWith(q))
<1>1. CASE HasQueue(q)
  BY <1>1 DEF OrderWith
<1>2. CASE ~HasQueue(q)
  <2> DEFINE n == Len(queueOrder)
             c == rotationCursor
             order == Append(queueOrder, q)
  <2>1. /\ OrderWith(q) = order /\ queueOrder \in Seq(Queue)
        /\ n \in Nat /\ c \in 0..n
    BY <1>2 DEF OrderWith, SchedulerTypeOK
  <2>2. /\ Len(order) = n + 1 /\ DOMAIN order = 1..(n + 1)
        /\ DOMAIN queueOrder = 1..n
        /\ \A m \in 1..n : order[m] = queueOrder[m]
        /\ order[n + 1] = q
    BY <2>1
  <2>3. \A m \in 1..n : queueOrder[m] # q
    BY <1>2, <2>2 DEF HasQueue
  <2> HIDE DEF order, n, c
  <2>4. ASSUME NEW m \in DOMAIN order, NEW i \in DOMAIN order,
               order[m] = order[i]
        PROVE  m = i
    <3>1. m \in 1..(n + 1) /\ i \in 1..(n + 1)
      BY <2>2, <2>4
    <3>2. CASE m \in 1..n /\ i \in 1..n
      BY <2>2, <2>4, <3>2 DEF Rotation
    <3>3. CASE m = n + 1 \/ i = n + 1
      BY <2>1, <2>2, <2>3, <2>4, <3>1, <3>3
    <3> QED
      BY <2>1, <3>1, <3>2, <3>3
  <2>5. ASSUME NEW p \in Queue, NEW r \in Queue, passedOver[p][r] > 0
        PROVE  \E m, i \in DOMAIN order :
                 /\ order[m] = p /\ order[i] = r
                 /\ Ahead(i - 1, c, n + 1) > Ahead(m - 1, c, n + 1)
    <3>1. PICK m, i \in 1..n :
            /\ queueOrder[m] = p /\ queueOrder[i] = r
            /\ Ahead(i - 1, c, n) > Ahead(m - 1, c, n)
      BY <2>2, <2>5 DEF Rotation, n, c
    <3>2. Ahead(i - 1, c, n + 1) > Ahead(m - 1, c, n + 1)
      BY <2>1, <3>1 DEF Ahead
    <3>3. m \in DOMAIN order /\ i \in DOMAIN order
      BY <2>1, <2>2
    <3> QED
      BY <2>2, <3>1, <3>2, <3>3
  <2>6. \A p, r \in Queue : passedOver[p][r] <= 1
    BY DEF Rotation
  <2> QED
    BY <2>1, <2>2, <2>4, <2>5, <2>6 DEF Rotation, c
<1> QED
  BY <1>1, <1>2

\* While a queue waits, no other one is served twice: however queues join,
\* are stopped and refilled, the cursor passes the waiting one before it comes
\* to another one again.
THEOREM RotationIsFair == Spec => []RoundRobin
<1> DEFINE Turns == Rotation(passedOver, rotationCursor, queueOrder)
<1>1. Init => Turns
  <2> SUFFICES ASSUME Init PROVE Turns
    OBVIOUS
  <2>1. queueOrder = <<>> /\ \A p, q \in Queue : passedOver[p][q] = 0
    BY DEF Init, NoTurns
  <2> QED
    BY <2>1 DEF Rotation
<1>2. BookedInv /\ Turns /\ [Next]_vars => Turns'
  <2> SUFFICES ASSUME BookedInv, Turns, [Next]_vars
               PROVE  Turns'
    OBVIOUS
  <2>1. /\ SchedulerTypeOK /\ IInv /\ IInv' /\ Bookkeeping
        /\ queueOrder' \in Seq(Queue)
    BY StepShape DEF BookedInv, IInv, SchedulerTypeOK
  <2>2. ASSUME NEW s, HandsOver(s), Listed(s.jobs, queueOrder'),
               Rotation(passedOver, rotationCursor, queueOrder')
        PROVE  Turns'
    <3>1. Rotation(s.passed, s.cursor, queueOrder')
      BY <2>2 DEF HandsOver
    <3>2. Rotation(passedOver', rotationCursor', queueOrder')
      BY <2>1, <2>2, <3>1, PumpTurns DEF HandsOver
    <3> QED
      BY <3>2
  <2>3. ASSUME NEW q \in Queue, NEW items \in Batches, NEW policy \in Policy,
               EnqueueMany(q, items, policy)
        PROVE  Turns'
    <3> DEFINE js == AddJobs(q, items, policy)
    <3>1. queueOrder' = OrderWith(q)
      BY <2>3 DEF EnqueueMany
    <3>2. Rotation(passedOver, rotationCursor, queueOrder')
      BY <2>1, <3>1, OrderWithTurns
    <3>3. /\ Listed(js, queueOrder')
          /\ \/ \E s : HandsOver(s) /\ s.jobs = js
             \/ rotationCursor' = rotationCursor /\ passedOver' = passedOver
      BY <2>1, <2>3, EnqueueManyGoes
    <3> HIDE DEF js
    <3> QED
      BY <2>2, <3>2, <3>3
  <2>4. CASE Goes
    <3>1. queueOrder' = queueOrder
      BY <2>4 DEF Goes
    <3>2. CASE UNCHANGED <<jobs, rotationCursor, activeCount, passedOver>>
      BY <3>1, <3>2
    <3>3. ASSUME NEW s, HandsOver(s), Evolves(jobs, s.jobs)
          PROVE  Turns'
      <4>1. Listed(s.jobs, queueOrder')
        BY <2>1, <3>1, <3>3 DEF Bookkeeping, Listed, Evolves, Key
      <4> QED
        BY <2>2, <3>1, <3>3, <4>1
    <3> QED
      BY <2>4, <3>2, <3>3 DEF Goes
  <2>5. CASE Dispose
    BY <2>5 DEF Dispose
  <2>6. CASE ClearCompleted
    BY <2>6 DEF ClearCompleted
  <2>7. CASE Reset
    <3>1. queueOrder' = <<>> /\ \A p, q \in Queue : passedOver'[p][q] = 0
      BY <2>7 DEF Reset, NoTurns
    <3> QED
      BY <3>1 DEF Rotation
  <2> QED
    BY StepShape, <2>3, <2>4, <2>5, <2>6, <2>7
<1>3. Turns => RoundRobin
  BY DEF Rotation, RoundRobin
<1> QED
  BY <1>1, <1>2, <1>3, BookedInvariant, PTL DEF Spec
=============================================================================
