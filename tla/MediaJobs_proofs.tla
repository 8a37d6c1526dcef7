-------------------------- MODULE MediaJobs_proofs --------------------------
(***************************************************************************)
(* Proofs about MediaJobs.  The invariant says, for each place a job may   *)
(* be at, what the backend's list may hold of its item (Expected), and for *)
(* each call, what its answer and the list have to do with one another     *)
(* (CallOK).  Of the first call all that is known of both sides is kept;   *)
(* once a refused call is retried, that the list has settled is enough.    *)
(*                                                                         *)
(* For sessions the argument is that the jobs which execute when a new     *)
(* session begins to wait are all it has to wait for, as none starts until *)
(* it is done; without one the list, once empty, stays so (SessionOK).     *)
(***************************************************************************)
EXTENDS MediaJobs, TLAPS

JobRecord ==
  [kind : Kind,
   pc : {"waiting", "adding", "added", "updating", "token", "asking", "answered",
         "cancelWait", "calling", "refreshing", "done"},
   aborted : BOOLEAN, attempt : {1, 2}, ask : {"skipped", "failed", "cancelled"},
   outcome : {"completed", "suspicious", "skipped", "failed", "cancelled"}]

Status == {"absent"} \cup Unfinished \cup Terminal
Answers == {"none", "file", "suspicious", "exists", "error", "canceled"}

JobsTypeOK ==
  /\ items \in [ItemId -> Status]
  /\ job \in [ItemId -> JobRecord]
  /\ call \in [Call -> CallRecord]
  /\ response \in [Call -> Answers]
  /\ registry \in [ItemId -> Call \cup {None}]
  /\ lateCancel \subseteq ItemId

\* What the list holds of an item whose call answered r.
Listed(i, r) ==
  CASE r = "none" -> Unfinished
    [] r = "canceled" -> {"cancelled"}
    [] r = "error" -> {"failed"}
    [] r = "file" -> {"completed"}
    [] r = "suspicious" -> {IF job[i].kind = "youtube" THEN "failed" ELSE "completed"}
    [] r = "exists" -> {"skipped"}

\* What the list may hold of an item whose job settled without a retry.
Agreeing(i) ==
  IF job[i].aborted /\ job[i].outcome = "cancelled"
  THEN Terminal \ {"completed"} ELSE {Row(i)}

\* What the list may hold of an item, wherever its job is.
Expected(i) ==
  CASE job[i].pc \in {"waiting", "adding"} -> {}
    [] job[i].pc \in {"added", "token", "updating"} -> Unfinished
    [] job[i].pc = "asking" -> 
         Unfinished \cup {s \in {"cancelled"} : job[i].aborted /\ job[i].ask # "cancelled"}
    [] job[i].pc = "answered" -> {job[i].ask} \cup {s \in {"cancelled"} : job[i].aborted}
    [] job[i].pc = "cancelWait" -> {s \in Terminal \ {"completed"} : job[i].aborted}
    [] job[i].pc = "calling" ->
         IF job[i].attempt = 1 THEN Listed(i, response[<<i, 1>>]) ELSE {"failed"}
    [] job[i].pc = "refreshing" -> {"failed"}
    [] job[i].pc = "done" -> IF job[i].attempt = 1 THEN Agreeing(i) ELSE {"failed"}

JobOK(i) ==
  /\ items[i] \in Expected(i) \cup {"absent"}
  /\ job[i].pc \notin {"calling", "done"} => job[i].attempt = 1
  /\ i \in lateCancel =>
       /\ job[i].pc \in {"asking", "answered", "cancelWait"}
       /\ job[i].aborted /\ job[i].ask # "cancelled"

CallOK(i, n) ==
  LET c == <<i, n>> IN
  /\ call[c].pc \notin {"idle", "left"} =>
       /\ job[i].pc = "calling" /\ job[i].attempt = n
       /\ call[c].item = i /\ call[c].kind = job[i].kind
  /\ response[c] # "none" <=>
       call[c].pc \in {"recording", "leaving", "unregistering", "left"}
  /\ call[c].pc = "returned" /\ call[c].kind = "youtube" =>
       call[c].result \notin {"exists", "empty"}
  /\ call[c].pc = "passed" =>
       call[c].kind = "track" /\ call[c].result \in {"file", "suspicious", "exists"}

IInv ==
  /\ JobsTypeOK
  /\ \A i \in ItemId : JobOK(i)
  /\ \A i \in ItemId, n \in {1, 2} : CallOK(i, n)

-----------------------------------------------------------------------------
\* The invariant holds before any job executes.
LEMMA InitInv == JobInit => IInv
<1> SUFFICES ASSUME JobInit PROVE IInv
  OBVIOUS
<1> USE DEF JobInit, Init, NewJob, NoCall
<1>1. JobsTypeOK
  BY DEF JobsTypeOK, Status, JobRecord, CallRecord, Answers, Kind, Result
<1>2. \A i \in ItemId : JobOK(i)
  BY DEF JobOK, Expected
<1>3. \A i \in ItemId, n \in {1, 2} : CallOK(i, n)
  BY CallsAssumption DEF CallOK
<1> QED
  BY <1>1, <1>2, <1>3 DEF IInv

\* A step about one item is no concern of the others.
LEMMA Others ==
  ASSUME IInv, NEW i \in ItemId,
         \A j \in ItemId : j # i =>
           /\ job'[j] = job[j] /\ items'[j] = items[j]
           /\ j \in lateCancel' <=> j \in lateCancel
           /\ \A n \in {1, 2} : /\ call'[<<j, n>>] = call[<<j, n>>]
                                /\ response'[<<j, n>>] = response[<<j, n>>],
         JobsTypeOK', JobOK(i)', CallOK(i, 1)', CallOK(i, 2)'
  PROVE  IInv'
<1>1. \A j \in ItemId : JobOK(j)'
  <2> SUFFICES ASSUME NEW j \in ItemId, j # i PROVE JobOK(j)'
    OBVIOUS
  <2>1. JobOK(j)
    BY DEF IInv
  <2>2. /\ job'[j] = job[j] /\ items'[j] = items[j]
        /\ j \in lateCancel' <=> j \in lateCancel
        /\ response'[<<j, 1>>] = response[<<j, 1>>]
    OBVIOUS
  <2>3. Listed(j, response[<<j, 1>>])' = Listed(j, response[<<j, 1>>])
    BY <2>2 DEF Listed
  <2>4. Agreeing(j)' = Agreeing(j)
    BY <2>2 DEF Agreeing, Row
  <2>5. Expected(j)' = Expected(j)
    BY <2>2, <2>3, <2>4 DEF Expected
  <2> QED
    BY <2>1, <2>2, <2>5 DEF JobOK
<1>2. \A j \in ItemId, n \in {1, 2} : CallOK(j, n)'
  <2> SUFFICES ASSUME NEW j \in ItemId, NEW n \in {1, 2}, j # i PROVE CallOK(j, n)'
    OBVIOUS
  <2>1. CallOK(j, n)
    BY DEF IInv
  <2> QED
    BY <2>1 DEF CallOK
<1> QED
  BY <1>1, <1>2 DEF IInv

\* An executor goes on while its job has no call under way.
LEMMA ExecutorInv ==
  ASSUME IInv, NEW i \in ItemId, NEW r \in JobRecord,
         job' = [job EXCEPT ![i] = r], r.kind = job[i].kind,
         \A n \in {1, 2} : call[<<i, n>>].pc \in {"idle", "left"},
         UNCHANGED <<call, response, registry>>,
         items' \in [ItemId -> Status], \A j \in ItemId : j # i => items'[j] = items[j],
         lateCancel' = lateCancel \/ lateCancel' = lateCancel \ {i},
         JobOK(i)'
  PROVE  IInv'
<1>1. job'[i] = r /\ \A j \in ItemId : j # i => job'[j] = job[j]
  BY DEF IInv, JobsTypeOK
<1>2. JobsTypeOK'
  BY DEF IInv, JobsTypeOK
<1>3. CallOK(i, 1)' /\ CallOK(i, 2)'
  BY DEF IInv, CallOK
<1> QED
  BY <1>1, <1>2, <1>3, Others

\* The calls of a job that does not wait for one are over or have not begun.
LEMMA CallsOver ==
  ASSUME IInv, NEW i \in ItemId,
         job[i].pc # "calling" \/ call[CallOf(i)].pc = "left"
  PROVE  \A n \in {1, 2} : call[<<i, n>>].pc \in {"idle", "left"}
<1> SUFFICES ASSUME NEW n \in {1, 2} PROVE call[<<i, n>>].pc \in {"idle", "left"}
  OBVIOUS
<1>1. CallOK(i, n)
  BY DEF IInv
<1> QED
  BY <1>1 DEF CallOK, CallOf

\* The steps of a job without a backend step, but for the calls it sends.
LEMMA AnsweredInv ==
  ASSUME IInv, NEW i \in ItemId, NEW p, NEW r \in JobRecord,
         job' = [job EXCEPT ![i] = r], r.kind = job[i].kind,
         r.aborted = job[i].aborted, r.attempt = job[i].attempt,
         UNCHANGED <<items, call, response, registry, lateCancel>>,
         \/ /\ job[i].pc \in {"added", "updating", "token"}
            /\ r.pc \in {"token", "updating", "asking"}
         \/ /\ job[i].pc = "waiting" /\ r.pc = "adding"
         \/ /\ job[i].pc = "answered" /\ r.pc = "cancelWait"
            /\ job[i].aborted /\ r.ask = job[i].ask /\ job[i].ask # "cancelled"
         \/ /\ job[i].pc = "answered" /\ r.pc = "done"
            /\ ~job[i].aborted \/ job[i].ask = "cancelled"
            /\ r.outcome = job[i].ask
         \/ /\ job[i].pc = "cancelWait" /\ i \notin lateCancel
            /\ r.pc = "done" /\ r.outcome = "cancelled"
         \/ /\ job[i].pc = "refreshing" /\ r.pc = "done"
            /\ r.outcome \in {"failed", "cancelled"}
            /\ r.outcome = "cancelled" => job[i].aborted
  PROVE  IInv'
<1>1. job'[i] = r
  BY DEF IInv, JobsTypeOK
<1>2. JobOK(i)
  BY DEF IInv
<1>3. job[i] \in JobRecord /\ items \in [ItemId -> Status]
  BY DEF IInv, JobsTypeOK
<1>4. Terminal = {"completed", "failed", "skipped", "cancelled"} /\ Unfinished = {"queued", "downloading"}
  BY DEF Terminal, Unfinished
<1>5. JobOK(i)'
  BY <1>1, <1>2, <1>3, <1>4 DEF JobOK, Expected, Agreeing, Row, JobRecord
<1> QED
  BY <1>3, <1>5, CallsOver, ExecutorInv

\* The facts about one item that every step begins with.
LEMMA JobTypes ==
  ASSUME IInv, NEW i \in ItemId
  PROVE  /\ job[i] \in JobRecord /\ items \in [ItemId -> Status]
         /\ job[i].kind \in Kind /\ job[i].aborted \in BOOLEAN
         /\ JobOK(i) /\ CallOK(i, 1) /\ CallOK(i, 2)
         /\ \A n \in {1, 2} : <<i, n>> \in Call
         /\ Kind = {"track", "youtube"}
         /\ Terminal = {"completed", "failed", "skipped", "cancelled"}
         /\ Unfinished = {"queued", "downloading"}
  BY CallsAssumption DEF IInv, JobsTypeOK, JobRecord, Kind, Terminal, Unfinished

\* A job that goes on to p keeps what AnsweredInv asks for.
LEMMA Changed ==
  ASSUME IInv, NEW i \in ItemId
  PROVE  /\ \A p \in {"adding", "token", "updating", "cancelWait"} : JobGoTo(i, p) =>
              \E r \in JobRecord :
                /\ job' = [job EXCEPT ![i] = r] /\ r.kind = job[i].kind
                /\ r.aborted = job[i].aborted /\ r.attempt = job[i].attempt
                /\ r.pc = p /\ r.ask = job[i].ask
         /\ \A a \in {"skipped", "failed", "cancelled"} : JobAsk(i, a) =>
              \E r \in JobRecord :
                /\ job' = [job EXCEPT ![i] = r] /\ r.kind = job[i].kind
                /\ r.aborted = job[i].aborted /\ r.attempt = job[i].attempt
                /\ r.pc = "asking"
         /\ \A o \in {"skipped", "failed", "cancelled"} : JobDone(i, o) =>
              \E r \in JobRecord :
                /\ job' = [job EXCEPT ![i] = r] /\ r.kind = job[i].kind
                /\ r.aborted = job[i].aborted /\ r.attempt = job[i].attempt
                /\ r.pc = "done" /\ r.outcome = o
<1> USE JobTypes DEF JobRecord
<1>1. ASSUME NEW p \in {"adding", "token", "updating", "cancelWait"}, JobGoTo(i, p)
      PROVE  \E r \in JobRecord :
                /\ job' = [job EXCEPT ![i] = r] /\ r.kind = job[i].kind
                /\ r.aborted = job[i].aborted /\ r.attempt = job[i].attempt
                /\ r.pc = p /\ r.ask = job[i].ask
  <2> WITNESS [job[i] EXCEPT !.pc = p] \in JobRecord
  <2> QED
    BY <1>1 DEF JobGoTo
<1>2. ASSUME NEW a \in {"skipped", "failed", "cancelled"}, JobAsk(i, a)
      PROVE  \E r \in JobRecord :
                /\ job' = [job EXCEPT ![i] = r] /\ r.kind = job[i].kind
                /\ r.aborted = job[i].aborted /\ r.attempt = job[i].attempt
                /\ r.pc = "asking"
  <2> WITNESS [job[i] EXCEPT !.pc = "asking", !.ask = a] \in JobRecord
  <2> QED
    BY <1>2 DEF JobAsk
<1>3. ASSUME NEW o \in {"skipped", "failed", "cancelled"}, JobDone(i, o)
      PROVE  \E r \in JobRecord :
                /\ job' = [job EXCEPT ![i] = r] /\ r.kind = job[i].kind
                /\ r.aborted = job[i].aborted /\ r.attempt = job[i].attempt
                /\ r.pc = "done" /\ r.outcome = o
  <2> WITNESS [job[i] EXCEPT !.pc = "done", !.outcome = o] \in JobRecord
  <2> QED
    BY <1>3 DEF JobDone
<1> QED
  BY <1>1, <1>2, <1>3

\* A download is sent.
LEMMA SendInv ==
  ASSUME IInv, NEW i \in ItemId, NEW n \in {1, 2}, Send(i, n),
         \/ n = 1 /\ job[i].pc \in {"added", "token"}
         \/ n = 2 /\ job[i].pc = "refreshing",
         UNCHANGED <<response, lateCancel>>
  PROVE  IInv'
<1> DEFINE c == <<i, n>>
           k == [call[c] EXCEPT !.pc = "arrived", !.item = i, !.kind = job[i].kind]
           r == [job[i] EXCEPT !.pc = "calling", !.attempt = n]
<1>1. /\ c \in Call /\ call[c].pc = "idle"
      /\ call' = [call EXCEPT ![c] = k] /\ job' = [job EXCEPT ![i] = r]
      /\ UNCHANGED <<items, registry>>
  BY JobTypes DEF Send, Arrive
<1>2. r \in JobRecord /\ r.kind = job[i].kind
  BY JobTypes DEF JobRecord
<1>3. k \in CallRecord
  <2>1. call[c] \in CallRecord /\ job[i].kind \in Kind
    BY <1>1, JobTypes DEF IInv, JobsTypeOK
  <2> QED
    BY <2>1 DEF CallRecord
<1>4. JobsTypeOK'
  BY <1>1, <1>2, <1>3 DEF IInv, JobsTypeOK
<1>5. /\ job'[i] = r /\ \A j \in ItemId : j # i => job'[j] = job[j]
      /\ call'[c] = k /\ \A d \in Call : d # c => call'[d] = call[d]
  BY <1>1 DEF IInv, JobsTypeOK
<1>6. /\ k.pc = "arrived" /\ k.item = i /\ k.kind = job[i].kind
      /\ r.pc = "calling" /\ r.attempt = n
  BY <1>1, JobTypes DEF IInv, JobsTypeOK, CallRecord, JobRecord
<1>7. \A m \in {1, 2} : call[<<i, m>>].pc \in {"idle", "left"}
  BY CallsOver
<1> HIDE DEF k, r
<1>8. CallOK(i, 1)' /\ CallOK(i, 2)'
  <2> SUFFICES ASSUME NEW m \in {1, 2} PROVE CallOK(i, m)'
    OBVIOUS
  <2>1. CallOK(i, m)
    BY DEF IInv
  <2>2. CASE m = n
    BY <1>1, <1>2, <1>5, <1>6, <2>1, <2>2 DEF CallOK
  <2>3. CASE m # n
    <3>1. call'[<<i, m>>] = call[<<i, m>>] /\ call[<<i, m>>].pc \in {"idle", "left"}
      BY <1>5, <1>7, <2>3, JobTypes
    <3> QED
      BY <2>1, <3>1 DEF CallOK
  <2> QED
    BY <2>2, <2>3
<1>9. JobOK(i)'
  <2>1. job'[i].pc = "calling" /\ job'[i].attempt = n
    BY <1>5, <1>6
  <2>2. UNCHANGED <<items, response, lateCancel>> /\ JobOK(i) /\ items \in [ItemId -> Status]
    BY <1>1, JobTypes
  <2>3. CASE n = 1
    <3>0. job[i].pc \in {"added", "token"} /\ call[<<i, 1>>].pc = "idle"
      BY <1>1, <2>3
    <3>1. response[<<i, 1>>] = "none" /\ items[i] \in Unfinished \cup {"absent"}
      <4>1. Expected(i) = Unfinished
        BY <3>0 DEF Expected
      <4>2. response[<<i, 1>>] = "none"
        BY <3>0, JobTypes DEF CallOK
      <4> QED
        BY <2>2, <4>1, <4>2 DEF JobOK
    <3>2. Expected(i)' = Unfinished
      BY <2>1, <2>2, <2>3, <3>1 DEF Expected, Listed
    <3> QED
      BY <2>1, <2>2, <2>3, <3>1, <3>2 DEF JobOK
  <2>4. CASE n = 2
    <3>1. items[i] \in {"failed", "absent"}
      <4>1. job[i].pc = "refreshing"
        BY <2>4
      <4>2. Expected(i) = {"failed"}
        BY <4>1 DEF Expected
      <4> QED
        BY <2>2, <4>2 DEF JobOK, Terminal
    <3>2. Expected(i)' = {"failed"}
      BY <2>1, <2>4 DEF Expected
    <3> QED
      BY <2>1, <2>2, <2>4, <3>1, <3>2 DEF JobOK
  <2> QED
    BY <2>3, <2>4
<1>10. \A j \in ItemId, m \in {1, 2} : j # i => call'[<<j, m>>] = call[<<j, m>>]
  BY <1>5, JobTypes
<1> QED
  BY <1>1, <1>4, <1>5, <1>8, <1>9, <1>10, Others

\* The steps of an executor that need no step of the backend but a call.
LEMMA ContinueInv ==
  ASSUME IInv, NEW i \in ItemId, NEW ok \in BOOLEAN,
         \/ Execute(i) \/ AddAnswered(i) \/ UpdateAnswered(i, ok) \/ TokenAnswered(i, ok)
         \/ AskAnswered(i) \/ CancelAnswered(i) \/ RefreshAnswered(i, ok)
  PROVE  IInv'
<1> USE DEF backVars, vars
<1>1. ASSUME UNCHANGED <<items, call, response, registry, lateCancel>>,
             \/ /\ job[i].pc = "waiting" /\ JobGoTo(i, "adding")
             \/ /\ job[i].pc \in {"added", "updating", "token"}
                /\ \/ JobGoTo(i, "token") \/ JobGoTo(i, "updating")
                   \/ \E a \in {"skipped", "failed", "cancelled"} : JobAsk(i, a)
      PROVE  IInv'
  BY <1>1, Changed, AnsweredInv
<1>2. ASSUME UNCHANGED <<items, call, response, registry, lateCancel>>,
             \/ /\ job[i].pc = "answered" /\ JobGoTo(i, "cancelWait")
                /\ job[i].aborted /\ job[i].ask # "cancelled"
             \/ /\ job[i].pc = "answered" /\ JobDone(i, job[i].ask)
                /\ ~job[i].aborted \/ job[i].ask = "cancelled"
      PROVE  IInv'
  <2>1. job[i].ask \in {"skipped", "failed", "cancelled"}
    BY JobTypes DEF JobRecord
  <2> QED
    BY <1>2, <2>1, Changed, AnsweredInv
<1>3. ASSUME UNCHANGED <<items, call, response, registry, lateCancel>>,
             \/ /\ job[i].pc = "cancelWait" /\ i \notin lateCancel
                /\ JobDone(i, "cancelled")
             \/ /\ job[i].pc = "refreshing"
                /\ \/ job[i].aborted /\ JobDone(i, "cancelled")
                   \/ JobDone(i, "failed")
      PROVE  IInv'
  BY <1>3, Changed, AnsweredInv
<1>4. CASE Execute(i)
  BY <1>1, <1>4 DEF Execute
<1>5. CASE AddAnswered(i)
  BY <1>1, <1>5, SendInv DEF AddAnswered
<1>6. CASE UpdateAnswered(i, ok)
  BY <1>1, <1>6 DEF UpdateAnswered
<1>7. CASE TokenAnswered(i, ok)
  BY <1>1, <1>7, SendInv DEF TokenAnswered
<1>8. CASE AskAnswered(i)
  BY <1>2, <1>8 DEF AskAnswered
<1>9. CASE CancelAnswered(i)
  BY <1>3, <1>9 DEF CancelAnswered
<1>10. CASE RefreshAnswered(i, ok)
  BY <1>3, <1>10, SendInv DEF RefreshAnswered
<1> QED
  BY <1>4, <1>5, <1>6, <1>7, <1>8, <1>9, <1>10

\* The answer of a call agrees with the list, which the call has settled.
LEMMA CallAnsweredInv ==
  ASSUME IInv, NEW i \in ItemId, NEW unauthorized \in BOOLEAN,
         CallAnswered(i, unauthorized)
  PROVE  IInv'
<1> DEFINE a == response[CallOf(i)]
           o == OutcomeOf(i)
           gone == [job[i] EXCEPT !.pc = "refreshing"]
           done == [job[i] EXCEPT !.pc = "done", !.outcome = o]
<1>1. /\ job[i].pc = "calling" /\ call[CallOf(i)].pc = "left" /\ a # "none"
      /\ UNCHANGED <<items, call, response, registry, lateCancel>>
  BY DEF CallAnswered, backVars, vars
<1>2. a \in Answers \ {"none"}
  <2>1. CallOf(i) \in Call
    BY CallsAssumption, JobTypes DEF CallOf, JobRecord
  <2> QED
    BY <1>1, <2>1 DEF IInv, JobsTypeOK
<1>3. i \notin lateCancel
  BY <1>1, JobTypes DEF JobOK
<1>4. job[i].attempt = 1 => items[i] \in Listed(i, a) \cup {"absent"}
  BY <1>1, JobTypes DEF JobOK, Expected, CallOf
<1>5. job[i].attempt = 2 => items[i] \in {"failed", "absent"}
  <2> SUFFICES ASSUME job[i].attempt = 2 PROVE items[i] \in {"failed", "absent"}
    OBVIOUS
  <2>1. Expected(i) = {"failed"}
    BY <1>1 DEF Expected
  <2> QED
    BY <2>1, JobTypes DEF JobOK
<1>6. job[i].attempt \in {1, 2}
  BY JobTypes DEF JobRecord
<1>7. CASE unauthorized /\ ~job[i].aborted
  <2>1. job' = [job EXCEPT ![i] = gone] /\ a = "error" /\ job[i].attempt = 1
    BY <1>7 DEF CallAnswered, JobGoTo
  <2>2. gone \in JobRecord /\ gone.kind = job[i].kind /\ gone.pc = "refreshing" /\ gone.attempt = 1
    BY <2>1, JobTypes DEF JobRecord
  <2>3. job'[i] = gone
    BY <2>1 DEF IInv, JobsTypeOK
  <2> HIDE DEF gone
  <2>4. Expected(i)' = {"failed"} /\ Listed(i, a) = {"failed"}
    BY <2>1, <2>2, <2>3 DEF Expected, Listed
  <2>5. JobOK(i)'
    BY <1>1, <1>3, <1>4, <2>1, <2>2, <2>3, <2>4 DEF JobOK
  <2> QED
    BY <1>1, <2>1, <2>2, <2>5, CallsOver, ExecutorInv, JobTypes
<1>8. CASE ~(unauthorized /\ ~job[i].aborted)
  <2>1. job' = [job EXCEPT ![i] = done]
    BY <1>8 DEF CallAnswered, JobDone
  <2>2. /\ o \in {"completed", "suspicious", "skipped", "failed", "cancelled"}
        /\ a = "file" => o = "completed"
        /\ a = "suspicious" => o = "suspicious"
        /\ a = "exists" => o = "skipped"
        /\ a = "canceled" => o = "cancelled"
        /\ a = "error" => o \in {"failed", "cancelled"}
        /\ a = "error" /\ o = "cancelled" => job[i].aborted
    BY <1>2, JobTypes DEF OutcomeOf, Answers, JobRecord
  <2> HIDE DEF o
  <2>3. /\ done \in JobRecord /\ done.kind = job[i].kind /\ done.pc = "done"
        /\ done.attempt = job[i].attempt /\ done.outcome = o
        /\ done.aborted = job[i].aborted
    BY <2>2, JobTypes DEF JobRecord
  <2>4. job'[i] = done
    BY <2>1 DEF IInv, JobsTypeOK
  <2> HIDE DEF done, a
  <2>5. Expected(i)' = IF job[i].attempt = 1 THEN Agreeing(i)' ELSE {"failed"}
    BY <2>3, <2>4 DEF Expected
  <2>6. Listed(i, a) \subseteq Agreeing(i)'
    <3>1. /\ job'[i].outcome = o /\ job'[i].kind = job[i].kind
          /\ job'[i].aborted = job[i].aborted
      BY <2>3, <2>4
    <3>2. CASE a = "suspicious"
      BY <2>2, <3>1, <3>2, JobTypes DEF Listed, Agreeing, Row, Kind
    <3>3. CASE a # "suspicious"
      <4>1. \/ a = "file" /\ o = "completed"
            \/ a = "exists" /\ o = "skipped"
            \/ a = "canceled" /\ o = "cancelled"
            \/ a = "error" /\ o = "cancelled" /\ job[i].aborted
            \/ a = "error" /\ o = "failed"
        BY <1>2, <2>2, <3>3 DEF Answers
      <4> QED
        BY <3>1, <4>1, JobTypes DEF Listed, Agreeing, Row
    <3> QED
      BY <3>2, <3>3
  <2>7. JobOK(i)'
    BY <1>1, <1>3, <1>4, <1>5, <1>6, <2>3, <2>4, <2>5, <2>6 DEF JobOK
  <2> QED
    BY <1>1, <2>1, <2>3, <2>7, CallsOver, ExecutorInv, JobTypes
<1> QED
  BY <1>7, <1>8

\* The backend adds or settles the item of a job.
LEMMA HandleInv ==
  ASSUME IInv, NEW i \in ItemId, HandleAdd(i) \/ HandleAsk(i) \/ HandleLateCancel(i)
  PROVE  IInv'
<1> DEFINE added == [job[i] EXCEPT !.pc = "added"]
           told == [job[i] EXCEPT !.pc = "answered"]
<1>1. job[i] \in JobRecord /\ items \in [ItemId -> Status] /\ JobOK(i)
  BY JobTypes
<1>2. CASE HandleAdd(i)
  <2>1. /\ job[i].pc = "adding" /\ job' = [job EXCEPT ![i] = added]
        /\ items' = [items EXCEPT ![i] = "queued"]
        /\ UNCHANGED <<call, response, registry, lateCancel>>
    BY <1>2 DEF HandleAdd, AddQueueItem, JobGoTo
  <2>2. /\ added \in JobRecord /\ added.kind = job[i].kind
        /\ added.pc = "added" /\ added.attempt = job[i].attempt
    BY <1>1 DEF JobRecord
  <2>3. job'[i] = added /\ items'[i] = "queued"
    BY <2>1 DEF IInv, JobsTypeOK
  <2> HIDE DEF added
  <2>4. Expected(i)' = Unfinished
    BY <2>2, <2>3 DEF Expected
  <2>5. JobOK(i)'
    BY <1>1, <2>1, <2>2, <2>3, <2>4 DEF JobOK, Unfinished
  <2>6. items' \in [ItemId -> Status] /\ \A j \in ItemId : j # i => items'[j] = items[j]
    BY <1>1, <2>1 DEF Status, Unfinished
  <2> QED
    BY <2>1, <2>2, <2>5, <2>6, CallsOver, ExecutorInv
<1>3. CASE HandleAsk(i)
  <2>1. /\ job[i].pc = "asking" /\ job' = [job EXCEPT ![i] = told]
        /\ items' = Settled(i, job[i].ask)
        /\ UNCHANGED <<call, response, registry, lateCancel>>
    BY <1>3 DEF HandleAsk, SettleItem, JobGoTo
  <2>2. /\ told \in JobRecord /\ told.kind = job[i].kind /\ told.aborted = job[i].aborted
        /\ told.pc = "answered" /\ told.attempt = job[i].attempt /\ told.ask = job[i].ask
        /\ job[i].ask \in {"skipped", "failed", "cancelled"}
    BY <1>1 DEF JobRecord
  <2>3. job'[i] = told
    BY <2>1 DEF IInv, JobsTypeOK
  <2> HIDE DEF told
  <2>4. /\ items' \in [ItemId -> Status] /\ \A j \in ItemId : j # i => items'[j] = items[j]
        /\ items'[i] = IF items[i] \in Unfinished THEN job[i].ask ELSE items[i]
    BY <1>1, <2>1, <2>2 DEF Settled, Status, Terminal
  <2>5. Expected(i) = Unfinished \cup {s \in {"cancelled"} : job[i].aborted /\ job[i].ask # "cancelled"}
    BY <2>1 DEF Expected
  <2>6. Expected(i)' = {job[i].ask} \cup {s \in {"cancelled"} : job[i].aborted}
    BY <2>2, <2>3 DEF Expected
  <2>7. items'[i] \in Expected(i)' \cup {"absent"}
    BY <1>1, <2>4, <2>5, <2>6 DEF JobOK
  <2>8. JobOK(i)'
    BY <1>1, <2>1, <2>2, <2>3, <2>7 DEF JobOK
  <2> QED
    BY <2>1, <2>2, <2>4, <2>8, CallsOver, ExecutorInv
<1>4. CASE HandleLateCancel(i)
  <2>1. /\ i \in lateCancel /\ lateCancel' = lateCancel \ {i}
        /\ items' = Settled(i, "cancelled")
        /\ UNCHANGED <<job, call, response, registry>>
    BY <1>4 DEF HandleLateCancel, SettleItem
  <2>2. /\ items' \in [ItemId -> Status] /\ \A j \in ItemId : j # i => items'[j] = items[j]
        /\ items'[i] = IF items[i] \in Unfinished THEN "cancelled" ELSE items[i]
    BY <1>1, <2>1 DEF Settled, Status, Terminal
  <2>3. /\ job[i].pc \in {"asking", "answered", "cancelWait"}
        /\ job[i].aborted /\ job[i].ask # "cancelled"
    BY <1>1, <2>1 DEF JobOK
  <2>4. items[i] \in Expected(i) \cup {"absent"} /\ Expected(i)' = Expected(i)
    BY <1>1, <2>1, <2>3 DEF JobOK, Expected
  <2>5. "cancelled" \in Expected(i)
    BY <2>3 DEF Expected, Terminal
  <2>6. JobOK(i)'
    BY <1>1, <2>1, <2>2, <2>3, <2>4, <2>5 DEF JobOK
  <2>7. job' = [job EXCEPT ![i] = job[i]]
    BY <2>1 DEF IInv, JobsTypeOK
  <2> QED
    BY <1>1, <2>1, <2>2, <2>3, <2>6, <2>7, CallsOver, ExecutorInv
<1> QED
  BY <1>2, <1>3, <1>4

\* A stop aborts jobs, and widens what is expected of their items.
LEMMA AbortInv ==
  ASSUME IInv, NEW stopped, Abort(stopped),
         UNCHANGED <<items, call, response, registry>>
  PROVE  IInv'
<1> DEFINE hit == {i \in Executing : QueueOf[i] \in stopped /\ ~job[i].aborted}
<1>1. /\ job' = [i \in ItemId |-> IF i \in hit THEN [job[i] EXCEPT !.aborted = TRUE] ELSE job[i]]
      /\ lateCancel' = lateCancel \cup
           {i \in hit : job[i].pc \in {"asking", "answered"} /\ job[i].ask # "cancelled"}
  BY DEF Abort
<1>2. \A i \in ItemId : /\ job'[i] \in JobRecord /\ job'[i].pc = job[i].pc
                        /\ job'[i].kind = job[i].kind /\ job'[i].attempt = job[i].attempt
                        /\ job'[i].ask = job[i].ask /\ job'[i].outcome = job[i].outcome
                        /\ job[i].aborted => job'[i].aborted
                        /\ i \in hit => job'[i].aborted
                        /\ job[i].pc = "done" => job'[i] = job[i]
  BY <1>1, JobTypes DEF JobRecord, Executing
<1>3. hit \subseteq ItemId
  BY DEF Executing
<1> HIDE DEF hit
<1>4. JobsTypeOK'
  BY <1>1, <1>2, <1>3 DEF IInv, JobsTypeOK
<1>5. \A i \in ItemId : JobOK(i)'
  <2> SUFFICES ASSUME NEW i \in ItemId PROVE JobOK(i)'
    OBVIOUS
  <2>1. Expected(i) \subseteq Expected(i)'
    <3>1. Listed(i, response[<<i, 1>>])' = Listed(i, response[<<i, 1>>])
      BY <1>2 DEF Listed
    <3>2. job[i].pc = "done" => Agreeing(i)' = Agreeing(i)
      BY <1>2 DEF Agreeing, Row
    <3> QED
      BY <1>2, <3>1, <3>2, JobTypes DEF Expected, JobRecord
  <2> QED
    BY <1>1, <1>2, <2>1, JobTypes DEF JobOK
<1>6. \A i \in ItemId, n \in {1, 2} : CallOK(i, n)'
  <2> SUFFICES ASSUME NEW i \in ItemId, NEW n \in {1, 2} PROVE CallOK(i, n)'
    OBVIOUS
  <2>1. CallOK(i, n)
    BY DEF IInv
  <2> QED
    BY <1>2, <2>1 DEF CallOK
<1> QED
  BY <1>4, <1>5, <1>6 DEF IInv

-----------------------------------------------------------------------------
\* What a step of the goroutine of a call may do: it goes on as k, with answer
\* a, and settles at most its own item.
Handles(i, n, k, a) ==
  /\ call[<<i, n>>].pc \notin {"idle", "left"}
  /\ call' = [call EXCEPT ![<<i, n>>] = k] /\ k \in CallRecord
  /\ k.pc # "idle"
  /\ k.pc # "left" => k.item = i /\ k.kind = job[i].kind
  /\ k.pc = "returned" /\ k.kind = "youtube" => k.result \notin {"exists", "empty"}
  /\ k.pc = "passed" =>
       k.kind = "track" /\ k.result \in {"file", "suspicious", "exists"}
  /\ response' = [response EXCEPT ![<<i, n>>] = a] /\ a \in Answers
  /\ a # "none" <=> k.pc \in {"recording", "leaving", "unregistering", "left"}
  /\ items' \in [ItemId -> Status] /\ \A j \in ItemId : j # i => items'[j] = items[j]
  /\ items'[i] \in (IF n = 1 THEN Listed(i, a) ELSE {"failed"}) \cup {"absent"}
  /\ registry' \in [ItemId -> Call \cup {None}]
  /\ UNCHANGED <<job, lateCancel>>

\* A step of the backend within one call keeps the invariant.
LEMMA HandlesInv ==
  ASSUME IInv, NEW i \in ItemId, NEW n \in {1, 2}, NEW k, NEW a, Handles(i, n, k, a)
  PROVE  IInv'
<1> USE DEF Handles
<1>1. CallOK(i, n) /\ <<i, n>> \in Call
  BY JobTypes DEF IInv
<1>2. job[i].pc = "calling" /\ job[i].attempt = n
  BY <1>1 DEF CallOK
<1>3. /\ call'[<<i, n>>] = k /\ response'[<<i, n>>] = a
      /\ \A j \in ItemId, m \in {1, 2} : <<j, m>> # <<i, n>> =>
           call'[<<j, m>>] = call[<<j, m>>] /\ response'[<<j, m>>] = response[<<j, m>>]
  BY <1>1, CallsAssumption DEF IInv, JobsTypeOK
<1>4. JobsTypeOK'
  BY <1>1 DEF IInv, JobsTypeOK
<1>5. JobOK(i)'
  <2>1. i \notin lateCancel
    BY <1>2, JobTypes DEF JobOK
  <2>2. n = 1 => Expected(i)' = Listed(i, a)
    BY <1>2, <1>3 DEF Expected, Listed
  <2>3. n = 2 => Expected(i)' = {"failed"}
    BY <1>2 DEF Expected
  <2> QED
    BY <1>2, <2>1, <2>2, <2>3 DEF JobOK
<1>6. \A m \in {1, 2} : CallOK(i, m)'
  <2> SUFFICES ASSUME NEW m \in {1, 2} PROVE CallOK(i, m)'
    OBVIOUS
  <2>1. CallOK(i, m)
    BY DEF IInv
  <2>2. CASE m = n
    BY <1>2, <1>3, <2>2 DEF CallOK
  <2>3. CASE m # n
    BY <1>3, <2>1, <2>3 DEF CallOK
  <2> QED
    BY <2>2, <2>3
<1> QED
  BY <1>3, <1>4, <1>5, <1>6, Others

\* Each step of a call's handler is such a step.
LEMMA HandleCallMoves ==
  ASSUME IInv, NEW i \in ItemId, NEW n \in {1, 2},
         HandleCall(<<i, n>>) \/ \E result \in Results : Return(<<i, n>>, result) /\ UNCHANGED frontVars
  PROVE  \E k, a : Handles(i, n, k, a)
<1> DEFINE c == <<i, n>>
           To(p) == [call[c] EXCEPT !.pc = p]
           left == [call[c] EXCEPT !.pc = "leaving", !.result = "error"]
<1>1. /\ c \in Call /\ call[c] \in CallRecord /\ call \in [Call -> CallRecord]
      /\ response \in [Call -> Answers] /\ items \in [ItemId -> Status]
      /\ registry \in [ItemId -> Call \cup {None}] /\ CallOK(i, n)
  BY JobTypes DEF IInv, JobsTypeOK
<1>2. ASSUME call[c].pc \notin {"idle", "left"}
      PROVE  /\ job[i].pc = "calling" /\ job[i].attempt = n
             /\ call[c].item = i /\ call[c].kind = job[i].kind
             /\ items[i] \in (IF n = 1 THEN Listed(i, response[c]) ELSE {"failed"}) \cup {"absent"}
  <2>1. /\ job[i].pc = "calling" /\ job[i].attempt = n
        /\ call[c].item = i /\ call[c].kind = job[i].kind
    BY <1>1, <1>2 DEF CallOK
  <2>2. Expected(i) = IF n = 1 THEN Listed(i, response[c]) ELSE {"failed"}
    BY <2>1 DEF Expected
  <2> QED
    BY <2>1, <2>2, JobTypes DEF JobOK
<1>3. \A p \in {"replacing"} \cup Begun : To(p) \in CallRecord /\ To(p).pc = p
        /\ To(p).item = call[c].item /\ To(p).kind = call[c].kind /\ To(p).result = call[c].result
  BY <1>1 DEF CallRecord, Begun
<1>4. left \in CallRecord /\ left.pc = "leaving" /\ left.item = call[c].item /\ left.kind = call[c].kind
  BY <1>1 DEF CallRecord, Begun, Result
<1>5. response = [response EXCEPT ![c] = response[c]] /\ response[c] \in Answers
  BY <1>1
<1> DEFINE Fits(x, y) ==
             \/ x \in Terminal \cap Listed(i, y)
             \/ x \in Unfinished /\ y = "none"
           Listing(y) ==
             /\ items' \in [ItemId -> Status] /\ \A j \in ItemId : j # i => items'[j] = items[j]
             /\ items'[i] \in (IF n = 1 THEN Listed(i, y) ELSE {"failed"}) \cup {"absent"}
<1>6. \A s, a : /\ call[c].pc \notin {"idle", "left"} /\ response[c] = "none"
                /\ items' = Settled(i, s) /\ Fits(s, a)
                => Listing(a)
  <2> SUFFICES ASSUME NEW s, NEW a, call[c].pc \notin {"idle", "left"}, response[c] = "none",
                      items' = Settled(i, s), Fits(s, a)
               PROVE  Listing(a)
    OBVIOUS
  <2>1. items[i] \in (IF n = 1 THEN Unfinished ELSE {"failed"}) \cup {"absent"}
    BY <1>2 DEF Listed
  <2>2. Unfinished \cap Terminal = {} /\ Unfinished \cap {"absent", "failed"} = {}
    BY DEF Unfinished, Terminal
  <2>3. a = "none" => Listed(i, a) = Unfinished
    BY DEF Listed
  <2>4. items' = IF items[i] \in Unfinished THEN [items EXCEPT ![i] = s] ELSE items
    BY DEF Settled
  <2> QED
    BY <1>1, <2>1, <2>2, <2>3, <2>4 DEF Status
<1> HIDE DEF Fits, Listing
<1>7. CASE Begin(c) /\ UNCHANGED <<response, job, lateCancel>>
  <2> DEFINE previous == registry[call[c].item]
             k == [call[c] EXCEPT !.pc = IF previous = None THEN "begun" ELSE "replacing",
                                  !.previous = previous, !.tracked = TRUE]
  <2>1. /\ call[c].pc = "arrived" /\ call' = [call EXCEPT ![c] = k]
        /\ registry' = [registry EXCEPT ![call[c].item] = c] /\ items' = items
    BY <1>7 DEF Begin
  <2>2. previous \in Call \cup {None}
    BY <1>1, <1>2, <2>1
  <2>3. /\ k \in CallRecord /\ k.pc \in {"begun", "replacing"}
        /\ k.item = call[c].item /\ k.kind = call[c].kind
    BY <1>1, <2>2 DEF CallRecord, Begun
  <2> HIDE DEF k
  <2>4. Handles(i, n, k, response[c])
    BY <1>1, <1>2, <1>5, <1>7, <2>1, <2>3 DEF Handles, CallOK
  <2> QED
    BY <2>4
<1>8. CASE StartDownloadItem(c) /\ UNCHANGED <<response, job, lateCancel>>
  <2>1. /\ call[c].pc = "begun" /\ call' = [call EXCEPT ![c] = To("running")]
        /\ items' = Settled(i, "downloading") /\ registry' = registry /\ response[c] = "none"
    BY <1>1, <1>2, <1>8 DEF StartDownloadItem, GoTo, CallOK
  <2>2. Listing("none")
    <3>1. Fits("downloading", "none")
      BY DEF Fits, Unfinished
    <3> QED
      BY <1>6, <2>1, <3>1
  <2>3. "running" \in Begun
    BY DEF Begun
  <2> HIDE DEF To
  <2>4. Handles(i, n, To("running"), "none")
    BY <1>1, <1>2, <1>3, <1>5, <1>8, <2>1, <2>2, <2>3 DEF Handles, Listing
  <2> QED
    BY <2>4
<1>9. CASE AddHistoryItemAsync(c) /\ UNCHANGED <<response, job, lateCancel>>
  <2>1. call[c].pc = "recording" /\ call' = [call EXCEPT ![c] = left]
        /\ items' = items /\ registry' = registry /\ response[c] # "none"
    BY <1>1, <1>9 DEF AddHistoryItemAsync, Leave, CallOK
  <2> HIDE DEF left
  <2>2. Handles(i, n, left, response[c])
    BY <1>1, <1>2, <1>4, <1>5, <1>9, <2>1 DEF Handles
  <2> QED
    BY <2>2
<1>10. CASE CancelOwn(c) /\ call[c].tracked /\ UNCHANGED <<response, job, lateCancel>>
  <2>1. call[c].pc = "leaving" /\ call' = [call EXCEPT ![c] = To("unregistering")]
        /\ items' = items /\ registry' = registry /\ response[c] # "none"
    BY <1>1, <1>10 DEF CancelOwn, GoTo, CallOK
  <2>2. "unregistering" \in Begun
    BY DEF Begun
  <2> HIDE DEF To
  <2>3. Handles(i, n, To("unregistering"), response[c])
    BY <1>1, <1>2, <1>3, <1>5, <1>10, <2>1, <2>2 DEF Handles
  <2> QED
    BY <2>3
<1>11. CASE /\ \/ CancelOwn(c) /\ ~call[c].tracked
               \/ Unregister(c)
            /\ UNCHANGED <<response, job, lateCancel>>
  <2> DEFINE k == [NoCall EXCEPT !.pc = "left"]
  <2>1. call[c].pc \in {"leaving", "unregistering"} /\ call' = [call EXCEPT ![c] = k]
        /\ items' = items /\ response[c] # "none"
    BY <1>1, <1>11 DEF CancelOwn, Unregister, End, CallOK
  <2>2. registry' \in [ItemId -> Call \cup {None}]
    BY <1>1, <1>11 DEF CancelOwn, Unregister
  <2>3. k \in CallRecord /\ k.pc = "left"
    BY DEF CallRecord, NoCall, Kind, Result
  <2> HIDE DEF k
  <2>4. Handles(i, n, k, response[c])
    BY <1>1, <1>2, <1>5, <1>11, <2>1, <2>2, <2>3 DEF Handles
  <2> QED
    BY <2>4
<1>12. CASE SettleResult(c) /\ Answer(c, call[c].result) /\ UNCHANGED <<job, lateCancel>>
  <2> DEFINE a == call[c].result
             s == CASE a = "canceled" -> "cancelled"
                    [] a = "file" -> "completed"
                    [] OTHER -> "failed"
  <2>1. /\ call[c].pc = "returned" /\ call' = [call EXCEPT ![c] = left]
        /\ call[c].kind = "youtube" \/ a \in {"error", "canceled"}
        /\ items' = Settled(i, s) /\ registry' = registry /\ response[c] = "none"
        /\ response' = [response EXCEPT ![c] = a]
    BY <1>1, <1>2, <1>12 DEF SettleResult, Leave, Answer, CallOK
  <2>2. a \in {"file", "suspicious", "error", "canceled"}
    BY <1>1, <2>1 DEF CallRecord, Result, CallOK
  <2>3. s \in Terminal \cap Listed(i, a)
    BY <1>2, <2>1, <2>2 DEF Listed, Terminal
  <2> HIDE DEF a, s, left
  <2>4. Listing(a)
    <3>1. Fits(s, a)
      BY <2>3 DEF Fits
    <3>2. call[c].pc \notin {"idle", "left"}
      BY <2>1
    <3> QED
      BY <1>6, <2>1, <3>1, <3>2
  <2>5. Handles(i, n, left, a)
    BY <1>1, <1>2, <1>4, <1>12, <2>1, <2>2, <2>4 DEF Handles, Answers, Listing
  <2> QED
    BY <2>5
<1>13. CASE /\ CheckContext(c) /\ UNCHANGED <<job, lateCancel>>
            /\ Answer(c, IF c \in cancelled THEN "canceled"
                         ELSE IF call[c].result = "empty" THEN "error" ELSE "none")
  <2>1. /\ call[c].pc = "returned" /\ call[c].kind = "track"
        /\ call[c].result \in {"file", "suspicious", "exists", "empty"}
        /\ registry' = registry /\ response[c] = "none"
    BY <1>1, <1>13 DEF CheckContext, CallOK, CallRecord, Result
  <2>2. ASSUME NEW s, NEW a, items' = Settled(i, s), Leave(c), Answer(c, a),
               \/ s = "cancelled" /\ a = "canceled"
               \/ s = "failed" /\ a = "error"
        PROVE  Handles(i, n, left, a)
    <3>1. s \in Terminal \cap Listed(i, a) /\ a \in Answers \ {"none"}
      BY <2>2 DEF Terminal, Listed, Answers
    <3>2. Listing(a)
      <4>1. Fits(s, a)
        BY <3>1 DEF Fits
      <4>2. call[c].pc \notin {"idle", "left"}
        BY <2>1
      <4> QED
        BY <1>6, <2>1, <2>2, <4>1, <4>2
    <3>3. call' = [call EXCEPT ![c] = left] /\ response' = [response EXCEPT ![c] = a]
      BY <2>2 DEF Leave, Answer
    <3> HIDE DEF left
    <3> QED
      BY <1>1, <1>2, <1>4, <1>13, <2>1, <3>1, <3>2, <3>3 DEF Handles, Listing
  <2>3. CASE c \in cancelled
    <3>1. items' = Settled(i, "cancelled") /\ Leave(c) /\ Answer(c, "canceled")
      BY <1>2, <1>13, <2>3 DEF CheckContext
    <3>2. Handles(i, n, left, "canceled")
      BY <2>2, <3>1
    <3> QED
      BY <3>2
  <2>4. CASE c \notin cancelled /\ call[c].result = "empty"
    <3>1. items' = Settled(i, "failed") /\ Leave(c) /\ Answer(c, "error")
      BY <1>2, <1>13, <2>4 DEF CheckContext
    <3>2. Handles(i, n, left, "error")
      BY <2>2, <3>1
    <3> QED
      BY <3>2
  <2>5. CASE c \notin cancelled /\ call[c].result # "empty"
    <3>1. call' = [call EXCEPT ![c] = To("passed")] /\ items' = items
          /\ response' = [response EXCEPT ![c] = "none"]
      BY <1>13, <2>5 DEF CheckContext, GoTo, Answer
    <3>2. "passed" \in Begun
      BY DEF Begun
    <3> HIDE DEF To
    <3>3. Handles(i, n, To("passed"), "none")
      BY <1>1, <1>2, <1>3, <1>13, <2>1, <2>5, <3>1, <3>2 DEF Handles, Answers
    <3> QED
      BY <3>3
  <2> QED
    BY <2>3, <2>4, <2>5
<1>14. CASE \E moved \in BOOLEAN :
              /\ Report(c, moved) /\ UNCHANGED <<job, lateCancel>>
              /\ Answer(c, IF moved THEN call[c].result ELSE "error")
  <2>1. PICK moved \in BOOLEAN :
              /\ Report(c, moved) /\ UNCHANGED <<job, lateCancel>>
              /\ Answer(c, IF moved THEN call[c].result ELSE "error")
    BY <1>14
  <2> DEFINE a == IF moved THEN call[c].result ELSE "error"
             s == CASE ~moved -> "failed"
                    [] moved /\ call[c].result = "exists" -> "skipped"
                    [] OTHER -> "completed"
             k == IF moved /\ call[c].result # "exists" THEN To("recording") ELSE left
  <2>2. /\ call[c].pc = "passed" /\ call[c].result \in {"file", "suspicious", "exists"}
        /\ registry' = registry /\ response[c] = "none" /\ items' = Settled(i, s)
        /\ response' = [response EXCEPT ![c] = a]
    BY <1>1, <1>2, <2>1 DEF Report, CallOK, Answer
  <2>3. call' = [call EXCEPT ![c] = k]
    BY <2>1 DEF Report, GoTo, Leave
  <2>4. call[c].kind = "track"
    BY <1>1, <2>2 DEF CallOK
  <2>5. a \in {"file", "suspicious", "exists", "error"} /\ s \in Terminal \cap Listed(i, a)
    BY <1>2, <2>2, <2>4 DEF Terminal, Listed
  <2>6. "recording" \in Begun
    BY DEF Begun
  <2>7. /\ k \in CallRecord /\ k.pc \in {"recording", "leaving"}
        /\ k.item = i /\ k.kind = job[i].kind
    BY <1>2, <1>3, <1>4, <2>2, <2>6
  <2> HIDE DEF a, s, k
  <2>8. Listing(a)
    <3>1. Fits(s, a)
      BY <2>5 DEF Fits
    <3>2. call[c].pc \notin {"idle", "left"}
      BY <2>2
    <3> QED
      BY <1>6, <2>2, <3>1, <3>2
  <2>9. Handles(i, n, k, a)
    BY <1>1, <1>2, <2>1, <2>2, <2>3, <2>5, <2>7, <2>8 DEF Handles, Answers, Listing
  <2> QED
    BY <2>9
<1>15. CASE \E result \in Results : Return(c, result) /\ UNCHANGED frontVars
  <2>1. PICK result \in Results : Return(c, result) /\ UNCHANGED <<job, response, lateCancel>>
    BY <1>15 DEF frontVars, jobVars
  <2> DEFINE k == [call[c] EXCEPT !.pc = "returned", !.result = result]
  <2>2. /\ call[c].pc = "running" /\ call' = [call EXCEPT ![c] = k]
        /\ items' = items /\ registry' = registry /\ response[c] = "none"
        /\ call[c].kind = "youtube" => result \notin {"exists", "empty"}
    BY <1>1, <2>1 DEF Return, CallOK
  <2>3. /\ k \in CallRecord /\ k.pc = "returned" /\ k.item = call[c].item
        /\ k.kind = call[c].kind /\ k.result = result
    BY <1>1, ResultsAssumption DEF CallRecord, Begun
  <2> HIDE DEF k
  <2>4. Handles(i, n, k, response[c])
    BY <1>1, <1>2, <1>5, <2>1, <2>2, <2>3 DEF Handles
  <2> QED
    BY <2>4
<1> QED
  BY <1>7, <1>8, <1>9, <1>10, <1>11, <1>12, <1>13, <1>14, <1>15 DEF HandleCall

\* What forgets items, or touches none of a job's, a sweep or a history write.
LEMMA ListInv ==
  ASSUME IInv, UNCHANGED <<job, call, response, lateCancel>>,
         items' \in [ItemId -> Status],
         \A i \in ItemId : items'[i] = items[i] \/ items'[i] = "absent",
         registry' \in [ItemId -> Call \cup {None}]
  PROVE  IInv'
<1>1. JobsTypeOK'
  BY DEF IInv, JobsTypeOK
<1>2. ASSUME NEW i \in ItemId PROVE JobOK(i)'
  <2>1. Expected(i)' = Expected(i)
    BY DEF Expected, Listed, Agreeing, Row
  <2> QED
    BY <2>1, JobTypes DEF JobOK
<1>3. ASSUME NEW i \in ItemId, NEW n \in {1, 2} PROVE CallOK(i, n)'
  <2>1. CallOK(i, n)
    BY DEF IInv
  <2> QED
    BY <2>1 DEF CallOK
<1> QED
  BY <1>1, <1>2, <1>3 DEF IInv

\* The steps of the backend, of clearing the history and of sessions.
LEMMA BackendInv ==
  ASSUME IInv,
         \/ \E s \in Sweep : HandleSweep(s)
         \/ ClearHistory
         \/ SessionStep
         \/ \E c \in Call : HandleCall(c) \/ Work(c)
  PROVE  IInv'
<1> USE DEF frontVars, jobVars, backVars, vars
<1>1. items \in [ItemId -> Status] /\ registry \in [ItemId -> Call \cup {None}]
  BY DEF IInv, JobsTypeOK
<1>2. CASE \E s \in Sweep : HandleSweep(s)
  <2> PICK s \in Sweep : HandleSweep(s)
    BY <1>2
  <2>1. UNCHANGED <<job, call, response, lateCancel>>
    BY DEF HandleSweep, SweepStep, Collect, CancelOne, Swept, ClearAllDownloads,
           CloseHistoryDB
  <2>2. items' = items \/ items' = [i \in ItemId |-> "absent"]
    BY DEF HandleSweep, SweepStep, Collect, CancelOne, Swept, ClearAllDownloads,
           CloseHistoryDB
  <2>3. registry' \in [ItemId -> Call \cup {None}]
    BY <1>1 DEF HandleSweep, SweepStep, Collect, CancelOne, Swept, ClearAllDownloads,
                CloseHistoryDB
  <2> QED
    BY <1>1, <2>1, <2>2, <2>3, ListInv DEF Status
<1>3. CASE ClearHistory
  BY <1>1, <1>3, ListInv DEF ClearHistory, ClearDownloadQueue, Status
<1>4. CASE SessionStep
  <2>1. UNCHANGED <<items, job, call, response, lateCancel, registry>>
    BY <1>4 DEF SessionStep, CancelActive, WaitForIdle, Stopped, Reset, StartSweep
  <2> QED
    BY <1>1, <2>1, ListInv
<1>5. CASE \E c \in Call : HandleCall(c) \/ Work(c)
  <2> PICK c \in Call : HandleCall(c) \/ Work(c)
    BY <1>5
  <2>1. PICK i \in ItemId, n \in {1, 2} : c = <<i, n>>
    BY CallsAssumption
  <2>2. CASE WriteHistory(c) /\ UNCHANGED frontVars
    BY <1>1, <2>2, ListInv DEF WriteHistory
  <2>3. CASE \/ HandleCall(c)
             \/ \E result \in Results : Return(c, result) /\ UNCHANGED frontVars
    BY <2>1, <2>3, HandleCallMoves, HandlesInv
  <2> QED
    BY <2>2, <2>3 DEF Work
<1> QED
  BY <1>2, <1>3, <1>4, <1>5

\* Every step keeps the invariant.
LEMMA NextInv == IInv /\ [JobNext]_allVars => IInv'
<1> SUFFICES ASSUME IInv, [JobNext]_allVars PROVE IInv'
  OBVIOUS
<1>1. ASSUME NEW i \in ItemId, Execute(i) \/ JobStep(i) \/ HandleLateCancel(i)
      PROVE  IInv'
  BY <1>1, ContinueInv, CallAnsweredInv, HandleInv DEF JobStep
<1>2. CASE \E q \in Queue, s \in Sweep : StopQueue(q, s)
  BY <1>2, AbortInv DEF StopQueue, StartSweep
<1>3. CASE \E reset \in BOOLEAN : StopAllQueues(reset)
  BY <1>3, AbortInv DEF StopAllQueues
<1>4. CASE UNCHANGED allVars
  <2>1. UNCHANGED <<items, job, call, response, lateCancel, registry>>
    BY <1>4 DEF allVars, backVars, vars, frontVars, jobVars
  <2> QED
    BY <2>1, ListInv DEF IInv, JobsTypeOK
<1> QED
  BY <1>1, <1>2, <1>3, <1>4, BackendInv DEF JobNext

\* The invariant holds throughout.
THEOREM Invariant == JobSpec => []IInv
  BY InitInv, NextInv, PTL DEF JobSpec

\* Every variable that tells how a job and its calls are doing keeps its type.
THEOREM TypeCorrect == JobSpec => []JobsTypeOK
  BY Invariant, PTL DEF IInv

\* No settled job leaves a queued or downloading item in the backend's list.
THEOREM NoGhosts == JobSpec => []NoGhostItems
<1>1. ASSUME IInv PROVE NoGhostItems
  <2> SUFFICES ASSUME NEW i \in ItemId, job[i].pc = "done"
               PROVE  items[i] \notin Unfinished
    BY DEF NoGhostItems, IsDone
  <2>1. Expected(i) = IF job[i].attempt = 1 THEN Agreeing(i) ELSE {"failed"}
    BY DEF Expected
  <2>2. Agreeing(i) \subseteq Terminal /\ "failed" \in Terminal
    BY <1>1, JobTypes DEF Agreeing, Row, JobRecord, Terminal
  <2> QED
    BY <1>1, <2>1, <2>2, JobTypes DEF JobOK
<1> QED
  BY <1>1, Invariant, PTL

\* A job that was neither stopped nor retried ends as its item does, and no
\* stop hides a download that the list shows as completed, for any number of
\* jobs, calls and stops.
THEOREM Agreement == JobSpec => []OutcomesAgree
<1>1. ASSUME IInv PROVE OutcomesAgree
  <2> SUFFICES ASSUME NEW i \in ItemId, job[i].pc = "done"
               PROVE  /\ job[i].attempt = 1 /\ ~job[i].aborted
                           => items[i] \in {"absent", Row(i)}
                      /\ items[i] = "completed"
                           => job[i].outcome \in {"completed", "suspicious"}
    BY DEF OutcomesAgree, IsDone
  <2>1. Expected(i) = IF job[i].attempt = 1 THEN Agreeing(i) ELSE {"failed"}
    BY DEF Expected
  <2>2. items[i] \in Expected(i) \cup {"absent"}
    BY <1>1, JobTypes DEF JobOK
  <2>3. items[i] = "completed" => items[i] = Row(i)
    BY <2>1, <2>2 DEF Agreeing
  <2> QED
    BY <2>1, <2>2, <2>3 DEF Agreeing, Row
<1> QED
  BY <1>1, Invariant, PTL

\* Only an executor that has not been stopped sends a call.
LEMMA OnlyLiveJobsSend ==
  ASSUME IInv, [JobNext]_allVars, NEW i \in ItemId, NEW n \in {1, 2},
         call[<<i, n>>].pc = "idle", call'[<<i, n>>].pc # "idle"
  PROVE  ~job[i].aborted
<1> USE DEF frontVars, jobVars, backVars, vars
<1>1. call' # call
  OBVIOUS
<1>2. ASSUME NEW j \in ItemId, NEW m \in {1, 2}, Send(j, m), ~job[j].aborted
      PROVE  ~job[i].aborted
  <2>1. call' = [call EXCEPT ![<<j, m>>].pc = "arrived", ![<<j, m>>].item = j,
                             ![<<j, m>>].kind = job[j].kind]
    BY <1>2 DEF Send, Arrive
  <2>2. <<i, n>> \in Call /\ call \in [Call -> CallRecord]
    BY JobTypes DEF IInv, JobsTypeOK
  <2>3. <<i, n>> # <<j, m>> => call'[<<i, n>>] = call[<<i, n>>]
    BY <2>1, <2>2
  <2>4. i = j
    BY <2>3
  <2> QED
    BY <1>2, <2>4
<1>3. ASSUME NEW j \in ItemId, JobStep(j) PROVE ~job[i].aborted
  <2>1. HandleAdd(j) \/ HandleAsk(j) => call' = call
    BY DEF HandleAdd, HandleAsk, AddQueueItem, SettleItem
  <2>2. ASSUME NEW ok \in BOOLEAN,
               \/ AddAnswered(j) \/ UpdateAnswered(j, ok) \/ TokenAnswered(j, ok)
               \/ RefreshAnswered(j, ok) \/ AskAnswered(j) \/ CancelAnswered(j)
               \/ CallAnswered(j, ok)
        PROVE  call' = call \/ \E m \in {1, 2} : Send(j, m) /\ ~job[j].aborted
    BY <2>2 DEF AddAnswered, UpdateAnswered, TokenAnswered, RefreshAnswered,
                AskAnswered, CancelAnswered, CallAnswered
  <2>3. \/ HandleAdd(j) \/ HandleAsk(j)
        \/ \E ok \in BOOLEAN :
             \/ AddAnswered(j) \/ UpdateAnswered(j, ok) \/ TokenAnswered(j, ok)
             \/ RefreshAnswered(j, ok) \/ AskAnswered(j) \/ CancelAnswered(j)
             \/ CallAnswered(j, ok)
    BY <1>3 DEF JobStep
  <2> QED
    BY <1>1, <1>2, <2>1, <2>2, <2>3
<1>4. ASSUME NEW c \in Call, HandleCall(c) \/ Work(c) PROVE FALSE
  <2>1. PICK j \in ItemId, m \in {1, 2} : c = <<j, m>>
    BY CallsAssumption
  <2>2. CASE WriteHistory(c) /\ UNCHANGED frontVars
    BY <1>1, <2>2 DEF WriteHistory
  <2>3. CASE \/ HandleCall(c)
             \/ \E result \in Results : Return(c, result) /\ UNCHANGED frontVars
    <3>1. PICK k, a : Handles(j, m, k, a)
      BY <2>1, <2>3, HandleCallMoves
    <3>2. /\ call[<<j, m>>].pc # "idle" /\ call' = [call EXCEPT ![<<j, m>>] = k]
          /\ <<i, n>> \in Call /\ call \in [Call -> CallRecord]
      BY <3>1, JobTypes DEF Handles, IInv, JobsTypeOK
    <3> QED
      BY <3>2
  <2> QED
    BY <1>4, <2>2, <2>3 DEF Work
<1>5. ASSUME NEW s \in Sweep, HandleSweep(s) PROVE FALSE
  BY <1>1, <1>5 DEF HandleSweep, SweepStep, Collect, CancelOne, Swept,
                    ClearAllDownloads, CloseHistoryDB
<1>6. ASSUME NEW j \in ItemId, Execute(j) \/ HandleLateCancel(j) PROVE FALSE
  BY <1>1, <1>6 DEF Execute, HandleLateCancel, SettleItem
<1>7. ASSUME SessionStep \/ ClearHistory \/ UNCHANGED allVars PROVE FALSE
  BY <1>1, <1>7 DEF SessionStep, CancelActive, WaitForIdle, Stopped, Reset, StartSweep,
                    ClearHistory, ClearDownloadQueue, allVars
<1>8. ASSUME \/ \E q \in Queue, s \in Sweep : StopQueue(q, s)
             \/ \E reset \in BOOLEAN : StopAllQueues(reset)
      PROVE  FALSE
  BY <1>1, <1>8 DEF StopQueue, StopAllQueues, StartSweep
<1> QED
  BY <1>3, <1>4, <1>5, <1>6, <1>7, <1>8 DEF JobNext

\* A job that was stopped sends no further download.
THEOREM StopsAreHeeded == JobSpec => StoppedJobsSendNothing
<1> DEFINE Step == \A i \in ItemId, n \in {1, 2} :
                     call[<<i, n>>].pc = "idle" /\ call'[<<i, n>>].pc # "idle"
                       => ~job[i].aborted
<1>1. IInv /\ [JobNext]_allVars => [Step]_allVars
  BY OnlyLiveJobsSend
<1>2. JobSpec => [][Step]_allVars
  BY <1>1, Invariant, PTL DEF JobSpec
<1> QED
  BY <1>2 DEF StoppedJobsSendNothing

-----------------------------------------------------------------------------
(* A new session.                                                          *)

SessionShape ==
  /\ DOMAIN session = {"pc", "reset", "stops", "awaited"}
  /\ DOMAIN sweep = Sweep
  /\ \A s \in Sweep : DOMAIN sweep[s] = {"pc", "kind", "queue", "doomed"}

ListEmpty == \A i \in ItemId : items[i] = "absent"

\* ClearAllDownloads was called, and if it is over the list is empty.
Clears(s) ==
  /\ sweep[s].kind = "clear" /\ sweep[s].pc # "idle"
  /\ sweep[s].pc = "done" => ListEmpty

SessionOK ==
  /\ session.pc \in {"idle", "stopping", "cancelling", "waiting", "clearing", "fresh"}
  /\ session.pc = "waiting" /\ session.reset => Executing \subseteq session.awaited
  /\ session.pc \in {"clearing", "fresh"} => session.reset /\ Executing = {}
  /\ session.pc = "clearing" => \E s \in Sweep : session.stops = {s} /\ Clears(s)
  /\ session.pc = "fresh" => ListEmpty

\* What is no step of the session leaves it alone, but for a job that starts.
LEMMA SessionStays ==
  ASSUME [JobNext]_allVars,
         ~\E i \in ItemId : Execute(i), ~\E reset \in BOOLEAN : StopAllQueues(reset),
         ~SessionStep
  PROVE  session' = session
<1> USE DEF frontVars, jobVars, stopVars, backVars, vars
<1>1. ASSUME NEW i \in ItemId, JobStep(i) PROVE session' = session
  BY <1>1 DEF JobStep, HandleAdd, AddAnswered, UpdateAnswered, TokenAnswered,
              RefreshAnswered, HandleAsk, AskAnswered, CancelAnswered, CallAnswered
<1>2. ASSUME NEW i \in ItemId, HandleLateCancel(i) PROVE session' = session
  BY <1>2 DEF HandleLateCancel
<1>3. ASSUME NEW c \in Call, HandleCall(c) \/ Work(c) PROVE session' = session
  BY <1>3 DEF HandleCall, Work
<1>4. ASSUME NEW q \in Queue, NEW s \in Sweep, StopQueue(q, s) PROVE session' = session
  BY <1>4 DEF StopQueue
<1>5. ASSUME (\E s \in Sweep : HandleSweep(s)) \/ ClearHistory \/ UNCHANGED allVars
      PROVE  session' = session
  BY <1>5 DEF HandleSweep, ClearHistory, allVars
<1> QED
  BY <1>1, <1>2, <1>3, <1>4, <1>5 DEF JobNext

\* Nothing but Execute lets a job execute.
LEMMA NoneStarts ==
  ASSUME IInv, [JobNext]_allVars, ~\E i \in ItemId : Execute(i)
  PROVE  Executing' \subseteq Executing
<1> USE DEF frontVars, jobVars, stopVars, backVars, vars
<1>1. ASSUME NEW i \in ItemId, JobStep(i) PROVE Executing' \subseteq Executing
  <2>1. i \in Executing
    BY <1>1 DEF JobStep, HandleAdd, AddAnswered, UpdateAnswered, TokenAnswered,
                RefreshAnswered, HandleAsk, AskAnswered, CancelAnswered, CallAnswered,
                Executing
  <2>2. \A j \in ItemId : j # i => job'[j] = job[j]
    <3> DEFINE OthersStay == \A j \in ItemId : j # i => job'[j] = job[j]
    <3>1. ASSUME NEW p, JobGoTo(i, p) PROVE OthersStay
      BY <3>1 DEF JobGoTo, IInv, JobsTypeOK
    <3>2. ASSUME NEW what, JobAsk(i, what) PROVE OthersStay
      <4> DEFINE r == [job[i] EXCEPT !.pc = "asking", !.ask = what]
      <4>1. job' = [job EXCEPT ![i] = r]
        BY <3>2, JobTypes DEF JobAsk, JobRecord
      <4> QED
        BY <4>1 DEF IInv, JobsTypeOK
    <3>3. ASSUME NEW outcome, JobDone(i, outcome) PROVE OthersStay
      BY <3>3 DEF JobDone, IInv, JobsTypeOK
    <3>4. ASSUME NEW n, Send(i, n) PROVE OthersStay
      <4> DEFINE r == [job[i] EXCEPT !.pc = "calling", !.attempt = n]
      <4>1. job' = [job EXCEPT ![i] = r]
        BY <3>4, JobTypes DEF Send, JobRecord
      <4> QED
        BY <4>1 DEF IInv, JobsTypeOK
    <3> HIDE DEF OthersStay
    <3>5. ASSUME HandleAdd(i) \/ HandleAsk(i) \/ AskAnswered(i) \/ CancelAnswered(i)
          PROVE  OthersStay
      BY <3>1, <3>3, <3>5 DEF HandleAdd, HandleAsk, AskAnswered, CancelAnswered
    <3>6. ASSUME AddAnswered(i) PROVE OthersStay
      BY <3>1, <3>2, <3>4, <3>6 DEF AddAnswered
    <3>7. ASSUME NEW ok \in BOOLEAN, \/ UpdateAnswered(i, ok) \/ TokenAnswered(i, ok)
                                     \/ RefreshAnswered(i, ok) \/ CallAnswered(i, ok)
          PROVE  OthersStay
      <4>1. CASE UpdateAnswered(i, ok)
        BY <3>2, <4>1 DEF UpdateAnswered
      <4>2. CASE TokenAnswered(i, ok)
        BY <3>2, <3>4, <4>2 DEF TokenAnswered
      <4>3. CASE RefreshAnswered(i, ok)
        BY <3>3, <3>4, <4>3 DEF RefreshAnswered
      <4>4. CASE CallAnswered(i, ok)
        <5> DEFINE o == OutcomeOf(i)
        <5>1. JobGoTo(i, "refreshing") \/ JobDone(i, o)
          BY <4>4 DEF CallAnswered
        <5> HIDE DEF o
        <5> QED
          BY <3>1, <3>3, <5>1
      <4> QED
        BY <3>7, <4>1, <4>2, <4>3, <4>4
    <3>8. OthersStay
      BY <1>1, <3>5, <3>6, <3>7 DEF JobStep
    <3> QED
      BY <3>8 DEF OthersStay
  <2> QED
    BY <2>1, <2>2 DEF Executing
<1>2. ASSUME NEW stopped, Abort(stopped) PROVE Executing' \subseteq Executing
  <2>1. \A j \in ItemId : job'[j].pc = job[j].pc
    BY <1>2 DEF Abort, IInv, JobsTypeOK, JobRecord
  <2> QED
    BY <2>1 DEF Executing
<1>3. ASSUME \/ \E q \in Queue, s \in Sweep : StopQueue(q, s)
             \/ \E reset \in BOOLEAN : StopAllQueues(reset)
      PROVE  Executing' \subseteq Executing
  BY <1>2, <1>3 DEF StopQueue, StopAllQueues
<1>4. ASSUME job' = job PROVE Executing' \subseteq Executing
  BY <1>4 DEF Executing
<1>5. ASSUME NEW c \in Call, HandleCall(c) \/ Work(c) PROVE job' = job
  BY <1>5 DEF HandleCall, Work
<1>6. ASSUME NEW i \in ItemId, HandleLateCancel(i) PROVE job' = job
  BY <1>6 DEF HandleLateCancel
<1>7. ASSUME \/ SessionStep \/ \E s \in Sweep : HandleSweep(s)
             \/ ClearHistory \/ UNCHANGED allVars
      PROVE  job' = job
  BY <1>7 DEF SessionStep, CancelActive, Stopped, WaitForIdle, Reset, HandleSweep,
              ClearHistory, allVars
<1> QED
  BY <1>1, <1>3, <1>4, <1>5, <1>6, <1>7 DEF JobNext

\* An item is only added by a job that executes.
LEMMA StaysEmpty ==
  ASSUME IInv, [JobNext]_allVars, ListEmpty, Executing = {}
  PROVE  ListEmpty'
<1> USE DEF frontVars, jobVars, stopVars, backVars, vars
<1>1. ASSUME NEW i, NEW status PROVE Settled(i, status) = items
  <2>1. CASE i \in ItemId
    BY <2>1 DEF ListEmpty, Settled, Unfinished
  <2>2. CASE i \notin ItemId
    <3>1. \A x : [items EXCEPT ![i] = x] = items
      BY <2>2 DEF IInv, JobsTypeOK
    <3> QED
      BY <3>1 DEF Settled
  <2> QED
    BY <2>1, <2>2
<1>2. ASSUME items' = items PROVE ListEmpty'
  BY <1>2 DEF ListEmpty
<1>3. ASSUME NEW i \in ItemId, JobStep(i) PROVE FALSE
  BY <1>3 DEF JobStep, HandleAdd, AddAnswered, UpdateAnswered, TokenAnswered,
              RefreshAnswered, HandleAsk, AskAnswered, CancelAnswered, CallAnswered,
              Executing
<1>4. ASSUME NEW i \in ItemId, Execute(i) \/ HandleLateCancel(i) PROVE items' = items
  BY <1>1, <1>4 DEF Execute, HandleLateCancel, SettleItem
<1>5. ASSUME NEW c \in Call, HandleCall(c) \/ Work(c) PROVE items' = items
  <2>1. CASE WriteHistory(c)
    BY <2>1 DEF WriteHistory
  <2>2. CASE \E result \in Results : Return(c, result)
    BY <2>2 DEF Return
  <2>3. CASE HandleCall(c)
    <3>1. CASE CheckContext(c)
      BY <1>1, <3>1 DEF CheckContext
    <3>2. CASE SettleResult(c)
      BY <1>1, <3>2 DEF SettleResult
    <3>3. CASE \E moved \in BOOLEAN : Report(c, moved)
      BY <1>1, <3>3 DEF Report
    <3>4. CASE StartDownloadItem(c)
      BY <1>1, <3>4 DEF StartDownloadItem
    <3>5. CASE Begin(c) \/ AddHistoryItemAsync(c) \/ CancelOwn(c) \/ Unregister(c)
      BY <3>5 DEF Begin, AddHistoryItemAsync, CancelOwn, Unregister
    <3> QED
      BY <2>3, <3>1, <3>2, <3>3, <3>4, <3>5 DEF HandleCall
  <2> QED
    BY <1>5, <2>1, <2>2, <2>3 DEF Work
<1>6. ASSUME NEW s \in Sweep, HandleSweep(s) PROVE ListEmpty'
  BY <1>6 DEF HandleSweep, SweepStep, Collect, CancelOne, Swept, ClearAllDownloads,
              CloseHistoryDB, ListEmpty
<1>7. ASSUME ClearHistory PROVE ListEmpty'
  BY <1>7 DEF ClearHistory, ClearDownloadQueue, ListEmpty
<1>8. ASSUME \/ SessionStep \/ UNCHANGED allVars
             \/ \E q \in Queue, s \in Sweep : StopQueue(q, s)
             \/ \E reset \in BOOLEAN : StopAllQueues(reset)
      PROVE  items' = items
  BY <1>8 DEF SessionStep, CancelActive, Stopped, WaitForIdle, Reset, StopQueue,
              StopAllQueues, StartSweep, allVars
<1> QED
  BY <1>2, <1>3, <1>4, <1>5, <1>6, <1>7, <1>8 DEF JobNext

\* A call that clears the list goes on doing so, and is over once it has.
LEMMA ClearsOn ==
  ASSUME IInv, [JobNext]_allVars, SessionShape, NEW s \in Sweep, Clears(s),
         Executing = {}
  PROVE  Clears(s)'
<1> USE DEF frontVars, jobVars, stopVars, backVars, vars, SessionShape
<1>1. ListEmpty => ListEmpty'
  BY StaysEmpty
<1>2. ASSUME sweep'[s] = sweep[s] PROVE Clears(s)'
  BY <1>1, <1>2 DEF Clears
<1>3. ASSUME NEW t \in Sweep, HandleSweep(t) PROVE Clears(s)'
  <2>1. CASE t # s
    <3>1. sweep'[s] = sweep[s]
      BY <1>3, <2>1 DEF HandleSweep, SweepStep, Collect, CancelOne, Swept,
                        ClearAllDownloads, CloseHistoryDB
    <3> QED
      BY <1>2, <3>1
  <2>2. CASE t = s
    <3>1. /\ sweep'[s].kind = "clear" /\ sweep'[s].pc # "idle"
          /\ sweep'[s].pc = "done" => sweep[s].pc = "done" \/ ListEmpty'
      BY <1>3, <2>2 DEF HandleSweep, SweepStep, Collect, CancelOne, Swept,
                        ClearAllDownloads, CloseHistoryDB, Clears, ListEmpty
    <3> QED
      BY <1>1, <3>1 DEF Clears
  <2> QED
    BY <2>1, <2>2
<1>4. ASSUME NEW t \in Sweep, NEW kind, NEW q, StartSweep(t, kind, q)
      PROVE  sweep'[s] = sweep[s]
  BY <1>4 DEF StartSweep, Clears
<1>5. ASSUME SessionStep \/ \E q \in Queue, t \in Sweep : StopQueue(q, t)
      PROVE  sweep'[s] = sweep[s]
  BY <1>4, <1>5 DEF SessionStep, CancelActive, Stopped, WaitForIdle, Reset, StopQueue
<1>6. ASSUME NEW reset \in BOOLEAN, StopAllQueues(reset) PROVE sweep'[s] = sweep[s]
  <2>1. PICK slot \in [Unstopped -> IdleSweeps] :
          sweep' = [t \in Sweep |->
            IF \E q \in Unstopped : slot[q] = t
            THEN Called("queue", CHOOSE q \in Unstopped : slot[q] = t)
            ELSE sweep[t]]
    BY <1>6 DEF StopAllQueues
  <2>2. s \notin IdleSweeps
    BY DEF Clears, IdleSweeps
  <2>3. ~\E q \in Unstopped : slot[q] = s
    BY <2>2
  <2> QED
    BY <2>1, <2>3
<1>7. ASSUME NEW c \in Call, HandleCall(c) \/ Work(c) PROVE sweep' = sweep
  BY <1>7 DEF HandleCall, Work, Begin, StartDownloadItem, AddHistoryItemAsync, CancelOwn,
              Unregister, SettleResult, CheckContext, Report, Return, WriteHistory
<1>8. ASSUME NEW i \in ItemId, JobStep(i) PROVE FALSE
  BY <1>8 DEF JobStep, HandleAdd, AddAnswered, UpdateAnswered, TokenAnswered,
              RefreshAnswered, HandleAsk, AskAnswered, CancelAnswered, CallAnswered,
              Executing
<1>9. ASSUME NEW i \in ItemId, Execute(i) \/ HandleLateCancel(i) PROVE sweep' = sweep
  BY <1>9 DEF Execute, HandleLateCancel, SettleItem
<1>10. ASSUME ClearHistory \/ UNCHANGED allVars PROVE sweep' = sweep
  BY <1>10 DEF ClearHistory, ClearDownloadQueue, allVars
<1> QED
  BY <1>2, <1>3, <1>5, <1>6, <1>7, <1>8, <1>9, <1>10 DEF JobNext

\* Records stay records.
LEMMA ShapeStays == ASSUME SessionShape, [JobNext]_allVars PROVE SessionShape'
<1> USE DEF frontVars, jobVars, stopVars, backVars, vars, SessionShape
<1> DEFINE SweepsOK == /\ DOMAIN sweep' = Sweep
                       /\ \A s \in Sweep : DOMAIN sweep'[s] = {"pc", "kind", "queue", "doomed"}
<1>1. DOMAIN session' = {"pc", "reset", "stops", "awaited"}
  <2>1. session' = session \/ DOMAIN session' = DOMAIN session
    <3>1. ASSUME NEW i \in ItemId, Execute(i) PROVE DOMAIN session' = DOMAIN session
      BY <3>1 DEF Execute
    <3>2. ASSUME NEW reset \in BOOLEAN, StopAllQueues(reset)
          PROVE  DOMAIN session' = DOMAIN session
      BY <3>2 DEF StopAllQueues
    <3>3. ASSUME SessionStep PROVE DOMAIN session' = DOMAIN session
      BY <3>3 DEF SessionStep, CancelActive, Stopped, WaitForIdle, Reset
    <3> QED
      BY <3>1, <3>2, <3>3, SessionStays
  <2> QED
    BY <2>1
<1>2. ASSUME sweep' = sweep PROVE SweepsOK
  BY <1>2
<1>3. ASSUME NEW t \in Sweep, NEW kind, NEW q, StartSweep(t, kind, q) PROVE SweepsOK
  BY <1>3 DEF StartSweep, Called
<1>4. ASSUME NEW t \in Sweep, HandleSweep(t) PROVE SweepsOK
  BY <1>4 DEF HandleSweep, SweepStep, Collect, CancelOne, Swept, ClearAllDownloads,
              CloseHistoryDB
<1>5. ASSUME NEW reset \in BOOLEAN, StopAllQueues(reset) PROVE SweepsOK
  <2>1. PICK slot : sweep' = [t \in Sweep |->
            IF \E q \in Unstopped : slot[q] = t
            THEN Called("queue", CHOOSE q \in Unstopped : slot[q] = t)
            ELSE sweep[t]]
    BY <1>5 DEF StopAllQueues
  <2>2. \A q : DOMAIN Called("queue", q) = {"pc", "kind", "queue", "doomed"}
    BY DEF Called
  <2> QED
    BY <2>1, <2>2
<1>6. ASSUME SessionStep \/ \E q \in Queue, t \in Sweep : StopQueue(q, t)
      PROVE  SweepsOK
  <2>1. sweep' = sweep \/ \E t \in Sweep, kind \in SweepKind, q \in Queue \cup {None} :
                            StartSweep(t, kind, q)
    BY <1>6 DEF SessionStep, CancelActive, Stopped, WaitForIdle, Reset, StopQueue, SweepKind
  <2> QED
    BY <1>2, <1>3, <2>1
<1>7. ASSUME NEW c \in Call, HandleCall(c) \/ Work(c) PROVE sweep' = sweep
  BY <1>7 DEF HandleCall, Work, Begin, StartDownloadItem, AddHistoryItemAsync, CancelOwn,
              Unregister, SettleResult, CheckContext, Report, Return, WriteHistory
<1>8. ASSUME NEW i \in ItemId, JobStep(i) \/ Execute(i) \/ HandleLateCancel(i)
      PROVE  sweep' = sweep
  BY <1>8 DEF JobStep, HandleAdd, AddAnswered, UpdateAnswered, TokenAnswered,
              RefreshAnswered, HandleAsk, AskAnswered, CancelAnswered, CallAnswered,
              Execute, HandleLateCancel, SettleItem, AddQueueItem, Send, Arrive
<1>9. ASSUME ClearHistory \/ UNCHANGED allVars PROVE sweep' = sweep
  BY <1>9 DEF ClearHistory, ClearDownloadQueue, allVars
<1>10. SweepsOK
  <2> HIDE DEF SweepsOK
  <2> QED
    BY <1>2, <1>4, <1>5, <1>6, <1>7, <1>8, <1>9 DEF JobNext
<1> QED
  BY <1>1, <1>10

\* The steps of stopAllQueues and startNewSession.
LEMMA SessionStepOK ==
  ASSUME IInv, SessionShape, SessionOK, SessionStep
  PROVE  SessionOK'
<1> USE DEF frontVars, jobVars, stopVars, backVars, vars, SessionShape
<1>1. job' = job /\ items' = items /\ Executing' = Executing
  BY DEF SessionStep, CancelActive, Stopped, WaitForIdle, Reset, StartSweep, Executing
<1>2. ASSUME NEW s \in Sweep, CancelActive(s) PROVE SessionOK'
  BY <1>2 DEF CancelActive, SessionOK
<1>3. ASSUME WaitForIdle PROVE SessionOK'
  <2>1. session'.pc = "waiting" /\ session'.awaited = Executing
    BY <1>3 DEF WaitForIdle
  <2> QED
    BY <1>1, <2>1 DEF SessionOK
<1>4. ASSUME NEW s \in Sweep, Stopped(s) PROVE SessionOK'
  <2>1. CASE session'.pc = "idle"
    BY <2>1 DEF SessionOK
  <2>2. CASE /\ session.reset /\ StartSweep(s, "clear", None)
             /\ session' = [session EXCEPT !.pc = "clearing", !.stops = {s}]
    <3>1. Executing = {}
      <4>1. Executing \subseteq session.awaited
        BY <1>4, <2>2 DEF Stopped, SessionOK
      <4>2. \A i \in session.awaited : job[i].pc = "done"
        BY <1>4 DEF Stopped
      <4> QED
        BY <4>1, <4>2 DEF Executing
    <3>2. session'.pc = "clearing" /\ session'.reset /\ session'.stops = {s}
      BY <2>2
    <3>3. sweep'[s].kind = "clear" /\ sweep'[s].pc = "called"
      BY <2>2 DEF StartSweep, Called
    <3>4. Clears(s)'
      BY <3>3 DEF Clears
    <3> QED
      BY <1>1, <3>1, <3>2, <3>4 DEF SessionOK
  <2>3. (~session.reset /\ session' = [session EXCEPT !.pc = "idle"])
          => session'.pc = "idle"
    OBVIOUS
  <2> QED
    BY <1>4, <2>1, <2>2, <2>3 DEF Stopped
<1>5. ASSUME Reset PROVE SessionOK'
  <2>1. session'.pc = "fresh" /\ session'.reset = session.reset
    BY <1>5 DEF Reset
  <2>2. session.reset /\ Executing = {} /\ ListEmpty
    BY <1>5 DEF Reset, SessionOK, Clears
  <2> QED
    BY <1>1, <2>1, <2>2 DEF SessionOK, ListEmpty
<1> QED
  BY <1>2, <1>3, <1>4, <1>5 DEF SessionStep

\* Every other step.
LEMMA SessionKept ==
  IInv /\ SessionShape /\ SessionOK /\ [JobNext]_allVars => SessionOK'
<1> SUFFICES ASSUME IInv, SessionShape, SessionOK, [JobNext]_allVars
             PROVE  SessionOK'
  OBVIOUS
<1> USE DEF SessionShape
<1>1. ASSUME NEW i \in ItemId, Execute(i) PROVE SessionOK'
  <2>1. /\ session'.pc = IF session.pc = "fresh" THEN "idle" ELSE session.pc
        /\ session'.reset = session.reset
        /\ session.pc \in {"idle", "fresh"} \/ ~session.reset
    BY <1>1 DEF Execute
  <2>2. session'.pc = "idle" \/ ~session'.reset
    BY <2>1
  <2>3. session'.pc \in {"idle", "stopping", "cancelling", "waiting"}
    BY <2>1 DEF SessionOK
  <2> QED
    BY <2>2, <2>3 DEF SessionOK
<1>2. ASSUME NEW reset \in BOOLEAN, StopAllQueues(reset) PROVE SessionOK'
  <2>1. session'.pc = "stopping"
    BY <1>2 DEF StopAllQueues
  <2> QED
    BY <2>1 DEF SessionOK
<1>3. CASE SessionStep
  BY <1>3, SessionStepOK
<1>4. CASE /\ ~\E i \in ItemId : Execute(i)
           /\ ~\E reset \in BOOLEAN : StopAllQueues(reset)
           /\ ~SessionStep
  <2>1. session' = session /\ Executing' \subseteq Executing
    BY <1>4, SessionStays, NoneStarts
  <2>2. Executing = {} /\ ListEmpty => ListEmpty'
    BY StaysEmpty
  <2>3. \A s \in Sweep : Executing = {} /\ Clears(s) => Clears(s)'
    BY ClearsOn
  <2> QED
    BY <2>1, <2>2, <2>3 DEF SessionOK
<1> QED
  BY <1>1, <1>2, <1>3, <1>4

\* When startNewSession returns, no job of the old session executes, no call
\* of one runs in the backend, and the list there is empty.
THEOREM NewSessionsAreClean == JobSpec => []FreshSessionIsClean
<1>1. JobInit => SessionShape /\ SessionOK
  <2> SUFFICES ASSUME JobInit PROVE SessionShape /\ SessionOK
    OBVIOUS
  <2>1. session.pc = "idle" /\ SessionShape
    BY DEF JobInit, Init, SessionShape
  <2> QED
    BY <2>1 DEF SessionOK
<1>2. JobSpec => [](SessionShape /\ SessionOK)
  BY <1>1, Invariant, ShapeStays, SessionKept, PTL DEF JobSpec
<1>3. IInv /\ SessionOK => FreshSessionIsClean
  <2> SUFFICES ASSUME IInv, SessionOK, session.pc = "fresh"
               PROVE  /\ Executing = {} /\ lateCancel = {}
                      /\ \A c \in Call : call[c].pc \in {"idle", "left"}
                      /\ ListEmpty
    BY DEF FreshSessionIsClean, ListEmpty
  <2>1. Executing = {} /\ ListEmpty
    BY DEF SessionOK
  <2>2. \A i \in ItemId : job[i].pc \in {"waiting", "done"}
    BY <2>1 DEF Executing
  <2>3. lateCancel = {}
    <3>1. lateCancel \subseteq ItemId /\ \A i \in ItemId : JobOK(i)
      BY DEF IInv, JobsTypeOK
    <3> QED
      BY <2>2, <3>1 DEF JobOK
  <2>4. ASSUME NEW c \in Call PROVE call[c].pc \in {"idle", "left"}
    <3>1. PICK i \in ItemId, n \in {1, 2} : c = <<i, n>>
      BY CallsAssumption
    <3>2. CallOK(i, n)
      BY DEF IInv
    <3> QED
      BY <2>2, <3>1, <3>2 DEF CallOK
  <2> QED
    BY <2>1, <2>3, <2>4
<1> QED
  BY <1>2, <1>3, Invariant, PTL
=============================================================================
