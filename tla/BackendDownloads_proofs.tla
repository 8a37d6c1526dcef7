----------------------- MODULE BackendDownloads_proofs -----------------------
(***************************************************************************)
(* Proofs about BackendDownloads.  An entry of the registry is a tracked   *)
(* call about that item (Registered), the handlers' program counters tell  *)
(* who is tracked and who writes (CallsOK), and a sweep only holds calls   *)
(* while it cancels (SweepsOK).  That the wait group is exact needs all    *)
(* three: a call is counted from its registration to its last deferred     *)
(* call, whoever replaced it, and its write only while it is counted, so   *)
(* nothing can be counted anew once the group is empty after shutdown.     *)
(***************************************************************************)
EXTENDS BackendDownloads, FiniteSetTheorems, TLAPS

Registered ==
  \A i \in ItemId : registry[i] # None =>
    /\ call[registry[i]].tracked
    /\ call[registry[i]].item = i

CallsOK ==
  \A c \in Call :
    /\ call[c].tracked => call[c].pc \in Begun
    /\ call[c].pc \in {"arrived"} \cup Begun => call[c].item \in ItemId
    /\ call[c].pc = "replacing" => call[c].tracked /\ call[c].previous \in Call
    /\ call[c].pc \in {"passed", "recording", "unregistering"} => call[c].tracked
    /\ call[c].pc = "returned" /\ ~call[c].tracked => call[c].result = "canceled"
    /\ c \in writing => call[c].pc \in {"leaving", "unregistering", "left"}

SweepsOK ==
  \A s \in Sweep :
    /\ sweep[s].pc # "cancelling" => sweep[s].doomed = {}
    /\ sweep[s].kind = "shutdown" =>
         /\ sweep[s].pc # "idle" => shuttingDown
         /\ sweep[s].pc \in {"quiet", "done"} =>
              writing = {} /\ \A c \in Call : ~call[c].tracked

IInv ==
  /\ BackendTypeOK
  /\ Registered /\ CallsOK /\ SweepsOK
  /\ WaitGroupCounts
  /\ NoDownloadEscapes

-----------------------------------------------------------------------------
\* The calls in progress are those that are tracked.
LEMMA TrackedAre ==
  ASSUME CallsOK
  PROVE  Tracked = {c \in Call : call[c].tracked}
  BY DEF CallsOK, Tracked, InProgress

\* Settling an item keeps the list a list of items.
LEMMA SettledType ==
  ASSUME BackendTypeOK, NEW i, NEW status \in Terminal \cup Unfinished
  PROVE  Settled(i, status) \in [ItemId -> {"absent"} \cup Unfinished \cup Terminal]
  BY DEF BackendTypeOK, Settled

\* Before any call nothing is registered and nothing counted.
LEMMA InitInv == Init => IInv
<1> SUFFICES ASSUME Init PROVE IInv
  OBVIOUS
<1> USE DEF Init, NoCall
<1>1. BackendTypeOK
  BY DEF BackendTypeOK, CallRecord, SweepRecord, Kind, Result, SweepKind
<1>2. Registered /\ CallsOK /\ SweepsOK
  BY DEF Registered, CallsOK, SweepsOK, Begun
<1>3. Tracked = {}
  BY DEF Tracked, InProgress
<1>4. WaitGroupCounts /\ NoDownloadEscapes
  BY <1>3, FS_EmptySet DEF WaitGroupCounts, NoDownloadEscapes
<1> QED
  BY <1>1, <1>2, <1>4 DEF IInv

\* Calls about single items do not touch a download.
LEMMA ItemInv ==
  ASSUME IInv,
         \/ \E i \in ItemId : AddQueueItem(i)
         \/ \E i \in ItemId, status \in Terminal : SettleItem(i, status)
         \/ ClearDownloadQueue
  PROVE  IInv'
<1>1. /\ items' \in [ItemId -> {"absent"} \cup Unfinished \cup Terminal]
      /\ UNCHANGED <<call, registry, cancelled, activeWG, writing, sweep,
                     shuttingDown, historyOpen>>
  <2>1. CASE \E i \in ItemId : AddQueueItem(i)
    BY <2>1 DEF AddQueueItem, IInv, BackendTypeOK, Unfinished
  <2>2. CASE \E i \in ItemId, status \in Terminal : SettleItem(i, status)
    BY <2>2, SettledType DEF SettleItem, IInv
  <2>3. CASE ClearDownloadQueue
    BY <2>3 DEF ClearDownloadQueue, IInv, BackendTypeOK
  <2> QED
    BY <2>1, <2>2, <2>3
<1> QED
  BY <1>1 DEF IInv, BackendTypeOK, Registered, CallsOK, SweepsOK, WaitGroupCounts,
              NoDownloadEscapes, Tracked, InProgress, Doomed, At

\* A call that is cancelled, or about to be, stays so as long as no context is
\* revived and no sweep or replacement forgets whom it has to cancel.
LEMMA DoomedStays ==
  ASSUME cancelled \subseteq cancelled',
         \A s \in Sweep : sweep[s].doomed \subseteq sweep'[s].doomed \cup cancelled',
         \A d \in Call : call[d].pc = "replacing" =>
           \/ call[d].previous \in cancelled'
           \/ call'[d].pc = "replacing" /\ call'[d].previous = call[d].previous
  PROVE  \A d \in Call : Doomed(d) => Doomed(d)'
  BY DEF Doomed, At

\* A step lets no call escape if whoever it takes out of the registry is doomed.
LEMMA NobodyEscapes ==
  ASSUME IInv, CallsOK',
         \A d \in Call : Doomed(d) => Doomed(d)',
         \A d \in Call : call'[d].tracked =>
           /\ call[d].tracked
           /\ call'[d].item = call[d].item
           /\ \/ registry[call[d].item] # d
              \/ registry'[call[d].item] = d
              \/ Doomed(d)'
  PROVE  NoDownloadEscapes'
<1> SUFFICES ASSUME NEW d \in Tracked'
             PROVE  registry'[call'[d].item] = d \/ Doomed(d)'
  BY DEF NoDownloadEscapes
<1>1. d \in Call /\ call'[d].tracked
  BY DEF Tracked, InProgress
<1>2. d \in Tracked
  BY <1>1, TrackedAre DEF IInv
<1>3. registry[call[d].item] = d \/ Doomed(d)
  BY <1>2 DEF IInv, NoDownloadEscapes
<1> QED
  BY <1>1, <1>3

\* Writing one call record changes no other.
LEMMA CallType ==
  ASSUME BackendTypeOK, NEW c \in Call, NEW r \in CallRecord,
         call' = [call EXCEPT ![c] = r]
  PROVE  /\ call' \in [Call -> CallRecord]
         /\ call'[c] = r
         /\ \A d \in Call : d # c => call'[d] = call[d]
  BY DEF BackendTypeOK

\* A call arrives: it is not registered yet, and nothing counts it.
LEMMA ArriveInv ==
  ASSUME IInv, NEW c \in Call, NEW i \in ItemId, NEW kind \in Kind,
         NEW named \in BOOLEAN, Arrive(c, i, kind, named)
  PROVE  IInv'
<1> DEFINE r == [call[c] EXCEPT !.pc = "arrived", !.item = i, !.kind = kind]
<1>1. /\ call[c].pc = "idle"
      /\ call' = [call EXCEPT ![c] = r]
      /\ UNCHANGED <<registry, cancelled, activeWG, writing, sweep, shuttingDown,
                     historyOpen>>
  BY DEF Arrive
<1>2. r \in CallRecord
  BY DEF IInv, BackendTypeOK, CallRecord
<1>3. /\ call' \in [Call -> CallRecord]
      /\ \A d \in Call : d # c => call'[d] = call[d]
      /\ call'[c] = r
  BY <1>1, <1>2, CallType DEF IInv
<1>4. /\ call'[c].pc = "arrived" /\ call'[c].item = i
      /\ call'[c].tracked = call[c].tracked /\ ~call[c].tracked
  BY <1>1, <1>3 DEF IInv, BackendTypeOK, CallRecord, CallsOK, Begun
<1> HIDE DEF r
<1>5. BackendTypeOK'
  <2>1. items' \in [ItemId -> {"absent"} \cup Unfinished \cup Terminal]
    BY DEF Arrive, IInv, BackendTypeOK, Unfinished
  <2> QED
    BY <1>1, <1>3, <2>1 DEF IInv, BackendTypeOK
<1>6. Registered' /\ CallsOK' /\ SweepsOK'
  BY <1>1, <1>3, <1>4 DEF IInv, Registered, CallsOK, SweepsOK, Begun, BackendTypeOK
<1>7. Tracked' = Tracked
  BY <1>3, <1>4 DEF Tracked, InProgress, Begun
<1>8. NoDownloadEscapes'
  <2>1. \A d \in Call : Doomed(d) => Doomed(d)'
    BY <1>1, <1>3, DoomedStays
  <2> QED
    BY <1>1, <1>3, <1>4, <1>6, <2>1, NobodyEscapes
<1> QED
  BY <1>1, <1>5, <1>6, <1>7, <1>8 DEF IInv, WaitGroupCounts

Moves(c, p, r) ==
  /\ call' = [call EXCEPT ![c].pc = p, ![c].result = r]
  /\ p \in Begun \ {"replacing"} /\ r \in Result
  /\ items' \in [ItemId -> {"absent"} \cup Unfinished \cup Terminal]
  /\ UNCHANGED <<registry, activeWG, writing, sweep, shuttingDown, historyOpen>>
  /\ cancelled \subseteq cancelled' /\ cancelled' \subseteq Call
  /\ call[c].pc \in {"arrived"} \cup Begun
  /\ call[c].pc = "replacing" => call[c].previous \in cancelled'
  /\ p \in {"passed", "recording", "unregistering"} => call[c].tracked
  /\ p = "returned" /\ ~call[c].tracked => r = "canceled"
  /\ c \in writing => p \in {"leaving", "unregistering"}

\* A step within a handler changes neither the registry nor what is counted.
LEMMA MoveInv ==
  ASSUME IInv, NEW c \in Call, NEW p, NEW r, Moves(c, p, r)
  PROVE  IInv'
<1> USE DEF Moves
<1> DEFINE new == [call[c] EXCEPT !.pc = p, !.result = r]
<1>1. new \in CallRecord
  BY DEF IInv, BackendTypeOK, CallRecord
<1>2. call' = [call EXCEPT ![c] = new]
  OBVIOUS
<1>3. /\ call' \in [Call -> CallRecord]
      /\ \A d \in Call : d # c => call'[d] = call[d]
      /\ call'[c] = new
  BY <1>1, <1>2, CallType DEF IInv
<1>4. /\ call'[c].pc = p /\ call'[c].item = call[c].item /\ call'[c].result = r
      /\ call'[c].tracked = call[c].tracked
  BY <1>3 DEF IInv, BackendTypeOK, CallRecord
<1> HIDE DEF new
<1>5. BackendTypeOK'
  BY <1>3 DEF IInv, BackendTypeOK
<1>6. Registered'
  BY <1>3, <1>4 DEF IInv, Registered, BackendTypeOK
<1>7. CallsOK'
  BY <1>3, <1>4 DEF IInv, CallsOK
<1>8. SweepsOK'
  BY <1>3, <1>4 DEF IInv, SweepsOK
<1>9. Tracked' = Tracked
  BY <1>3, <1>4, <1>7, TrackedAre DEF Tracked, InProgress, IInv, CallsOK
<1>10. NoDownloadEscapes'
  <2>1. \A d \in Call : Doomed(d) => Doomed(d)'
    BY <1>3, <1>4, DoomedStays
  <2> QED
    BY <1>3, <1>4, <1>7, <2>1, NobodyEscapes
<1> QED
  BY <1>5, <1>6, <1>7, <1>8, <1>9, <1>10 DEF IInv, WaitGroupCounts

\* Moving on keeps the result.
LEMMA GoToResult ==
  ASSUME BackendTypeOK, NEW c \in Call, NEW p, GoTo(c, p)
  PROVE  call' = [call EXCEPT ![c].pc = p, ![c].result = call[c].result]
<1>1. call[c] \in CallRecord
  BY DEF BackendTypeOK
<1> DEFINE gone == [call[c] EXCEPT !.pc = p]
<1>2. gone = [gone EXCEPT !.result = call[c].result]
  BY <1>1 DEF CallRecord
<1>3. call' = [call EXCEPT ![c] = gone]
  BY DEF GoTo
<1> QED
  BY <1>2, <1>3

\* The steps of the worker and of its handler up to the report.
LEMMA HandlerMoves ==
  ASSUME IInv, NEW c \in Call,
         \/ BeginRefused(c) \/ CancelPrevious(c) \/ StartDownloadItem(c)
         \/ SettleResult(c) \/ CheckContext(c)
         \/ \E moved \in BOOLEAN : Report(c, moved)
  PROVE  \E p, r : Moves(c, p, r)
<1> USE DEF Moves, Begun, Terminal, Unfinished
<1>1. BackendTypeOK /\ CallsOK
  BY DEF IInv
<1>2. /\ items \in [ItemId -> {"absent"} \cup Unfinished \cup Terminal]
      /\ cancelled \subseteq Call
      /\ "error" \in Result /\ call[c].result \in Result
      /\ \A p : GoTo(c, p) => call' = [call EXCEPT ![c].pc = p, ![c].result = call[c].result]
  BY <1>1, GoToResult DEF BackendTypeOK, CallRecord, Result
<1>3. \A i, status : status \in {"cancelled", "failed", "skipped", "completed", "downloading"} =>
        Settled(i, status) \in [ItemId -> {"absent"} \cup Unfinished \cup Terminal]
  BY <1>1, SettledType
<1>4. /\ call[c].pc = "replacing" => call[c].tracked /\ call[c].previous \in Call
      /\ call[c].pc \in {"passed", "recording", "unregistering"} => call[c].tracked
      /\ call[c].pc = "returned" /\ ~call[c].tracked => call[c].result = "canceled"
      /\ c \in writing => call[c].pc \in {"leaving", "unregistering", "left"}
  BY <1>1 DEF CallsOK
<1>5. CASE BeginRefused(c)
  <2>1. Moves(c, "begun", call[c].result)
    BY <1>2, <1>4, <1>5 DEF BeginRefused
  <2> QED
    BY <2>1
<1>6. CASE CancelPrevious(c)
  <2>1. Moves(c, "begun", call[c].result)
    BY <1>2, <1>4, <1>6 DEF CancelPrevious
  <2> QED
    BY <2>1
<1>7. CASE StartDownloadItem(c)
  <2>1. Moves(c, "running", call[c].result)
    BY <1>2, <1>3, <1>4, <1>7 DEF StartDownloadItem
  <2> QED
    BY <2>1
<1>8. CASE SettleResult(c)
  <2>1. Moves(c, "leaving", "error")
    BY <1>2, <1>3, <1>4, <1>8 DEF SettleResult, Leave
  <2> QED
    BY <2>1
<1>9. CASE CheckContext(c)
  <2>1. CASE Leave(c)
    <3>1. Moves(c, "leaving", "error")
      BY <1>2, <1>3, <1>4, <1>9, <2>1 DEF CheckContext, Leave
    <3> QED
      BY <3>1
  <2>2. CASE GoTo(c, "passed")
    <3>1. Moves(c, "passed", call[c].result)
      BY <1>2, <1>3, <1>4, <1>9, <2>2 DEF CheckContext
    <3> QED
      BY <3>1
  <2> QED
    BY <1>9, <2>1, <2>2 DEF CheckContext
<1>10. CASE \E moved \in BOOLEAN : Report(c, moved)
  <2>1. PICK moved \in BOOLEAN : Report(c, moved)
    BY <1>10
  <2>2. CASE Leave(c)
    <3>1. Moves(c, "leaving", "error")
      BY <1>2, <1>3, <1>4, <2>1, <2>2 DEF Report, Leave
    <3> QED
      BY <3>1
  <2>3. CASE GoTo(c, "recording")
    <3>1. Moves(c, "recording", call[c].result)
      BY <1>2, <1>3, <1>4, <2>1, <2>3 DEF Report
    <3> QED
      BY <3>1
  <2> QED
    BY <2>1, <2>2, <2>3 DEF Report
<1> QED
  BY <1>5, <1>6, <1>7, <1>8, <1>9, <1>10

\* The backend call of a download answers.
LEMMA ReturnInv ==
  ASSUME IInv, NEW c \in Call, NEW result \in Results, Return(c, result)
  PROVE  IInv'
<1>1. result \in Result
  BY ResultsAssumption
<1>2. Moves(c, "returned", result)
  BY <1>1 DEF Moves, Return, IInv, BackendTypeOK, CallsOK, Begun
<1> QED
  BY <1>2, MoveInv

\* A call takes the entry of its item.
LEMMA BeginInv ==
  ASSUME IInv, NEW c \in Call, Begin(c)
  PROVE  IInv'
<1> DEFINE i == call[c].item
           previous == registry[i]
           new == [call[c] EXCEPT
                     !.pc = IF previous = None THEN "begun" ELSE "replacing",
                     !.previous = previous, !.tracked = TRUE]
<1>1. /\ call[c].pc = "arrived" /\ ~shuttingDown
      /\ call' = [call EXCEPT ![c] = new]
      /\ registry' = [registry EXCEPT ![i] = c]
      /\ activeWG' = activeWG + 1
      /\ UNCHANGED <<items, cancelled, writing, sweep, shuttingDown, historyOpen>>
  BY DEF Begin
<1>2. i \in ItemId /\ ~call[c].tracked /\ c \notin writing /\ c # None
  BY <1>1, NoneAssumption DEF IInv, CallsOK, Begun
<1>3. new \in CallRecord
  <2>1. previous \in Call \cup {None} /\ call[c] \in CallRecord
    BY <1>2 DEF IInv, BackendTypeOK
  <2> QED
    BY <2>1 DEF CallRecord, Begun
<1>4. /\ call' \in [Call -> CallRecord]
      /\ \A d \in Call : d # c => call'[d] = call[d]
      /\ call'[c] = new
  BY <1>1, <1>3, CallType DEF IInv
<1>5. /\ call'[c].pc \in {"begun", "replacing"} /\ call'[c].item = i
      /\ call'[c].previous = previous /\ call'[c].tracked
      /\ call'[c].pc = "replacing" <=> previous # None
  BY <1>4 DEF IInv, BackendTypeOK, CallRecord
<1> HIDE DEF new
<1>6. /\ registry'[i] = c
      /\ \A j \in ItemId : j # i => registry'[j] = registry[j]
      /\ previous \in Call \cup {None}
  BY <1>1, <1>2 DEF IInv, BackendTypeOK
<1>7. BackendTypeOK'
  BY <1>1, <1>2, <1>4 DEF IInv, BackendTypeOK
<1>8. Registered'
  BY <1>2, <1>4, <1>5, <1>6 DEF IInv, Registered, BackendTypeOK
<1>9. CallsOK'
  BY <1>1, <1>2, <1>4, <1>5, <1>6 DEF IInv, CallsOK, Begun
<1>10. SweepsOK'
  BY <1>1 DEF IInv, SweepsOK
<1>11. WaitGroupCounts'
  <2>1. Tracked' = Tracked \cup {c} /\ c \notin Tracked
    BY <1>2, <1>4, <1>5, <1>9, TrackedAre DEF Tracked, InProgress, IInv, CallsOK
  <2>2. IsFiniteSet(Tracked)
    BY CallAssumption, FS_Subset DEF Tracked, InProgress
  <2>3. Cardinality(Tracked') = Cardinality(Tracked) + 1
    BY <2>1, <2>2, FS_AddElement
  <2>4. Cardinality(Tracked) \in Nat /\ Cardinality(writing) \in Nat
    BY <2>2, CallAssumption, FS_Subset, FS_CardinalityType DEF IInv, BackendTypeOK
  <2> QED
    BY <1>1, <2>3, <2>4 DEF IInv, WaitGroupCounts
<1>12. NoDownloadEscapes'
  <2>1. \A d \in Call : Doomed(d) => Doomed(d)'
    BY <1>1, <1>4, DoomedStays
  <2>2. SUFFICES ASSUME NEW d \in Tracked'
                 PROVE  registry'[call'[d].item] = d \/ Doomed(d)'
    BY DEF NoDownloadEscapes
  <2>3. CASE d = c
    BY <1>5, <1>6, <2>3
  <2>4. CASE d # c
    <3>1. d \in Call /\ d \in Tracked /\ call'[d].item = call[d].item /\ call[d].item \in ItemId
      BY <1>4, <2>4 DEF Tracked, InProgress, IInv, CallsOK
    <3>2. CASE registry[call[d].item] = d /\ call[d].item = i
      <4>1. call'[c].pc = "replacing" /\ call'[c].previous = d
        BY <1>5, <3>1, <3>2, NoneAssumption
      <4> QED
        BY <4>1 DEF Doomed, At
    <3> QED
      BY <1>6, <2>1, <3>1, <3>2 DEF IInv, NoDownloadEscapes
  <2> QED
    BY <2>3, <2>4
<1> QED
  BY <1>7, <1>8, <1>9, <1>10, <1>11, <1>12 DEF IInv

\* What is counted is finite.
LEMMA CountType ==
  ASSUME IInv
  PROVE  /\ IsFiniteSet(Tracked) /\ IsFiniteSet(writing)
         /\ Cardinality(Tracked) \in Nat /\ Cardinality(writing) \in Nat
<1>1. Tracked \subseteq Call /\ writing \subseteq Call
  BY DEF Tracked, InProgress, IInv, BackendTypeOK
<1> QED
  BY <1>1, CallAssumption, FS_Subset, FS_CardinalityType

\* The write of the history is counted while its call still is.
LEMMA AddHistoryInv ==
  ASSUME IInv, NEW c \in Call, AddHistoryItemAsync(c)
  PROVE  IInv'
<1> DEFINE new == [call[c] EXCEPT !.pc = "leaving", !.result = "error"]
<1>1. /\ call[c].pc = "recording" /\ call' = [call EXCEPT ![c] = new]
      /\ activeWG' = activeWG + 1 /\ writing' = writing \cup {c}
      /\ UNCHANGED <<items, registry, cancelled, sweep, shuttingDown, historyOpen>>
  BY DEF AddHistoryItemAsync, Leave
<1>2. call[c].tracked /\ c \notin writing
  BY <1>1 DEF IInv, CallsOK
<1>3. new \in CallRecord
  BY DEF IInv, BackendTypeOK, CallRecord, Begun, Result
<1>4. /\ call' \in [Call -> CallRecord]
      /\ \A d \in Call : d # c => call'[d] = call[d]
      /\ call'[c] = new
  BY <1>1, <1>3, CallType DEF IInv
<1>5. call'[c].pc = "leaving" /\ call'[c].item = call[c].item /\ call'[c].tracked
  BY <1>2, <1>4 DEF IInv, BackendTypeOK, CallRecord
<1> HIDE DEF new
<1>6. BackendTypeOK'
  BY <1>1, <1>4 DEF IInv, BackendTypeOK
<1>7. Registered'
  BY <1>1, <1>4, <1>5 DEF IInv, Registered, BackendTypeOK
<1>8. CallsOK'
  BY <1>1, <1>4, <1>5 DEF IInv, CallsOK, Begun
<1>9. SweepsOK'
  BY <1>1, <1>2 DEF IInv, SweepsOK
<1>10. WaitGroupCounts'
  <2>1. Tracked' = Tracked
    BY <1>2, <1>4, <1>5, <1>8, TrackedAre DEF Tracked, InProgress, IInv, CallsOK
  <2>2. Cardinality(writing') = Cardinality(writing) + 1
    BY <1>1, <1>2, CountType, FS_AddElement
  <2> QED
    BY <1>1, <2>1, <2>2, CountType DEF IInv, WaitGroupCounts
<1>11. NoDownloadEscapes'
  <2>1. \A d \in Call : Doomed(d) => Doomed(d)'
    BY <1>1, <1>4, DoomedStays
  <2> QED
    BY <1>1, <1>2, <1>4, <1>5, <1>8, <2>1, NobodyEscapes
<1> QED
  BY <1>6, <1>7, <1>8, <1>9, <1>10, <1>11 DEF IInv

\* No write is left when shutdown closes the history.
LEMMA WriteHistoryInv ==
  ASSUME IInv, NEW c \in Call, WriteHistory(c)
  PROVE  IInv'
<1>1. /\ c \in writing /\ writing' = writing \ {c}
      /\ activeWG' = activeWG - 1 /\ historyOpen' = TRUE
      /\ UNCHANGED <<items, call, registry, cancelled, sweep, shuttingDown>>
  BY DEF WriteHistory
<1>2. Cardinality(writing') = Cardinality(writing) - 1
  BY <1>1, CountType, FS_RemoveElement
<1>3. Tracked' = Tracked
  BY <1>1 DEF Tracked, InProgress
<1>4. BackendTypeOK' /\ WaitGroupCounts'
  <2>1. Cardinality(writing') \in Nat
    BY <1>1, CountType, FS_RemoveElement, FS_CardinalityType
  <2>2. WaitGroupCounts'
    BY <1>1, <1>2, <1>3, CountType DEF IInv, WaitGroupCounts
  <2>3. activeWG' \in Nat
    BY <1>3, <2>1, <2>2, CountType DEF WaitGroupCounts
  <2> QED
    BY <1>1, <2>2, <2>3 DEF IInv, BackendTypeOK
<1>5. Registered' /\ CallsOK' /\ NoDownloadEscapes'
  BY <1>1, <1>3 DEF IInv, Registered, CallsOK, NoDownloadEscapes, Doomed, At
<1>6. SweepsOK'
  BY <1>1 DEF IInv, SweepsOK
<1> QED
  BY <1>4, <1>5, <1>6 DEF IInv

\* A call ends, which was counted if it was tracked.
LEMMA EndInv ==
  ASSUME IInv, NEW c \in Call, End(c),
         call[c].pc \in {"leaving", "unregistering"},
         cancelled \subseteq cancelled', cancelled' \subseteq Call,
         registry' = IF call[c].tracked
                     THEN [registry EXCEPT ![call[c].item] = IF @ = c THEN None ELSE @]
                     ELSE registry,
         activeWG' = IF call[c].tracked THEN activeWG - 1 ELSE activeWG,
         UNCHANGED <<items, writing, sweep, shuttingDown, historyOpen>>
  PROVE  IInv'
<1> DEFINE new == [NoCall EXCEPT !.pc = "left"]
<1>1. new \in CallRecord
  BY DEF CallRecord, NoCall, Kind, Result
<1>2. /\ call' \in [Call -> CallRecord]
      /\ \A d \in Call : d # c => call'[d] = call[d]
      /\ call'[c] = new
  BY <1>1, CallType DEF IInv, End
<1>3. call'[c].pc = "left" /\ ~call'[c].tracked
  BY <1>2 DEF NoCall
<1> HIDE DEF new
<1>4. call[c].item \in ItemId
  BY DEF IInv, CallsOK, Begun
<1>5. /\ registry' \in [ItemId -> Call \cup {None}]
      /\ \A i \in ItemId : registry'[i] = IF registry[i] = c THEN None ELSE registry[i]
  <2>1. registry \in [ItemId -> Call \cup {None}] /\ c # None
    BY NoneAssumption DEF IInv, BackendTypeOK
  <2>2. \A i \in ItemId : registry[i] = c => call[c].tracked /\ i = call[c].item
    BY <2>1 DEF IInv, Registered
  <2>3. CASE call[c].tracked
    <3>1. registry' = [registry EXCEPT ![call[c].item] =
                         IF registry[call[c].item] = c THEN None
                         ELSE registry[call[c].item]]
      BY <2>3
    <3>2. registry' \in [ItemId -> Call \cup {None}]
      BY <2>1, <3>1
    <3>3. \A i \in ItemId : registry'[i] =
            IF i = call[c].item /\ registry[i] = c THEN None ELSE registry[i]
      BY <1>4, <2>1, <3>1
    <3> QED
      BY <2>2, <3>2, <3>3
  <2>4. CASE ~call[c].tracked
    <3>1. registry' = registry
      BY <2>4
    <3>2. \A i \in ItemId : registry[i] # c
      BY <2>2, <2>4
    <3> QED
      BY <2>1, <3>1, <3>2
  <2> QED
    BY <2>3, <2>4
<1>6. Registered'
  <2>1. SUFFICES ASSUME NEW i \in ItemId, registry'[i] # None
                 PROVE  call'[registry'[i]].tracked /\ call'[registry'[i]].item = i
    BY DEF Registered
  <2>2. registry'[i] = registry[i] /\ registry[i] # c /\ registry[i] \in Call
    BY <1>5, <2>1 DEF IInv, BackendTypeOK
  <2>3. call[registry[i]].tracked /\ call[registry[i]].item = i
    BY <2>1, <2>2 DEF IInv, Registered
  <2> QED
    BY <1>2, <2>2, <2>3
<1>7. CallsOK'
  BY <1>2, <1>3 DEF IInv, CallsOK, Begun
<1>8. SweepsOK'
  BY <1>2, <1>3 DEF IInv, SweepsOK
<1>9. WaitGroupCounts' /\ activeWG' \in Nat
  <2>1. Tracked' = Tracked \ {c} /\ (call[c].tracked <=> c \in Tracked)
    BY <1>2, <1>3, <1>7, TrackedAre DEF Tracked, InProgress, IInv, CallsOK
  <2>2. CASE call[c].tracked
    <3>1. Cardinality(Tracked') = Cardinality(Tracked) - 1 /\ Cardinality(Tracked') \in Nat
      BY <2>1, <2>2, CountType, FS_RemoveElement, FS_CardinalityType
    <3> QED
      BY <2>2, <3>1, CountType DEF IInv, WaitGroupCounts
  <2>3. CASE ~call[c].tracked
    <3>1. Tracked' = Tracked
      BY <2>1, <2>3
    <3> QED
      BY <2>3, <3>1 DEF IInv, WaitGroupCounts, BackendTypeOK
  <2> QED
    BY <2>2, <2>3
<1>10. BackendTypeOK'
  BY <1>2, <1>5, <1>9 DEF IInv, BackendTypeOK
<1>11. NoDownloadEscapes'
  <2>1. \A d \in Call : Doomed(d) => Doomed(d)'
    BY <1>2, DoomedStays
  <2>2. \A d \in Call : call'[d].tracked => call[d].item \in ItemId /\ d # c
    BY <1>2, <1>3 DEF IInv, CallsOK, Begun
  <2> QED
    BY <1>2, <1>5, <1>7, <2>1, <2>2, NobodyEscapes
<1> QED
  BY <1>6, <1>7, <1>8, <1>9, <1>10, <1>11 DEF IInv

\* The deferred calls of a handler: cancel, unregister, done.
LEMMA CleanupInv ==
  ASSUME IInv, NEW c \in Call, CancelOwn(c) \/ Unregister(c)
  PROVE  IInv'
<1>1. CASE CancelOwn(c) /\ call[c].tracked
  <2>1. Moves(c, "unregistering", call[c].result)
    BY <1>1, GoToResult DEF CancelOwn, Moves, IInv, BackendTypeOK, CallRecord, CallsOK, Begun
  <2> QED
    BY <2>1, MoveInv
<1>2. CASE CancelOwn(c) /\ ~call[c].tracked
  BY <1>2, EndInv DEF CancelOwn, IInv, BackendTypeOK
<1>3. CASE Unregister(c)
  <2>1. call[c].tracked
    BY <1>3 DEF Unregister, IInv, CallsOK
  <2> QED
    BY <1>3, <2>1, EndInv DEF Unregister, IInv, BackendTypeOK
<1> QED
  BY <1>1, <1>2, <1>3

-----------------------------------------------------------------------------
\* A stop, a clearing or the shutdown begins.
LEMMA StartSweepInv ==
  ASSUME IInv, NEW s \in Sweep, NEW kind \in SweepKind, NEW q \in Queue \cup {None},
         StartSweep(s, kind, q)
  PROVE  IInv'
<1>1. /\ sweep[s].pc = "idle"
      /\ shuttingDown' = (shuttingDown \/ kind = "shutdown")
      /\ sweep' = [sweep EXCEPT ![s] = Called(kind, q)]
      /\ UNCHANGED <<items, call, registry, cancelled, activeWG, writing, historyOpen>>
  BY DEF StartSweep
<1>2. Called(kind, q) \in SweepRecord
  BY DEF Called, SweepRecord
<1>3. /\ sweep'[s] = Called(kind, q)
      /\ \A x \in Sweep : x # s => sweep'[x] = sweep[x]
      /\ sweep' \in [Sweep -> SweepRecord]
  BY <1>1, <1>2 DEF IInv, BackendTypeOK
<1>4. BackendTypeOK' /\ Registered' /\ CallsOK'
  BY <1>1, <1>3 DEF IInv, BackendTypeOK, Registered, CallsOK
<1>5. SweepsOK'
  BY <1>1, <1>3 DEF IInv, SweepsOK, Called
<1>6. Tracked' = Tracked
  BY <1>1 DEF Tracked, InProgress
<1>7. \A d \in Call : Doomed(d) => Doomed(d)'
  BY <1>1, <1>3, DoomedStays DEF IInv, SweepsOK
<1>8. NoDownloadEscapes'
  BY <1>1, <1>4, <1>7, NobodyEscapes
<1> QED
  BY <1>1, <1>4, <1>5, <1>6, <1>8 DEF IInv, WaitGroupCounts

\* The entries a sweep deletes are those of the calls it is about to cancel.
LEMMA CollectInv ==
  ASSUME IInv, NEW s \in Sweep, Collect(s)
  PROVE  IInv'
<1> DEFINE hit == {registry[i] : i \in Targets(s)}
           new == [sweep[s] EXCEPT !.pc = "cancelling", !.doomed = hit]
<1>1. /\ sweep[s].pc = "called" /\ sweep' = [sweep EXCEPT ![s] = new]
      /\ registry' = [i \in ItemId |-> IF i \in Targets(s) THEN None ELSE registry[i]]
      /\ UNCHANGED <<items, call, cancelled, activeWG, writing, shuttingDown, historyOpen>>
  BY DEF Collect
<1>2. Targets(s) \subseteq ItemId /\ \A i \in Targets(s) : registry[i] # None
  BY DEF Targets
<1>3. hit \subseteq Call
  BY <1>2 DEF IInv, BackendTypeOK
<1>4. new \in SweepRecord
  BY <1>3 DEF IInv, BackendTypeOK, SweepRecord
<1>5. /\ sweep'[s] = new /\ \A x \in Sweep : x # s => sweep'[x] = sweep[x]
      /\ sweep' \in [Sweep -> SweepRecord]
  BY <1>1, <1>4 DEF IInv, BackendTypeOK
<1>6. /\ sweep'[s].pc = "cancelling" /\ sweep'[s].doomed = hit
      /\ sweep'[s].kind = sweep[s].kind
  BY <1>5 DEF IInv, BackendTypeOK, SweepRecord
<1> HIDE DEF new
<1>7. registry' \in [ItemId -> Call \cup {None}]
  BY <1>1 DEF IInv, BackendTypeOK
<1>8. BackendTypeOK'
  BY <1>1, <1>5, <1>7 DEF IInv, BackendTypeOK
<1>9. Registered' /\ CallsOK'
  BY <1>1 DEF IInv, Registered, CallsOK
<1>10. SweepsOK'
  BY <1>1, <1>5, <1>6 DEF IInv, SweepsOK
<1>11. Tracked' = Tracked
  BY <1>1 DEF Tracked, InProgress
<1>12. NoDownloadEscapes'
  <2>1. \A d \in Call : Doomed(d) => Doomed(d)'
    BY <1>1, <1>5, DoomedStays DEF IInv, SweepsOK
  <2>2. \A d \in Call : d \in hit => Doomed(d)'
    BY <1>6 DEF Doomed
  <2>3. \A d \in Call : call[d].tracked => call[d].item \in ItemId
    BY DEF IInv, CallsOK, Begun
  <2>4. \A i \in ItemId : registry'[i] = registry[i] \/ registry[i] \in hit
    BY <1>1
  <2> QED
    BY <1>1, <1>9, <2>1, <2>2, <2>3, <2>4, NobodyEscapes
<1> QED
  BY <1>1, <1>8, <1>9, <1>10, <1>11, <1>12 DEF IInv, WaitGroupCounts

\* A sweep cancels one of the calls it took out of the registry.
LEMMA CancelOneInv ==
  ASSUME IInv, NEW s \in Sweep, NEW c \in Call, CancelOne(s, c)
  PROVE  IInv'
<1> DEFINE new == [sweep[s] EXCEPT !.doomed = @ \ {c}]
<1>1. /\ sweep[s].pc = "cancelling" /\ sweep' = [sweep EXCEPT ![s] = new]
      /\ cancelled' = cancelled \cup {c}
      /\ UNCHANGED <<items, call, registry, activeWG, writing, shuttingDown, historyOpen>>
  BY DEF CancelOne
<1>2. new \in SweepRecord
  BY DEF IInv, BackendTypeOK, SweepRecord
<1>3. /\ sweep'[s] = new /\ \A x \in Sweep : x # s => sweep'[x] = sweep[x]
      /\ sweep' \in [Sweep -> SweepRecord]
  BY <1>1, <1>2 DEF IInv, BackendTypeOK
<1>4. /\ sweep'[s].pc = "cancelling" /\ sweep'[s].kind = sweep[s].kind
      /\ sweep'[s].doomed = sweep[s].doomed \ {c}
  BY <1>1, <1>3 DEF IInv, BackendTypeOK, SweepRecord
<1> HIDE DEF new
<1>5. BackendTypeOK' /\ Registered' /\ CallsOK'
  BY <1>1, <1>3 DEF IInv, BackendTypeOK, Registered, CallsOK
<1>6. SweepsOK'
  BY <1>1, <1>3, <1>4 DEF IInv, SweepsOK
<1>7. Tracked' = Tracked
  BY <1>1 DEF Tracked, InProgress
<1>8. \A d \in Call : Doomed(d) => Doomed(d)'
  BY <1>1, <1>3, <1>4, DoomedStays
<1>9. NoDownloadEscapes'
  BY <1>1, <1>5, <1>8, NobodyEscapes
<1> QED
  BY <1>1, <1>5, <1>6, <1>7, <1>9 DEF IInv, WaitGroupCounts

\* Wait returns when no tracked call and no write is left.
LEMMA SweptInv ==
  ASSUME IInv, NEW s \in Sweep, Swept(s) \/ ClearAllDownloads(s) \/ CloseHistoryDB(s)
  PROVE  IInv'
<1>1. PICK p \in {"quiet", "done"} :
        /\ sweep' = [sweep EXCEPT ![s].pc = p]
        /\ sweep[s].pc \in {"cancelling", "quiet"} /\ sweep[s].doomed = {}
        /\ sweep[s].kind = "shutdown" =>
             \/ p = "quiet" /\ activeWG = 0
             \/ sweep[s].pc = "quiet"
  <2>1. CASE Swept(s)
    BY <2>1 DEF Swept
  <2>2. CASE ClearAllDownloads(s)
    BY <2>2 DEF ClearAllDownloads, IInv, SweepsOK
  <2>3. CASE CloseHistoryDB(s)
    BY <2>3 DEF CloseHistoryDB, IInv, SweepsOK
  <2> QED
    BY <2>1, <2>2, <2>3
<1>2. /\ items' \in [ItemId -> {"absent"} \cup Unfinished \cup Terminal]
      /\ historyOpen' \in BOOLEAN
      /\ UNCHANGED <<call, registry, cancelled, activeWG, writing, shuttingDown>>
  BY DEF Swept, ClearAllDownloads, CloseHistoryDB, IInv, BackendTypeOK
<1> DEFINE new == [sweep[s] EXCEPT !.pc = p]
<1>3. new \in SweepRecord
  BY DEF IInv, BackendTypeOK, SweepRecord
<1>4. /\ sweep'[s] = new /\ \A x \in Sweep : x # s => sweep'[x] = sweep[x]
      /\ sweep' \in [Sweep -> SweepRecord]
  BY <1>1, <1>3 DEF IInv, BackendTypeOK
<1>5. /\ sweep'[s].pc = p /\ sweep'[s].kind = sweep[s].kind
      /\ sweep'[s].doomed = {}
  BY <1>1, <1>4 DEF IInv, BackendTypeOK, SweepRecord
<1> HIDE DEF new
<1>6. BackendTypeOK' /\ Registered' /\ CallsOK'
  BY <1>2, <1>4 DEF IInv, BackendTypeOK, Registered, CallsOK
<1>7. activeWG = 0 => writing = {} /\ \A c \in Call : ~call[c].tracked
  <2>1. SUFFICES ASSUME activeWG = 0 PROVE Tracked = {} /\ writing = {}
    BY TrackedAre DEF IInv
  <2>2. Cardinality(Tracked) = 0 /\ Cardinality(writing) = 0
    BY <2>1, CountType DEF IInv, WaitGroupCounts
  <2> QED
    BY <2>2, CountType, FS_EmptySet
<1>8. SweepsOK'
  BY <1>1, <1>2, <1>4, <1>5, <1>7 DEF IInv, SweepsOK
<1>9. Tracked' = Tracked
  BY <1>2 DEF Tracked, InProgress
<1>10. NoDownloadEscapes'
  <2>1. \A d \in Call : Doomed(d) => Doomed(d)'
    BY <1>1, <1>2, <1>4, <1>5, DoomedStays
  <2> QED
    BY <1>2, <1>6, <2>1, NobodyEscapes
<1> QED
  BY <1>2, <1>6, <1>8, <1>9, <1>10 DEF IInv, WaitGroupCounts

\* A call about the history, which opens it, touches no download.
LEMMA UseHistoryInv ==
  ASSUME IInv, UseHistory
  PROVE  IInv'
  BY DEF UseHistory, IInv, BackendTypeOK, Registered, CallsOK, SweepsOK,
         WaitGroupCounts, NoDownloadEscapes, Tracked, InProgress, Doomed, At

-----------------------------------------------------------------------------
\* Every step keeps the invariant.
LEMMA NextInv == IInv /\ [Next]_vars => IInv'
<1> SUFFICES ASSUME IInv, [Next]_vars PROVE IInv'
  OBVIOUS
<1>1. ASSUME NEW c \in Call, HandlerStep(c) PROVE IInv'
  <2>1. CASE \/ BeginRefused(c) \/ CancelPrevious(c) \/ StartDownloadItem(c)
             \/ SettleResult(c) \/ CheckContext(c)
             \/ \E moved \in BOOLEAN : Report(c, moved)
    BY <2>1, HandlerMoves, MoveInv
  <2> QED
    BY <1>1, <2>1, BeginInv, AddHistoryInv, CleanupInv DEF HandlerStep
<1>2. ASSUME NEW s \in Sweep, SweepStep(s) PROVE IInv'
  BY <1>2, CollectInv, CancelOneInv, SweptInv DEF SweepStep
<1>3. CASE Next
  BY <1>1, <1>2, <1>3, ItemInv, ArriveInv, ReturnInv, WriteHistoryInv, StartSweepInv,
     UseHistoryInv
     DEF Next
<1>4. CASE UNCHANGED vars
  BY <1>4 DEF vars, IInv, BackendTypeOK, Registered, CallsOK, SweepsOK,
              WaitGroupCounts, NoDownloadEscapes, Tracked, InProgress, Doomed, At
<1> QED
  BY <1>3, <1>4

\* Every reachable state satisfies the invariant.
THEOREM Invariant == Spec => []IInv
  BY InitInv, NextInv, PTL DEF Spec

\* Every variable keeps its type.
THEOREM TypeCorrect == Spec => []BackendTypeOK
  BY Invariant, PTL DEF IInv

\* The wait group counts the running calls and the history writes, however
\* many calls replace one another.
THEOREM WaitGroupIsExact == Spec => []WaitGroupCounts
  BY Invariant, PTL DEF IInv

\* A running call that lost its entry is cancelled, or is about to be.
THEOREM NobodyEscapesAStop == Spec => []NoDownloadEscapes
  BY Invariant, PTL DEF IInv

\* When shutdown has closed the history no download is in progress, none has
\* its file to record and no write is under way, for any number of calls and
\* sweeps; nothing is said of the calls about the history itself.
THEOREM ClosedAfterTheLastWrite == Spec => []NoDownloadWritesAfterClose
<1>1. IInv => NoDownloadWritesAfterClose
  BY TrackedAre DEF IInv, CallsOK, SweepsOK, NoDownloadWritesAfterClose, At
<1> QED
  BY <1>1, Invariant, PTL
=============================================================================
