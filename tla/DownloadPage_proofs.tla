------------------------ MODULE DownloadPage_proofs ------------------------
(***************************************************************************)
(* Proofs about DownloadPage.  The invariant says that everything the page *)
(* holds is about jobs of this session (Held), which lie between base and  *)
(* the newest one, and that a row which may be redownloaded is that of a   *)
(* job that ended as a problem (RowsOK): such a job never changes again,   *)
(* so an idle callback that keeps the row gives it a request once more.    *)
(* A new session raises base past all jobs, which is why it may only begin *)
(* when no callback is left that holds an older one (Stopped).             *)
(* That a replaced row stays rests on the callbacks of a queue being       *)
(* chained: the snapshot of a later one holds every job of an earlier one, *)
(* and of a row that is shown, that is still listed (Snapshots).           *)
(* The page passes over a callback with as many jobs as it counted last.   *)
(* That none is missed (NoJobIsMissed) rests on these being the same jobs  *)
(* (Counted): the jobs of a queue only grow until its history is cleared,  *)
(* and then counting starts anew, which is right unless a callback waits   *)
(* with cleared jobs (disturbed).  The jobs of a queue that no longer runs *)
(* are reported, or wait in its newest callback (Waiting).                 *)
(* That a playlist's file is current rests on a new job for a track coming *)
(* only when none is live (OneLive): what clearing leaves is live, hence   *)
(* newer than all that was reported of its track, so that a later callback *)
(* never replaces a file by an older one (Newest, FileOf).                 *)
(***************************************************************************)
EXTENDS DownloadPage, FiniteSetTheorems, SequenceTheorems,
        WellFoundedInduction, TLAPS

(* The order of the naturals is well-founded. *)
LEMMA LessThan ==
  \E R : IsWellFoundedOn(R, Nat) /\ \A x, y \in Nat : <<x, y>> \in R <=> x < y
<1> DEFINE R == {p \in Nat \X Nat : p[1] < p[2]}
<1>1. R = OpToRel(<, Nat)
  BY DEF OpToRel
<1>2. IsWellFoundedOn(R, Nat)
  BY <1>1, NatLessThanWellFounded
<1>3. \A x, y \in Nat : <<x, y>> \in R <=> x < y
  OBVIOUS
<1> QED
  BY <1>2, <1>3

(* A non-empty set of bounded naturals has its greatest member. *)
LEMMA MaxIsMember ==
  ASSUME NEW n \in Nat, NEW F, F \subseteq 0 .. n, F # {}
  PROVE  Max(F) \in F /\ \A k \in F : Max(F) >= k
<1> DEFINE T == {k \in Nat : n - k \in F}
<1>1. PICK R : IsWellFoundedOn(R, Nat) /\ \A x, y \in Nat : <<x, y>> \in R <=> x < y
  BY LessThan
<1>2. T \subseteq Nat /\ T # {}
  <2>1. PICK x \in F : TRUE
    OBVIOUS
  <2>2. x \in 0 .. n
    BY <2>1
  <2>3. n - x \in Nat /\ n - (n - x) = x
    BY <2>2
  <2> QED
    BY <2>1, <2>3
<1>3. PICK t \in T : \A y \in T : ~(<<y, t>> \in R)
  <2> HIDE DEF T
  <2>1. IsWellFoundedOn(R, Nat)
    BY <1>1
  <2>2. T \subseteq Nat
    BY <1>2
  <2>3. T # {}
    BY <1>2
  <2> QED
    BY <2>1, <2>2, <2>3, WFMin, Zenon
<1>5. ASSUME NEW y \in F PROVE n - t >= y
  <2>1. y \in 0 .. n
    OBVIOUS
  <2>2. n - y \in T
    BY <2>1
  <2>3. ~(n - y < t) /\ t \in Nat
    BY <1>1, <1>2, <1>3, <2>2
  <2> QED
    BY <2>1, <2>3
<1>6. n - t \in F
  OBVIOUS
<1> QED
  BY <1>5, <1>6 DEF Max

-----------------------------------------------------------------------------
(* The invariant.                                                          *)

Session == base .. Len(jobs)

Statuses == Outcome \cup {"live", "unavailable", "replaced"}

Rows == UNION {[D -> [status : Statuses, retryable : BOOLEAN]] : D \in SUBSET Nat}

JobsOK ==
  /\ jobs \in Seq({jobs[j] : j \in Ids})
  /\ \A j \in Ids : "status" \in DOMAIN jobs[j] /\ jobs[j].status \in Statuses
  /\ base \in 1 .. Len(jobs) + 1 /\ listed \subseteq Session

WorkOK ==
  /\ work \in [Queue -> Seq(SUBSET Nat)]
  /\ \A q \in Queue : \A i \in DOMAIN work[q] : work[q][i] \subseteq Session

Held ==
  /\ summary \in [queue : Queue \cup {NoQueue}, generation : Nat, rows : Rows]
  /\ DOMAIN summary.rows \subseteq Session
  /\ requests \in [Queue -> SUBSET Session]
  /\ paths \in [Queue -> [Track -> {0} \cup Session]]

RowsOK == \A r \in DOMAIN summary.rows :
            summary.rows[r].retryable => jobs[r].status = "problem"

IInv == JobsOK /\ WorkOK /\ Held /\ RowsOK /\ OfferedRowsHaveRequests

(* The invariant holds before anything is enqueued. *)
LEMMA InitInv == ASSUME Init PROVE IInv
<1> USE DEF Init
<1>1. JobsOK
  BY DEF JobsOK, Ids, Session
<1>2. WorkOK
  BY DEF WorkOK
<1>3. Held /\ RowsOK
  <2>1. <<>> \in [{} -> [status : Statuses, retryable : BOOLEAN]]
    OBVIOUS
  <2>2. <<>> \in Rows /\ DOMAIN <<>> = {}
    BY <2>1 DEF Rows
  <2> QED
    BY <2>2 DEF Held, RowsOK, NoSummary, NoPaths
<1>4. OfferedRowsHaveRequests
  BY DEF OfferedRowsHaveRequests, NoSummary
<1> QED
  BY <1>1, <1>2, <1>3, <1>4 DEF IInv

-----------------------------------------------------------------------------
(* Enqueueing.                                                             *)

(* The jobs there are stay as they are, and as listed as they are.         *)
OlderJobsStay ==
  /\ Len(jobs) <= Len(jobs') /\ listed' \cap Ids \subseteq listed
  /\ \A j \in Ids : jobs'[j] = jobs[j]

(* A batch of finitely many tracks becomes finitely many jobs. *)
LEMMA AddedLength ==
  ASSUME NEW q, NEW T, IsFiniteSet(T), NEW policy
  PROVE  \E m \in Nat : DOMAIN Added(q, T, policy) = 1 .. m
<1> DEFINE A == {t \in T : LET j == Latest(q, t) IN
                   j = 0 \/ (policy = "retry-terminal" /\ jobs[j].status # "live")}
<1>1. A \subseteq T
  OBVIOUS
<1> HIDE DEF A
<1>2. Cardinality(A) \in Nat
  BY <1>1, FS_Subset, FS_CardinalityType
<1>3. DOMAIN Added(q, T, policy) = 1 .. Cardinality(A)
  BY DEF Added, A
<1> QED
  BY <1>2, <1>3

(* The rows of a summary have finitely many tracks. *)
LEMMA TracksOfRows ==
  ASSUME JobsOK, NEW R, R \subseteq Session
  PROVE  IsFiniteSet({jobs[r].track : r \in R})
<1> DEFINE f == [r \in R |-> jobs[r].track]
           T == {jobs[r].track : r \in R}
<1>1. IsFiniteSet(R)
  <2>1. Len(jobs) \in Int /\ base \in Int
    BY DEF JobsOK
  <2> QED
    BY <2>1, FS_Interval, FS_Subset DEF Session
<1>2. f \in Surjection(R, T)
  BY DEF Surjection
<1> QED
  BY <1>1, <1>2, FS_Surjection

(* A callback that is scheduled waits with jobs of the session. *)
LEMMA Scheduled ==
  ASSUME JobsOK, WorkOK, NEW Q, ScheduleQueueIdle(Q), JobsOK',
         base' = base, Len(jobs) <= Len(jobs')
  PROVE  WorkOK'
<1>1. Session \subseteq Session' /\ Session' \subseteq Nat /\ listed' \subseteq Session'
  BY DEF JobsOK, Session
<1>2. ASSUME NEW q \in Queue
      PROVE  /\ work'[q] \in Seq(SUBSET Nat)
             /\ \A i \in DOMAIN work'[q] : work'[q][i] \subseteq Session'
  <2> DEFINE S == {j \in listed' : jobs'[j].queue = q}
  <2>1. S \subseteq Session'
    BY <1>1
  <2> HIDE DEF S
  <2>2. work[q] \in Seq(SUBSET Nat) /\ \A i \in DOMAIN work[q] : work[q][i] \subseteq Session'
    BY <1>1 DEF WorkOK
  <2>3. work'[q] = IF q \in Q THEN Append(work[q], S) ELSE work[q]
    BY DEF ScheduleQueueIdle, S
  <2>4. CASE q \in Q
    <3>1. S \in SUBSET Nat /\ work'[q] = Append(work[q], S)
      BY <1>1, <2>1, <2>3, <2>4
    <3>2. work'[q] \in Seq(SUBSET Nat)
      BY <2>2, <3>1
    <3>3. ASSUME NEW i \in DOMAIN work'[q] PROVE work'[q][i] \subseteq Session'
      <4>1. work'[q][i] = S \/ (i \in DOMAIN work[q] /\ work'[q][i] = work[q][i])
        BY <2>2, <3>1
      <4> QED
        BY <2>1, <2>2, <4>1
    <3> QED
      BY <3>2, <3>3
  <2>5. CASE q \notin Q
    BY <2>2, <2>3, <2>5
  <2> QED
    BY <2>4, <2>5
<1>3. work' \in [Queue -> Seq(SUBSET Nat)]
  BY <1>2 DEF ScheduleQueueIdle
<1> QED
  BY <1>2, <1>3 DEF WorkOK

(* The page's own state is not disturbed by jobs that come or end. *)
LEMMA HeldOn ==
  ASSUME JobsOK, Held, RowsOK, base' = base, Len(jobs) <= Len(jobs'), JobsOK',
         \A r \in Ids : jobs[r].status = "problem" => jobs'[r].status = "problem",
         UNCHANGED <<summary, requests, paths>>
  PROVE  Held' /\ RowsOK'
<1>1. Session \subseteq Session' /\ Session \subseteq Ids
  BY DEF JobsOK, Session, Ids
<1>2. Held'
  <2>1. requests \in [Queue -> SUBSET Session'] /\ paths \in [Queue -> [Track -> {0} \cup Session']]
    BY <1>1 DEF Held
  <2> QED
    BY <1>1, <2>1 DEF Held
<1>3. RowsOK'
  BY <1>1 DEF Held, RowsOK
<1> QED
  BY <1>2, <1>3

(* New jobs come after the others. *)
LEMMA Enqueued ==
  ASSUME IInv, NEW new, NEW m \in Nat, DOMAIN new = 1 .. m, new \in Seq({new[n] : n \in 1 .. m}),
         \A n \in 1 .. m : "status" \in DOMAIN new[n] /\ new[n].status \in Statuses,
         EnqueueMany(new), NEW q, NotifyQueueIdleIfSettled(q),
         UNCHANGED <<pageVars, sessionVars>>
  PROVE  IInv' /\ OlderJobsStay
<1> DEFINE X == {jobs[j] : j \in Ids} \cup {new[n] : n \in 1 .. m}
<1>0. Len(new) = m /\ Len(jobs) \in Nat
  BY DEF IInv, JobsOK
<1>1. jobs \in Seq(X) /\ new \in Seq(X)
  BY DEF IInv, JobsOK
<1> HIDE DEF X
<1>2. jobs' = jobs \o new /\ listed' = listed \cup (Len(jobs) + 1 .. Len(jobs) + Len(new))
  BY DEF EnqueueMany
<1>3. /\ jobs' \in Seq(X) /\ Len(jobs') = Len(jobs) + m
      /\ \A j \in Ids : jobs'[j] = jobs[j]
      /\ \A j \in 1 .. Len(jobs') : j \notin Ids => jobs'[j] = new[j - Len(jobs)] /\ j - Len(jobs) \in 1 .. m
  <2>1. jobs' \in Seq(X) /\ Len(jobs') = Len(jobs) + m
    <3>1. jobs \o new \in Seq(X) /\ Len(jobs \o new) = Len(jobs) + Len(new)
      BY <1>1, ConcatProperties
    <3> QED
      BY <1>0, <1>2, <3>1
  <2>2. ASSUME NEW j \in 1 .. Len(jobs) + m
        PROVE  jobs'[j] = IF j <= Len(jobs) THEN jobs[j] ELSE new[j - Len(jobs)]
    BY <1>0, <1>1, <1>2
  <2> QED
    BY <1>0, <2>1, <2>2 DEF Ids
<1>4. jobs' \in Seq({jobs'[j] : j \in 1 .. Len(jobs')})
  BY <1>3
<1>5. JobsOK'
  <2>1. ASSUME NEW j \in 1 .. Len(jobs')
        PROVE  "status" \in DOMAIN jobs'[j] /\ jobs'[j].status \in Statuses
    <3>1. CASE j \in Ids
      BY <1>3, <3>1 DEF IInv, JobsOK
    <3>2. CASE j \notin Ids
      BY <1>3, <3>2
    <3> QED
      BY <3>1, <3>2
  <2>2. base' \in 1 .. Len(jobs') + 1 /\ listed' \subseteq Session'
    <3>1. base' = base /\ base \in 1 .. Len(jobs) + 1 /\ listed \subseteq Session
      BY DEF IInv, JobsOK, sessionVars
    <3>2. Session \subseteq Session'
      BY <1>0, <1>3, <3>1 DEF Session
    <3>3. Len(jobs) + 1 .. Len(jobs) + m \subseteq Session'
      BY <1>0, <1>3, <3>1 DEF Session
    <3> QED
      BY <1>0, <1>2, <1>3, <3>1, <3>2, <3>3
  <2> QED
    BY <1>4, <2>1, <2>2 DEF JobsOK, Ids
<1>6. WorkOK'
  BY <1>0, <1>3, <1>5, Scheduled DEF IInv, NotifyQueueIdleIfSettled, sessionVars
<1>7. Held' /\ RowsOK'
  BY <1>0, <1>3, <1>5, HeldOn DEF IInv, pageVars, sessionVars
<1>8. OfferedRowsHaveRequests'
  BY DEF IInv, OfferedRowsHaveRequests, Eligible, pageVars
<1>9. OlderJobsStay
  BY <1>0, <1>2, <1>3 DEF OlderJobsStay, Ids
<1> QED
  BY <1>5, <1>6, <1>7, <1>8, <1>9 DEF IInv

(* A batch and a retry. *)
LEMMA EnqueueInv ==
  ASSUME IInv, NEW b \in Batches, NEW policy, Enqueue(b.queue, b.tracks, policy)
  PROVE  IInv' /\ OlderJobsStay
<1> DEFINE q == b.queue
           added == Added(q, b.tracks, policy)
           new == [n \in DOMAIN added |-> SpotifyJob(q, added[n])]
<1>1. PICK m \in Nat : DOMAIN added = 1 .. m
  BY BatchAssumption, AddedLength
<1>2. EnqueueMany(new) /\ NotifyQueueIdleIfSettled(q)
  BY DEF Enqueue
<1>3. UNCHANGED <<pageVars, sessionVars>>
  BY DEF Enqueue
<1> HIDE DEF added
<1>4. /\ DOMAIN new = 1 .. m
      /\ \A n \in 1 .. m : "status" \in DOMAIN new[n] /\ new[n].status \in Statuses
  <2>1. ASSUME NEW t PROVE "status" \in DOMAIN SpotifyJob(q, t) /\ SpotifyJob(q, t).status \in Statuses
    BY DEF SpotifyJob, Statuses
  <2>2. DOMAIN new = 1 .. m /\ \A n \in 1 .. m : new[n] = SpotifyJob(q, added[n])
    BY <1>1
  <2> QED
    BY <2>1, <2>2
<1> HIDE DEF new
<1>5. new \in Seq({new[n] : n \in 1 .. m})
  <2>1. new = [n \in 1 .. m |-> new[n]]
    BY <1>1 DEF new
  <2> QED
    BY <2>1
<1> QED
  BY <1>2, <1>3, <1>4, <1>5, Enqueued

(* Redownloads. *)
LEMMA RetryInv ==
  ASSUME IInv, NEW S \in SUBSET DOMAIN summary.rows, RetryFromYouTube(S)
  PROVE  IInv' /\ OlderJobsStay
<1> DEFINE q == summary.queue
           R == S \cap requests[q]
           T == {jobs[r].track : r \in R}
           added == Added(q, T, "retry-terminal")
           RowOf(t) == CHOOSE r \in S : jobs[r].track = t
           new == [n \in DOMAIN added |->
                    [queue |-> q, kind |-> "youtube", track |-> added[n], row |-> RowOf(added[n]),
                     generation |-> summary.generation, status |-> "live"]]
<1>1. PICK m \in Nat : DOMAIN added = 1 .. m
  <2>1. R \subseteq Session
    BY DEF IInv, Held
  <2>2. IsFiniteSet(T)
    BY <2>1, TracksOfRows DEF IInv
  <2> HIDE DEF T
  <2> QED
    BY <2>2, AddedLength
<1>2. EnqueueMany(new) /\ NotifyQueueIdleIfSettled(q)
  BY DEF RetryFromYouTube
<1>3. UNCHANGED <<pageVars, sessionVars>>
  BY DEF RetryFromYouTube
<1> HIDE DEF added, RowOf
<1>4. /\ DOMAIN new = 1 .. m
      /\ \A n \in 1 .. m : "status" \in DOMAIN new[n] /\ new[n].status \in Statuses
  <2>1. DOMAIN new = 1 .. m
    BY <1>1
  <2>2. ASSUME NEW n \in 1 .. m
        PROVE  "status" \in DOMAIN new[n] /\ new[n].status = "live"
    BY <1>1
  <2> HIDE DEF new
  <2> QED
    BY <2>1, <2>2 DEF Statuses
<1>5. new \in Seq({new[n] : n \in 1 .. m})
  <2>1. new = [n \in 1 .. m |-> new[n]]
    BY <1>1
  <2> HIDE DEF new
  <2> QED
    BY <2>1
<1> HIDE DEF new, q
<1> QED
  BY <1>2, <1>3, <1>4, <1>5, Enqueued

-----------------------------------------------------------------------------
(* Jobs end.                                                               *)

(* Live jobs end, and what the page holds is not touched. *)
LEMMA EndsInv ==
  ASSUME IInv, NEW S, \A j \in S : jobs[j].status = "live",
         NEW status \in Statuses, Ends(S, status), base' = base
  PROVE  /\ JobsOK' /\ WorkOK' /\ Len(jobs') = Len(jobs)
         /\ \A r \in Ids : jobs[r].status = "problem" => jobs'[r].status = "problem"
<1>1. Len(jobs) \in Nat /\ DOMAIN jobs = Ids
  BY DEF IInv, JobsOK, Ids
<1>2. jobs' = [j \in Ids |-> IF j \in S THEN [jobs[j] EXCEPT !.status = status] ELSE jobs[j]]
  BY DEF Ends
<1>3. Len(jobs') = Len(jobs) /\ jobs' \in Seq({jobs'[j] : j \in Ids})
  BY <1>1, <1>2 DEF Ids
<1>4. ASSUME NEW j \in Ids
      PROVE  "status" \in DOMAIN jobs'[j] /\ jobs'[j].status \in Statuses
  BY <1>2 DEF IInv, JobsOK
<1>5. JobsOK'
  BY <1>3, <1>4 DEF IInv, JobsOK, Ids, Session, Ends
<1>6. WorkOK'
  BY <1>1, <1>3, <1>5, Scheduled DEF IInv, Ends
<1>7. ASSUME NEW r \in Ids, jobs[r].status = "problem" PROVE jobs'[r].status = "problem"
  BY <1>2, <1>7
<1> QED
  BY <1>3, <1>5, <1>6, <1>7

(* So does everything that only ends jobs. *)
LEMMA EndedInv ==
  ASSUME IInv, NEW S, \A j \in S : jobs[j].status = "live",
         NEW status \in Statuses, Ends(S, status), base' = base, UNCHANGED pageVars
  PROVE  IInv'
<1>1. /\ JobsOK' /\ WorkOK' /\ Len(jobs') = Len(jobs)
      /\ \A r \in Ids : jobs[r].status = "problem" => jobs'[r].status = "problem"
  BY EndsInv
<1>2. Len(jobs) \in Nat
  BY DEF IInv, JobsOK
<1>3. Held' /\ RowsOK'
  BY <1>1, <1>2, HeldOn DEF IInv, pageVars
<1>4. OfferedRowsHaveRequests'
  BY DEF IInv, OfferedRowsHaveRequests, Eligible, pageVars
<1> QED
  BY <1>1, <1>3, <1>4 DEF IInv

(* A result from YouTube takes the request of a row with the row. *)
LEMMA YouTubeInv ==
  ASSUME IInv, NEW j, YouTubeEnds(j)
  PROVE  IInv'
<1>1. PICK status \in Outcome :
        /\ Ends({j}, status)
        /\ \/ OnYouTubeResult(j, status)
           \/ status # "completed" /\ UNCHANGED <<summary, requests>>
  BY DEF YouTubeEnds
<1>2. jobs[j].status = "live" /\ UNCHANGED <<paths, forgotten, base>>
  BY DEF YouTubeEnds, sessionVars
<1>3. status \in Statuses
  BY DEF Statuses
<1>4. /\ JobsOK' /\ WorkOK' /\ Len(jobs') = Len(jobs)
      /\ \A r \in Ids : jobs[r].status = "problem" => jobs'[r].status = "problem"
  BY <1>1, <1>2, <1>3, EndsInv
<1>5. Len(jobs) \in Nat /\ Session' = Session /\ Session \subseteq Ids
  BY <1>2, <1>4 DEF IInv, JobsOK, Session, Ids
<1> DEFINE r == jobs[j].row
<1> HIDE DEF r
<1>6. CASE UNCHANGED <<summary, requests>>
  <2>1. Held' /\ RowsOK'
    BY <1>2, <1>4, <1>5, <1>6, HeldOn DEF IInv
  <2>2. OfferedRowsHaveRequests'
    BY <1>2, <1>6 DEF IInv, OfferedRowsHaveRequests, Eligible
  <2> QED
    BY <1>4, <2>1, <2>2 DEF IInv
<1>7. CASE /\ requests' = [requests EXCEPT ![summary.queue] =
                             IF status = "completed" THEN @ \ {r} ELSE @]
           /\ ~(status = "completed" /\ r \in DOMAIN summary.rows /\ summary.rows[r].retryable)
           /\ UNCHANGED summary
  <2>1. requests' \in [Queue -> SUBSET Session]
    BY <1>7 DEF IInv, Held
  <2>2. Held'
    BY <1>2, <1>5, <1>7, <2>1 DEF IInv, Held
  <2>3. RowsOK'
    BY <1>4, <1>5, <1>7 DEF IInv, Held, RowsOK
  <2>4. OfferedRowsHaveRequests'
    BY <1>2, <1>7 DEF IInv, Held, OfferedRowsHaveRequests, Eligible
  <2> QED
    BY <1>4, <2>2, <2>3, <2>4 DEF IInv
<1>8. CASE /\ requests' = [requests EXCEPT ![summary.queue] = @ \ {r}]
           /\ r \in DOMAIN summary.rows
           /\ summary' = [summary EXCEPT !.rows[r].status = "replaced",
                                         !.rows[r].retryable = FALSE]
  <2> DEFINE row == [status |-> "replaced", retryable |-> FALSE]
  <2>1. PICK D \in SUBSET Nat : summary.rows \in [D -> [status : Statuses, retryable : BOOLEAN]]
    BY DEF IInv, Held, Rows
  <2>2. summary'.rows = [summary.rows EXCEPT ![r] = row]
    <3> DEFINE s == [summary EXCEPT !.rows[r].status = "replaced"]
    <3>1. s.rows = [summary.rows EXCEPT ![r].status = "replaced"] /\ DOMAIN s = DOMAIN summary
      BY DEF IInv, Held
    <3>2. summary' = [s EXCEPT !.rows[r].retryable = FALSE]
      BY <1>8
    <3>3. summary'.rows = [s.rows EXCEPT ![r].retryable = FALSE]
      <4> HIDE DEF s
      <4> QED
        BY <3>1, <3>2 DEF IInv, Held
    <3>4. r \in D /\ summary.rows[r] \in [status : Statuses, retryable : BOOLEAN]
      BY <1>8, <2>1
    <3>5. ASSUME NEW x \in [status : Statuses, retryable : BOOLEAN]
          PROVE  [[x EXCEPT !.status = "replaced"] EXCEPT !.retryable = FALSE] = row
      <4>1. x = [status |-> x.status, retryable |-> x.retryable]
        OBVIOUS
      <4>2. [x EXCEPT !.status = "replaced"] = [status |-> "replaced", retryable |-> x.retryable]
        BY <4>1
      <4>3. ASSUME NEW b, NEW v
            PROVE  [[status |-> "replaced", retryable |-> b] EXCEPT !.retryable = v]
                     = [status |-> "replaced", retryable |-> v]
        OBVIOUS
      <4>4. [[status |-> "replaced", retryable |-> x.retryable] EXCEPT !.retryable = FALSE] = row
        BY <4>3, Zenon
      <4> HIDE DEF row
      <4> QED
        BY <4>2, <4>4
    <3> HIDE DEF s
    <3>6. s.rows[r] = [summary.rows[r] EXCEPT !.status = "replaced"] /\ DOMAIN s.rows = D
      BY <2>1, <3>1, <3>4
    <3> HIDE DEF row
    <3> QED
      BY <2>1, <3>1, <3>3, <3>4, <3>5, <3>6
  <2>3. /\ summary'.queue = summary.queue /\ summary'.generation = summary.generation
        /\ summary' = [queue |-> summary.queue, generation |-> summary.generation,
                       rows |-> summary'.rows]
    BY <1>8 DEF IInv, Held
  <2>4. summary'.rows \in [D -> [status : Statuses, retryable : BOOLEAN]]
    <3>1. row \in [status : Statuses, retryable : BOOLEAN]
      BY DEF Statuses
    <3> HIDE DEF row
    <3> QED
      BY <2>1, <2>2, <3>1
  <2>5. Held'
    <3>1. summary'.rows \in Rows
      BY <2>4 DEF Rows
    <3>2. summary' \in [queue : Queue \cup {NoQueue}, generation : Nat, rows : Rows]
      BY <2>3, <3>1 DEF IInv, Held
    <3>3. requests' \in [Queue -> SUBSET Session]
      BY <1>8 DEF IInv, Held
    <3>4. DOMAIN summary'.rows \subseteq Session
      BY <2>2 DEF IInv, Held
    <3> QED
      BY <1>2, <1>5, <3>2, <3>3, <3>4 DEF IInv, Held
  <2>6. RowsOK'
    BY <1>4, <1>5, <2>1, <2>2 DEF IInv, Held, RowsOK
  <2>7. OfferedRowsHaveRequests'
    <3>1. ASSUME NEW k \in Eligible(summary'.rows) PROVE k \in Eligible(summary.rows) /\ k # r
      BY <2>1, <2>2 DEF Eligible
    <3> QED
      BY <1>2, <1>8, <2>3, <3>1 DEF IInv, Held, OfferedRowsHaveRequests
  <2> QED
    BY <1>4, <2>5, <2>6, <2>7 DEF IInv
<1>9. \/ UNCHANGED <<summary, requests>>
      \/ /\ summary.queue = jobs[j].queue
         /\ requests' = [requests EXCEPT ![summary.queue] =
                           IF status = "completed" THEN @ \ {r} ELSE @]
         /\ IF status = "completed" /\ r \in DOMAIN summary.rows /\ summary.rows[r].retryable
            THEN summary' = [summary EXCEPT !.rows[r].status = "replaced",
                                            !.rows[r].retryable = FALSE]
            ELSE UNCHANGED summary
  BY <1>1 DEF OnYouTubeResult, Fulfils, r
<1> QED
  BY <1>6, <1>7, <1>8, <1>9

-----------------------------------------------------------------------------
(* An idle callback.                                                       *)

(* The jobs of this session are among all jobs. *)
LEMMA SessionJobs ==
  ASSUME JobsOK
  PROVE  Len(jobs) \in Nat /\ Session \subseteq Ids /\ Session \subseteq Nat /\ Session \subseteq 0 .. Len(jobs)
<1>1. Len(jobs) \in Nat /\ base \in 1 .. Len(jobs) + 1
  BY DEF JobsOK
<1> QED
  BY <1>1 DEF Session, Ids

(* The rows of a snapshot, merged or new, are rows of this session's jobs. *)
LEMMA SummarizeRows ==
  ASSUME IInv, NEW q \in Queue, NEW S, S \subseteq Session,
         Summarize(q, [j \in LatestTerminalQueueJobs(S) |-> Row(j)])
  PROVE  /\ summary' \in [queue : Queue \cup {NoQueue}, generation : Nat, rows : Rows]
         /\ summary'.queue = q
         /\ DOMAIN summary'.rows \subseteq Session
         /\ \A r \in DOMAIN summary'.rows :
              summary'.rows[r].retryable => jobs[r].status = "problem"
<1> DEFINE D == LatestTerminalQueueJobs(S)
           fresh == [j \in D |-> Row(j)]
           RowType == [status : Statuses, retryable : BOOLEAN]
<1>1. D \subseteq S /\ D \in SUBSET Nat /\ D \subseteq Ids
  <2>1. D \subseteq S
    BY DEF LatestTerminalQueueJobs
  <2> QED
    BY <2>1, SessionJobs DEF IInv
<1> HIDE DEF D
<1>2. ASSUME NEW j \in D PROVE Row(j) \in RowType
  <2>1. jobs[j].status \in Statuses
    BY <1>1 DEF IInv, JobsOK
  <2>2. (jobs[j].status = "problem") \in BOOLEAN
    OBVIOUS
  <2>3. (IF jobs[j].status = "unavailable" THEN "problem" ELSE jobs[j].status) \in Statuses
    BY <2>1 DEF Statuses, Outcome
  <2> QED
    BY <2>2, <2>3, Zenon DEF Row
<1>3. ASSUME NEW j \in D, Row(j).retryable PROVE jobs[j].status = "problem"
  BY <1>3 DEF Row
<1>4. fresh \in [D -> RowType]
  BY <1>2
<1>5. CASE summary.queue = q
  <2> DEFINE merged == MergeQueueSummary(fresh)
  <2>1. merged = [j \in D |-> IF j \in DOMAIN summary.rows THEN summary.rows[j] ELSE Row(j)]
    BY DEF MergeQueueSummary
  <2>2. summary' = [summary EXCEPT !.rows = merged]
    BY <1>5 DEF Summarize, D
  <2>3. PICK E \in SUBSET Nat : summary.rows \in [E -> RowType]
    BY DEF IInv, Held, Rows
  <2> HIDE DEF merged, fresh, RowType
  <2>4. merged \in [D -> RowType]
    BY <1>2, <2>1, <2>3
  <2>5. merged \in Rows
    BY <1>1, <2>4 DEF Rows, RowType
  <2>6. summary' = [queue |-> q, generation |-> summary.generation, rows |-> merged]
    BY <1>5, <2>2 DEF IInv, Held
  <2>7. ASSUME NEW r \in D, merged[r].retryable PROVE jobs[r].status = "problem"
    BY <1>3, <2>1, <2>7 DEF IInv, RowsOK
  <2>8. summary.generation \in Nat
    BY DEF IInv, Held
  <2> QED
    BY <1>1, <2>4, <2>5, <2>6, <2>7, <2>8
<1>6. CASE summary.queue # q
  <2>1. summary' = [queue |-> q, generation |-> summary.generation + 1, rows |-> fresh]
    BY <1>6 DEF Summarize, D
  <2>2. fresh \in Rows
    BY <1>1, <1>4 DEF Rows
  <2>3. \A r \in D : fresh[r] = Row(r)
    OBVIOUS
  <2> HIDE DEF fresh, RowType
  <2>4. ASSUME NEW r \in D, fresh[r].retryable PROVE jobs[r].status = "problem"
    BY <1>3, <2>3, <2>4
  <2>5. summary.generation + 1 \in Nat
    BY DEF IInv, Held
  <2> QED
    BY <1>1, <1>4, <2>1, <2>2, <2>4, <2>5
<1> QED
  BY <1>5, <1>6

(* The newest files are those of this session's jobs. *)
LEMMA NewPathsType ==
  ASSUME IInv, NEW q \in Queue, NEW S, S \subseteq Session
  PROVE  NewPaths(q, S) \in [Track -> {0} \cup Session]
<1>1. ASSUME NEW t \in Track
      PROVE  LET F == {j \in Finished(S) : jobs[j].track = t} IN
               (IF F = {} THEN paths[q][t] ELSE Max(F)) \in {0} \cup Session
  <2> DEFINE F == {j \in Finished(S) : jobs[j].track = t}
  <2>1. F \subseteq Session /\ Session \subseteq 0 .. Len(jobs) /\ Len(jobs) \in Nat
    <3>1. F \subseteq S
      BY DEF Finished
    <3> QED
      BY <3>1, SessionJobs DEF IInv
  <2>2. paths[q][t] \in {0} \cup Session
    BY DEF IInv, Held
  <2> HIDE DEF F
  <2>3. F # {} => Max(F) \in F
    BY <2>1, MaxIsMember
  <2>4. (IF F = {} THEN paths[q][t] ELSE Max(F)) \in {0} \cup Session
    BY <2>1, <2>2, <2>3
  <2> QED
    BY <2>4 DEF F
<1> QED
  BY <1>1 DEF NewPaths

\* An idle callback keeps what the page holds within the session.
LEMMA IdleInv ==
  ASSUME IInv, NEW q \in Queue, OnQueueIdle(q)
  PROVE  IInv'
<1> DEFINE S == {j \in Head(work[q]) : jobs[j].kind = "spotify"}
<1>1. UNCHANGED <<jobs, listed, base>> /\ work[q] # <<>> /\ work' = [work EXCEPT ![q] = Tail(@)]
  BY DEF OnQueueIdle, sessionVars
<1>2. JobsOK' /\ Session' = Session
  BY <1>1 DEF IInv, JobsOK, Ids, Session
<1>3. /\ Head(work[q]) \subseteq Session /\ Tail(work[q]) \in Seq(SUBSET Nat)
      /\ \A i \in DOMAIN Tail(work[q]) : Tail(work[q])[i] \subseteq Session
  <2>1. work[q] \in Seq(SUBSET Nat) /\ \A i \in DOMAIN work[q] : work[q][i] \subseteq Session
    BY DEF IInv, WorkOK
  <2> QED
    BY <1>1, <2>1
<1>4. WorkOK'
  <2>1. work' \in [Queue -> Seq(SUBSET Nat)]
    BY <1>1, <1>3 DEF IInv, WorkOK
  <2>2. ASSUME NEW p \in Queue, NEW i \in DOMAIN work'[p] PROVE work'[p][i] \subseteq Session'
    BY <1>1, <1>2, <1>3 DEF IInv, WorkOK
  <2> QED
    BY <2>1, <2>2 DEF WorkOK
<1>5. S \subseteq Session
  BY <1>3
<1> HIDE DEF S
<1>6. CASE UNCHANGED <<summary, requests, paths, forgotten>>
  <2>1. Held' /\ RowsOK'
    BY <1>1, <1>2, <1>6 DEF IInv, Held, RowsOK
  <2>2. OfferedRowsHaveRequests'
    BY <1>6 DEF IInv, OfferedRowsHaveRequests, Eligible
  <2> QED
    BY <1>2, <1>4, <2>1, <2>2 DEF IInv
<1>7. CASE /\ Summarize(q, [j \in LatestTerminalQueueJobs(S) |-> Row(j)])
           /\ KeepRequests(q) /\ CollectPaths(q, S)
  <2>1. /\ summary' \in [queue : Queue \cup {NoQueue}, generation : Nat, rows : Rows]
        /\ summary'.queue = q
        /\ DOMAIN summary'.rows \subseteq Session
        /\ \A r \in DOMAIN summary'.rows :
             summary'.rows[r].retryable => jobs[r].status = "problem"
    BY <1>5, <1>7, SummarizeRows
  <2>2. RowsOK'
    BY <1>1, <2>1 DEF RowsOK
  <2> DEFINE kept == {r \in Eligible(summary'.rows) :
                        r \in requests[q] \/ jobs[r].status = "problem"}
  <2>3. requests' = [requests EXCEPT ![q] = kept]
    BY <1>7 DEF KeepRequests
  <2>4. kept \subseteq Session /\ Eligible(summary'.rows) \subseteq kept
    BY <2>1 DEF Eligible
  <2> HIDE DEF kept
  <2>5. requests' \in [Queue -> SUBSET Session]
    BY <2>3, <2>4 DEF IInv, Held
  <2>6. paths' \in [Queue -> [Track -> {0} \cup Session]]
    <3>1. UNCHANGED paths \/ paths' = [paths EXCEPT ![q] = NewPaths(q, S)]
      BY <1>7 DEF CollectPaths
    <3> QED
      BY <1>5, <3>1, NewPathsType DEF IInv, Held
  <2>7. Held'
    BY <1>2, <2>1, <2>5, <2>6 DEF Held
  <2>8. OfferedRowsHaveRequests'
    BY <2>1, <2>3, <2>4 DEF IInv, Held, OfferedRowsHaveRequests
  <2> QED
    BY <1>2, <1>4, <2>2, <2>7, <2>8 DEF IInv
<1> QED
  BY <1>6, <1>7 DEF OnQueueIdle, S

-----------------------------------------------------------------------------
(* The history, sessions and pages.                                        *)

(* Clearing the history forgets jobs of the scheduler and no rows. *)
LEMMA ClearInv == ASSUME IInv, ClearCompleted PROVE IInv'
<1>1. listed' \subseteq listed /\ UNCHANGED <<jobs, base, work, summary, requests, paths, forgotten>>
  BY DEF ClearCompleted
<1>2. JobsOK' /\ WorkOK'
  BY <1>1 DEF IInv, JobsOK, WorkOK, Session, Ids
<1>3. Held' /\ RowsOK'
  BY <1>1 DEF IInv, Held, RowsOK, Session
<1>4. OfferedRowsHaveRequests'
  BY <1>1 DEF IInv, OfferedRowsHaveRequests, Eligible
<1> QED
  BY <1>2, <1>3, <1>4 DEF IInv

(* Everything of the session before is gone, and base is past its jobs. *)
LEMMA SessionInv == ASSUME IInv, SessionEnds PROVE IInv'
<1>1. JobsOK'
  BY DEF SessionEnds, IInv, JobsOK, Session, Ids
<1>2. WorkOK'
  BY DEF SessionEnds, Stopped, IInv, WorkOK
<1>3. Held' /\ RowsOK'
  <2>1. <<>> \in [{} -> [status : Statuses, retryable : BOOLEAN]]
    OBVIOUS
  <2>2. <<>> \in Rows /\ DOMAIN <<>> = {}
    BY <2>1 DEF Rows
  <2> QED
    BY <2>2 DEF SessionEnds, IInv, Held, RowsOK, NoSummary, NoPaths
<1>4. OfferedRowsHaveRequests'
  BY DEF SessionEnds, OfferedRowsHaveRequests, NoSummary
<1> QED
  BY <1>1, <1>2, <1>3, <1>4 DEF IInv

(* Another page, a written file and a step of nothing. *)
LEMMA OtherInv ==
  ASSUME IInv, Navigate \/ (\E q \in Queue : M3U8Written(q)) \/ UNCHANGED vars
  PROVE  IInv'
<1>1. /\ UNCHANGED <<jobs, listed, base, work, summary, paths>>
      /\ \/ UNCHANGED <<requests, forgotten>>
         \/ requests' = [q \in Queue |-> {}] /\ forgotten'
  BY DEF Navigate, M3U8Written, vars, pageVars, sessionVars, fileVars
<1>2. JobsOK' /\ WorkOK'
  BY <1>1 DEF IInv, JobsOK, WorkOK, Session, Ids
<1>3. Held' /\ RowsOK'
  BY <1>1 DEF IInv, Held, RowsOK, Session
<1>4. OfferedRowsHaveRequests'
  BY <1>1 DEF IInv, OfferedRowsHaveRequests, Eligible
<1> QED
  BY <1>2, <1>3, <1>4 DEF IInv

(* Every step keeps the invariant. *)
LEMMA NextInv == ASSUME IInv, [Next]_vars PROVE IInv'
<1>1. ASSUME NEW b \in Batches, NEW policy, Enqueue(b.queue, b.tracks, policy) PROVE IInv'
  BY <1>1, EnqueueInv
<1>2. ASSUME NEW S \in SUBSET DOMAIN summary.rows, RetryFromYouTube(S) PROVE IInv'
  BY <1>2, RetryInv
<1>3. ASSUME NEW j \in Ids, SpotifyEnds(j) PROVE IInv'
  <2>1. PICK status \in Outcome : Ends({j}, status)
    BY <1>3 DEF SpotifyEnds
  <2> QED
    BY <1>3, <2>1, EndedInv DEF SpotifyEnds, sessionVars, Statuses
<1>4. ASSUME NEW j \in Ids, YouTubeEnds(j) PROVE IInv'
  BY <1>4, YouTubeInv
<1>5. ASSUME NEW q \in Queue, StopQueue(q) PROVE IInv'
  <2>1. PICK S \in SUBSET Live(q) : Ends(S, "cancelled")
    BY <1>5 DEF StopQueue
  <2>2. \A j \in S : jobs[j].status = "live"
    BY DEF Live
  <2>3. base' = base /\ UNCHANGED pageVars
    BY <1>5 DEF StopQueue, sessionVars
  <2>4. "cancelled" \in Statuses
    BY DEF Statuses, Outcome
  <2> QED
    BY <2>1, <2>2, <2>3, <2>4, EndedInv
<1>6. ASSUME NEW q \in Queue, OnQueueIdle(q) PROVE IInv'
  BY <1>6, IdleInv
<1>7. ASSUME SessionBegins PROVE IInv'
  <2>1. PICK S \in SUBSET {j \in listed : jobs[j].status = "live"} : Ends(S, "cancelled")
    BY <1>7 DEF SessionBegins
  <2>2. base' = base /\ UNCHANGED pageVars
    BY <1>7 DEF SessionBegins
  <2>3. "cancelled" \in Statuses
    BY DEF Statuses, Outcome
  <2> QED
    BY <2>1, <2>2, <2>3, EndedInv
<1> QED
  BY <1>1, <1>2, <1>3, <1>4, <1>5, <1>6, <1>7, ClearInv, SessionInv, OtherInv DEF Next, Progress

(* The invariant holds throughout. *)
THEOREM Invariant == Spec => []IInv
<1>1. Init => IInv
  BY InitInv
<1>2. IInv /\ [Next]_vars => IInv'
  BY NextInv
<1> QED
  BY <1>1, <1>2, PTL DEF Spec

(* Nothing of an earlier session is shown, requested or listed in a file,  *)
(* for any queues, batches and number of jobs.                             *)
THEOREM SessionsStaySeparate == Spec => []SessionsAreSeparate
<1>1. IInv => SessionsAreSeparate
  <2> SUFFICES ASSUME IInv PROVE SessionsAreSeparate
    OBVIOUS
  <2>1. \A r \in Session : r >= base
    BY DEF Session, IInv, JobsOK
  <2> QED
    BY <2>1 DEF IInv, Held, SessionsAreSeparate
<1> QED
  BY <1>1, Invariant, PTL

(* A row offered for a redownload has its request, as long as the page     *)
(* stays.                                                                  *)
THEOREM OffersAreBacked == Spec => []OfferedRowsHaveRequests
<1>1. IInv => OfferedRowsHaveRequests
  BY DEF IInv
<1> QED
  BY <1>1, Invariant, PTL

-----------------------------------------------------------------------------
(* What was replaced.                                                      *)

(* The rows and the callbacks of a queue are about its jobs, and none that *)
(* is still listed is missing from a later callback.                       *)
Snapshots ==
  /\ \A q \in Queue : \A i \in DOMAIN work[q] :
       /\ \A j \in work[q][i] : jobs[j].queue = q
       /\ \A k \in DOMAIN work[q] : i < k => work[q][i] \cap listed \subseteq work[q][k]
  /\ \A r \in DOMAIN summary.rows :
       /\ jobs[r].queue = summary.queue /\ jobs[r].kind = "spotify"
       /\ \A q \in Queue : summary.queue = q /\ r \in listed =>
            \A i \in DOMAIN work[q] : r \in work[q][i]

(* Jobs may come, end and be cleared, and callbacks be scheduled.          *)
LEMMA SnapshotsOn ==
  ASSUME IInv, IInv', Snapshots, Len(jobs) <= Len(jobs'),
         \A j \in Ids : jobs'[j].queue = jobs[j].queue /\ jobs'[j].kind = jobs[j].kind,
         listed' \cap Ids \subseteq listed, NEW Q, ScheduleQueueIdle(Q),
         summary'.queue = summary.queue, DOMAIN summary'.rows = DOMAIN summary.rows
  PROVE  Snapshots'
<1>1. Session \subseteq Ids
  BY SessionJobs DEF IInv
<1>2. ASSUME NEW q \in Queue, NEW i \in DOMAIN work'[q]
      PROVE  \/ /\ i \in DOMAIN work[q] /\ work'[q][i] = work[q][i]
                /\ DOMAIN work[q] \subseteq DOMAIN work'[q]
             \/ /\ work'[q][i] = {j \in listed' : jobs'[j].queue = q}
                /\ \A k \in DOMAIN work'[q] : k <= i
  <2> DEFINE S == {j \in listed' : jobs'[j].queue = q}
  <2>1. work[q] \in Seq(SUBSET Nat)
    BY DEF IInv, WorkOK
  <2>2. work'[q] = IF q \in Q THEN Append(work[q], S) ELSE work[q]
    BY DEF ScheduleQueueIdle
  <2> HIDE DEF S
  <2>3. CASE q \in Q
    <3>1. /\ DOMAIN work'[q] = 1 .. Len(work[q]) + 1 /\ DOMAIN work[q] = 1 .. Len(work[q])
          /\ Len(work[q]) \in Nat
      BY <2>1, <2>2, <2>3
    <3>2. work'[q][i] = IF i = Len(work[q]) + 1 THEN S ELSE work[q][i]
      BY <2>1, <2>2, <2>3, <3>1
    <3> QED
      BY <3>1, <3>2 DEF S
  <2>4. CASE q \notin Q
    BY <2>2, <2>4
  <2> QED
    BY <2>3, <2>4
<1>3. ASSUME NEW q \in Queue, NEW i \in DOMAIN work[q]
      PROVE  work[q][i] \subseteq Ids /\ i \in Nat
  BY <1>1 DEF IInv, WorkOK
<1>4. ASSUME NEW q \in Queue, NEW i \in DOMAIN work'[q]
      PROVE  /\ \A j \in work'[q][i] : jobs'[j].queue = q
             /\ \A k \in DOMAIN work'[q] :
                  i < k => work'[q][i] \cap listed' \subseteq work'[q][k]
  <2>1. i \in Nat /\ \A k \in DOMAIN work'[q] : k \in Nat
    BY DEF IInv, WorkOK
  <2>2. \A j \in work'[q][i] : jobs'[j].queue = q
    BY <1>2, <1>3 DEF Snapshots
  <2>3. ASSUME NEW k \in DOMAIN work'[q], i < k
        PROVE  work'[q][i] \cap listed' \subseteq work'[q][k]
    <3>1. i \in DOMAIN work[q] /\ work'[q][i] = work[q][i]
      BY <1>2, <2>1, <2>3
    <3>2. CASE k \in DOMAIN work[q] /\ work'[q][k] = work[q][k]
      BY <1>3, <2>3, <3>1, <3>2 DEF Snapshots
    <3>3. CASE work'[q][k] = {j \in listed' : jobs'[j].queue = q}
      BY <2>2, <3>3
    <3> QED
      BY <1>2, <3>2, <3>3
  <2> QED
    BY <2>2, <2>3
<1>5. ASSUME NEW r \in DOMAIN summary'.rows
      PROVE  /\ jobs'[r].queue = summary'.queue /\ jobs'[r].kind = "spotify"
             /\ \A q \in Queue : summary'.queue = q /\ r \in listed' =>
                  \A i \in DOMAIN work'[q] : r \in work'[q][i]
  <2>1. r \in DOMAIN summary.rows /\ r \in Ids
    BY <1>1 DEF IInv, Held
  <2>2. jobs'[r].queue = summary'.queue /\ jobs'[r].kind = "spotify"
    BY <2>1 DEF Snapshots
  <2>3. ASSUME NEW q \in Queue, summary'.queue = q, r \in listed',
               NEW i \in DOMAIN work'[q]
        PROVE  r \in work'[q][i]
    BY <1>2, <2>1, <2>2, <2>3 DEF Snapshots
  <2> QED
    BY <2>2, <2>3
<1> QED
  BY <1>4, <1>5 DEF Snapshots

(* Jobs that end keep everything but their status.                         *)
LEMMA EndsSnapshots ==
  ASSUME IInv, IInv', Snapshots, NEW S, NEW status, Ends(S, status),
         summary'.queue = summary.queue, DOMAIN summary'.rows = DOMAIN summary.rows
  PROVE  Snapshots'
<1>1. jobs' = [j \in Ids |-> IF j \in S THEN [jobs[j] EXCEPT !.status = status] ELSE jobs[j]]
  BY DEF Ends
<1>2. Len(jobs') = Len(jobs) /\ Len(jobs) \in Nat
  BY <1>1, SessionJobs DEF Ids, IInv, JobsOK
<1>3. ASSUME NEW j \in Ids
      PROVE  jobs'[j].queue = jobs[j].queue /\ jobs'[j].kind = jobs[j].kind
  <2>1. ASSUME NEW x
        PROVE  /\ [x EXCEPT !.status = status].queue = x.queue
               /\ [x EXCEPT !.status = status].kind = x.kind
    OBVIOUS
  <2> QED
    BY <1>1, <2>1
<1>4. listed' = listed /\ ScheduleQueueIdle(Settled)
  BY DEF Ends
<1> QED
  BY <1>2, <1>3, <1>4, SnapshotsOn

(* The rows a callback makes are those of its snapshot, which the later    *)
(* ones of the queue hold, too.                                            *)
LEMMA IdleSnapshots ==
  ASSUME IInv, IInv', Snapshots, NEW q \in Queue, OnQueueIdle(q)
  PROVE  Snapshots'
<1> DEFINE S == {j \in Head(work[q]) : jobs[j].kind = "spotify"}
<1>1. UNCHANGED <<jobs, listed>> /\ work[q] # <<>> /\ work' = [work EXCEPT ![q] = Tail(@)]
  BY DEF OnQueueIdle, sessionVars
<1>2. /\ work[q] \in Seq(SUBSET Nat) /\ Head(work[q]) = work[q][1]
      /\ Len(work[q]) \in Nat /\ 1 \in DOMAIN work[q]
      /\ \A i \in DOMAIN Tail(work[q]) : /\ i \in Nat /\ i + 1 \in DOMAIN work[q]
                                         /\ Tail(work[q])[i] = work[q][i + 1]
  BY <1>1 DEF IInv, WorkOK
<1>3. ASSUME NEW p \in Queue, NEW i \in DOMAIN work'[p]
      PROVE  \/ p # q /\ i \in DOMAIN work[p] /\ work'[p] = work[p]
             \/ /\ p = q /\ i \in Nat /\ i + 1 \in DOMAIN work[q]
                /\ work'[p][i] = work[q][i + 1]
  BY <1>1, <1>2 DEF IInv, WorkOK
<1>4. ASSUME NEW p \in Queue, NEW i \in DOMAIN work'[p]
      PROVE  /\ \A j \in work'[p][i] : jobs'[j].queue = p
             /\ \A k \in DOMAIN work'[p] :
                  i < k => work'[p][i] \cap listed' \subseteq work'[p][k]
  <2>1. CASE p # q
    BY <1>1, <1>3, <2>1 DEF Snapshots
  <2>2. CASE p = q
    <3>1. i \in Nat /\ i + 1 \in DOMAIN work[q] /\ work'[p][i] = work[q][i + 1]
      BY <1>3, <2>2
    <3>2. ASSUME NEW k \in DOMAIN work'[p], i < k
          PROVE  work'[p][i] \cap listed' \subseteq work'[p][k]
      <4>1. k \in Nat /\ k + 1 \in DOMAIN work[q] /\ work'[p][k] = work[q][k + 1]
        BY <1>3, <2>2
      <4>2. i + 1 < k + 1
        BY <3>1, <3>2, <4>1
      <4> QED
        BY <1>1, <3>1, <4>1, <4>2 DEF Snapshots
    <3> QED
      BY <1>1, <2>2, <3>1, <3>2 DEF Snapshots
  <2> QED
    BY <2>1, <2>2
<1> HIDE DEF S
<1>5. CASE UNCHANGED summary
  <2>1. ASSUME NEW r \in DOMAIN summary.rows, NEW p \in Queue, summary.queue = p,
               r \in listed, NEW i \in DOMAIN work'[p]
        PROVE  r \in work'[p][i]
    BY <1>3, <2>1 DEF Snapshots
  <2> QED
    BY <1>1, <1>4, <1>5, <2>1 DEF Snapshots
<1>6. CASE Summarize(q, [j \in LatestTerminalQueueJobs(S) |-> Row(j)])
  <2>1. summary'.queue = q /\ DOMAIN summary'.rows \subseteq S
    <3> DEFINE D == LatestTerminalQueueJobs(S)
    <3>1. D \subseteq S
      BY DEF LatestTerminalQueueJobs
    <3>2. summary'.queue = q /\ DOMAIN summary'.rows = D
      BY <1>6 DEF Summarize, MergeQueueSummary, IInv, Held
    <3> QED
      BY <3>1, <3>2
  <2>2. ASSUME NEW r \in S
        PROVE  jobs[r].queue = q /\ jobs[r].kind = "spotify" /\ r \in work[q][1]
    BY <1>2, <2>2 DEF Snapshots, S
  <2>3. ASSUME NEW r \in S, r \in listed, NEW i \in DOMAIN work'[q]
        PROVE  r \in work'[q][i]
    <3>1. i \in Nat /\ i + 1 \in DOMAIN work[q] /\ work'[q][i] = work[q][i + 1]
      BY <1>3
    <3>2. DOMAIN Tail(work[q]) = 1 .. Len(work[q]) - 1 /\ work'[q] = Tail(work[q])
      BY <1>1, <1>2 DEF IInv, WorkOK
    <3>3. 1 < i + 1
      BY <1>2, <3>2
    <3> QED
      BY <1>2, <2>2, <2>3, <3>1, <3>3 DEF Snapshots
  <2> QED
    BY <1>1, <1>4, <2>1, <2>2, <2>3 DEF Snapshots
<1> QED
  BY <1>5, <1>6 DEF OnQueueIdle, S

(* What a result from YouTube does to the rows.                            *)
LEMMA ResultRows ==
  ASSUME IInv, NEW j, YouTubeEnds(j)
  PROVE  /\ summary'.queue = summary.queue /\ summary'.generation = summary.generation
         /\ DOMAIN summary'.rows = DOMAIN summary.rows
         /\ \A r \in DOMAIN summary.rows :
              summary.rows[r].status = "replaced" => summary'.rows[r].status = "replaced"
<1> DEFINE row == jobs[j].row
<1>1. \/ UNCHANGED summary
      \/ summary' = [summary EXCEPT !.rows[row].status = "replaced",
                                    !.rows[row].retryable = FALSE]
  BY DEF YouTubeEnds, OnYouTubeResult
<1> HIDE DEF row
<1>2. CASE summary' = [summary EXCEPT !.rows[row].status = "replaced",
                                      !.rows[row].retryable = FALSE]
  <2> DEFINE s == [summary EXCEPT !.rows[row].status = "replaced"]
  <2>1. /\ s.rows = [summary.rows EXCEPT ![row].status = "replaced"]
        /\ DOMAIN s = DOMAIN summary
        /\ s.queue = summary.queue /\ s.generation = summary.generation
    BY DEF IInv, Held
  <2>2. summary' = [s EXCEPT !.rows[row].retryable = FALSE]
    BY <1>2
  <2> HIDE DEF s
  <2>3. /\ summary'.rows = [s.rows EXCEPT ![row].retryable = FALSE]
        /\ summary'.queue = s.queue /\ summary'.generation = s.generation
    BY <2>1, <2>2 DEF IInv, Held
  <2>4. ASSUME NEW r \in DOMAIN summary.rows, summary.rows[r].status = "replaced"
        PROVE  summary'.rows[r].status = "replaced"
    <3>1. ASSUME NEW x PROVE [x EXCEPT !.retryable = FALSE].status = x.status
      OBVIOUS
    <3>2. s.rows[r] = summary.rows[r] \/ s.rows[r] = [summary.rows[r] EXCEPT !.status = "replaced"]
      BY <2>1
    <3>3. \E D \in SUBSET Nat : summary.rows \in [D -> [status : Statuses, retryable : BOOLEAN]]
      BY DEF IInv, Held, Rows
    <3>4. s.rows[r].status = "replaced"
      BY <2>4, <3>2, <3>3
    <3>5. DOMAIN s.rows = DOMAIN summary.rows
      BY <2>1
    <3>6. summary'.rows[r] = s.rows[r] \/ summary'.rows[r] = [s.rows[r] EXCEPT !.retryable = FALSE]
      BY <2>3, <3>5
    <3> QED
      BY <3>1, <3>4, <3>6
  <2> QED
    BY <2>1, <2>3, <2>4
<1> QED
  BY <1>1, <1>2

(* Every step keeps rows and callbacks in line.                            *)
LEMMA SnapshotsKept == ASSUME IInv, Snapshots, [Next]_vars PROVE Snapshots'
<1>0. IInv'
  BY NextInv
<1>1. ASSUME OlderJobsStay, UNCHANGED summary, NEW q, NotifyQueueIdleIfSettled(q)
      PROVE  Snapshots'
  BY <1>0, <1>1, SnapshotsOn DEF OlderJobsStay, NotifyQueueIdleIfSettled
<1>2. ASSUME NEW b \in Batches, NEW policy, Enqueue(b.queue, b.tracks, policy)
      PROVE  Snapshots'
  BY <1>1, <1>2, EnqueueInv DEF Enqueue, pageVars
<1>3. ASSUME NEW S \in SUBSET DOMAIN summary.rows, RetryFromYouTube(S)
      PROVE  Snapshots'
  BY <1>1, <1>3, RetryInv DEF RetryFromYouTube, pageVars
<1>4. ASSUME UNCHANGED summary, NEW S, NEW status, Ends(S, status)
      PROVE  Snapshots'
  BY <1>0, <1>4, EndsSnapshots
<1>5. ASSUME NEW j \in Ids, SpotifyEnds(j) PROVE Snapshots'
  BY <1>4, <1>5 DEF SpotifyEnds, pageVars
<1>6. ASSUME NEW j \in Ids, YouTubeEnds(j) PROVE Snapshots'
  <2>1. PICK status \in Outcome : Ends({j}, status)
    BY <1>6 DEF YouTubeEnds
  <2> QED
    BY <1>0, <1>6, <2>1, ResultRows, EndsSnapshots
<1>7. ASSUME (\E q \in Queue : StopQueue(q)) \/ SessionBegins PROVE Snapshots'
  <2>1. PICK S : Ends(S, "cancelled") /\ UNCHANGED summary
    BY <1>7 DEF StopQueue, SessionBegins, pageVars
  <2> QED
    BY <1>4, <2>1
<1>8. ASSUME NEW q \in Queue, OnQueueIdle(q) PROVE Snapshots'
  BY <1>0, <1>8, IdleSnapshots
<1>9. ASSUME \/ ClearCompleted \/ Navigate \/ UNCHANGED vars
             \/ \E q \in Queue : M3U8Written(q)
      PROVE  Snapshots'
  BY <1>9 DEF ClearCompleted, Navigate, M3U8Written, vars, pageVars, sessionVars, Snapshots
<1>10. ASSUME SessionEnds PROVE Snapshots'
  <2>1. summary'.rows = <<>> /\ \A q \in Queue : work'[q] = <<>>
    BY <1>10 DEF SessionEnds, Stopped, NoSummary
  <2>2. DOMAIN <<>> = {}
    OBVIOUS
  <2> QED
    BY <2>1, <2>2 DEF Snapshots
<1> QED
  BY <1>2, <1>3, <1>5, <1>6, <1>7, <1>8, <1>9, <1>10 DEF Next, Progress

(* A callback keeps a row that is replaced, unless its job is no longer    *)
(* listed or no longer the newest of its track.                            *)
LEMMA ReplacedRows ==
  ASSUME IInv, Snapshots, NEW q \in Queue, OnQueueIdle(q),
         summary'.generation = summary.generation,
         NEW r \in DOMAIN summary.rows, summary.rows[r].status = "replaced"
  PROVE  IF r \in DOMAIN summary'.rows THEN summary'.rows[r].status = "replaced"
         ELSE r \notin listed \/ Latest(jobs[r].queue, jobs[r].track) > r
<1> DEFINE S == {j \in Head(work[q]) : jobs[j].kind = "spotify"}
           D == LatestTerminalQueueJobs(S)
<1>1. work[q] # <<>> /\ work[q] \in Seq(SUBSET Nat)
  BY DEF OnQueueIdle, IInv, WorkOK
<1>2. 1 \in DOMAIN work[q] /\ Head(work[q]) = work[q][1] /\ work[q][1] \subseteq Session
  BY <1>1 DEF IInv, WorkOK
<1>3. CASE Summarize(q, [j \in D |-> Row(j)])
  <2>1. summary.queue = q
    <3>1. summary.generation \in Nat
      BY DEF IInv, Held
    <3>2. summary.queue # q => summary'.generation = summary.generation + 1
      BY <1>3 DEF Summarize
    <3> QED
      BY <3>1, <3>2
  <2>2. summary'.rows = [j \in D |-> IF j \in DOMAIN summary.rows THEN summary.rows[j]
                                     ELSE Row(j)]
    <3> HIDE DEF D
    <3> QED
      BY <1>3, <2>1 DEF Summarize, MergeQueueSummary, IInv, Held
  <2>3. ASSUME r \notin D, r \in listed
        PROVE  Latest(jobs[r].queue, jobs[r].track) > r
    <3>1. r \in S /\ jobs[r].queue = q
      BY <1>2, <2>1, <2>3 DEF Snapshots
    <3>2. PICK k \in S : k > r /\ jobs[k].track = jobs[r].track
      BY <2>3, <3>1 DEF LatestTerminalQueueJobs
    <3>3. jobs[k].queue = q /\ k \in Session
      BY <1>2, <3>2 DEF Snapshots
    <3> DEFINE F == {0} \cup {j \in Ids : /\ j >= base /\ jobs[j].queue = jobs[r].queue
                                          /\ jobs[j].track = jobs[r].track}
    <3>4. k \in F /\ F \subseteq 0 .. Len(jobs) /\ Len(jobs) \in Nat
      <4>1. k \in Ids /\ k >= base /\ Len(jobs) \in Nat
        BY <3>3, SessionJobs DEF Session, IInv
      <4> QED
        BY <3>1, <3>2, <3>3, <4>1 DEF Ids
    <3>5. Latest(jobs[r].queue, jobs[r].track) = Max(F)
      BY DEF Latest
    <3> HIDE DEF F
    <3>6. Max(F) >= k /\ Max(F) \in F
      BY <3>4, MaxIsMember
    <3>7. r \in Nat /\ k \in Nat /\ Max(F) \in Nat
      <4>1. Session \subseteq Nat /\ r \in Session
        BY SessionJobs DEF IInv, Held
      <4>2. Max(F) \in 0 .. Len(jobs)
        BY <3>4, <3>6
      <4>3. Max(F) \in Nat
        <5>1. ASSUME NEW n \in Nat, NEW m \in 0 .. n PROVE m \in Nat
          OBVIOUS
        <5> QED
          BY <3>4, <4>2, <5>1
      <4> QED
        BY <3>3, <4>1, <4>3
    <3> QED
      BY <3>2, <3>5, <3>6, <3>7
  <2> HIDE DEF D
  <2> QED
    BY <2>2, <2>3
<1>4. CASE UNCHANGED summary
  BY <1>4
<1> QED
  BY <1>3, <1>4 DEF OnQueueIdle

(* As long as a summary is shown, a row that YouTube has replaced stays    *)
(* replaced, however often its queue becomes idle and whatever is cleared. *)
THEOREM ReplacedForGood == Spec => ReplacedStaysReplaced
<1> DEFINE A == \A r \in DOMAIN summary.rows :
                  summary.rows[r].status = "replaced" /\ summary'.generation = summary.generation
                    => IF r \in DOMAIN summary'.rows THEN summary'.rows[r].status = "replaced"
                       ELSE r \notin listed \/ Latest(jobs[r].queue, jobs[r].track) > r
<1>1. Init => Snapshots
  <2>1. DOMAIN <<>> = {}
    OBVIOUS
  <2> QED
    BY <2>1 DEF Init, Snapshots, NoSummary
<1>2. Spec => []Snapshots
  BY <1>1, Invariant, SnapshotsKept, PTL DEF Spec
<1>3. IInv /\ Snapshots /\ [Next]_vars => [A]_vars
  <2> SUFFICES ASSUME IInv, Snapshots, Next PROVE A
    OBVIOUS
  <2>1. CASE UNCHANGED summary
    BY <2>1
  <2>2. CASE \E j \in Ids : YouTubeEnds(j)
    BY <2>2, ResultRows
  <2>3. CASE \E q \in Queue : OnQueueIdle(q)
    BY <2>3, ReplacedRows
  <2>4. CASE SessionEnds
    <3>1. summary'.generation = summary.generation + 1 /\ summary.generation \in Nat
      BY <2>4 DEF SessionEnds, NoSummary, IInv, Held
    <3> QED
      BY <3>1
  <2>5. Next => \/ UNCHANGED summary \/ SessionEnds
                \/ \E j \in Ids : YouTubeEnds(j)
                \/ \E q \in Queue : OnQueueIdle(q)
    BY DEF Next, Progress, Enqueue, RetryFromYouTube, SpotifyEnds, StopQueue, M3U8Written,
           ClearCompleted, SessionBegins, Navigate, pageVars
  <2> QED
    BY <2>1, <2>2, <2>3, <2>4, <2>5
<1> QED
  BY <1>2, <1>3, Invariant, PTL DEF Spec, ReplacedStaysReplaced
-----------------------------------------------------------------------------
(* What was summarized.                                                    *)

(* Jobs are of tracks, and of the jobs of this session for one track of a  *)
(* queue only the newest may be live.                                      *)
OneLive ==
  /\ \A j \in Ids : jobs[j].track \in Track
  /\ \A j, k \in Session :
       j < k /\ jobs[j].queue = jobs[k].queue /\ jobs[j].track = jobs[k].track
         => jobs[j].status # "live"

Spotify(S) == {j \in S : jobs[j].kind = "spotify"}

(* Callbacks wait with jobs that have ended, and have seen such jobs.      *)
Terminal ==
  /\ \A q \in Queue : \A i \in DOMAIN work[q] : \A j \in work[q][i] : jobs[j].status # "live"
  /\ reported \subseteq Spotify(Session)
  /\ \A j \in reported : jobs[j].status # "live"

(* C is what a queue was last summarized with: later callbacks wait with   *)
(* no less, and whatever else was reported of a track was cleared since,   *)
(* and is older than what is listed of it now.                             *)
Counted(q, C) ==
  /\ C \subseteq reported \cap Spotify(Of(q)) /\ summarized[q] = Cardinality(C)
  /\ \A i \in DOMAIN work[q] : C \subseteq work[q][i] /\ work[q][i] \subseteq Of(q)
  /\ \A j \in Spotify(Of(q)), k \in reported \ C :
       jobs[k].queue = q /\ jobs[k].track = jobs[j].track => k < j

(* The jobs of a queue that no longer runs were reported, or the newest    *)
(* callback waits with them.                                               *)
Waiting(q) ==
  Live(q) = {} =>
    Spotify(Of(q)) \subseteq
      reported \cup (IF work[q] = <<>> THEN {} ELSE work[q][Len(work[q])])

(* The completed jobs a playlist's callbacks have seen.                    *)
Brought(q, t) == {j \in Finished(reported) : jobs[j].queue = q /\ jobs[j].track = t}

IsNewest(p, F) == IF F = {} THEN p = 0 ELSE p \in F /\ \A k \in F : k <= p

Newest(q) == \A t \in Track : IsNewest(paths[q][t], Brought(q, t))

(* The file of a playlist is being written, was, or could not be.          *)
FileOf(q) ==
  /\ writes[q] \subseteq {paths[q]}
  /\ writes[q] = {} => file[q] \in {paths[q], Failed}

Types ==
  /\ summarized \in [Queue -> Nat]
  /\ DOMAIN writes = Queue /\ DOMAIN file = Queue

(* What the summaries and files of a queue have taken account of.          *)
Account ==
  /\ Types /\ OneLive /\ Terminal
  /\ \A q \in Queue \ disturbed : (\E C \in SUBSET reported : Counted(q, C)) /\ Waiting(q)
  /\ \A q \in Playlists \ disturbed : Newest(q)
  /\ \A q \in Playlists : FileOf(q)

(* A callback is chained to the others of its queue.                       *)
LEMMA Chained ==
  ASSUME WorkOK, NEW Q, ScheduleQueueIdle(Q), NEW q \in Queue
  PROVE  /\ q \notin Q => work'[q] = work[q]
         /\ q \in Q => /\ Len(work'[q]) = Len(work[q]) + 1
                       /\ work'[q] # <<>> /\ work'[q][Len(work'[q])] = Of(q)'
         /\ \A i \in DOMAIN work'[q] :
              \/ i \in DOMAIN work[q] /\ work'[q][i] = work[q][i]
              \/ q \in Q /\ work'[q][i] = Of(q)'
<1> DEFINE O == {j \in listed' : jobs'[j].queue = q}
<1>1. O = Of(q)'
  BY DEF Of
<1>2. work'[q] = IF q \in Q THEN Append(work[q], O) ELSE work[q]
  BY DEF ScheduleQueueIdle
<1> HIDE DEF O
<1>3. work[q] \in Seq(SUBSET Nat)
  BY DEF WorkOK
<1>4. CASE q \in Q
  <2>1. work'[q] = Append(work[q], O)
    BY <1>2, <1>4
  <2>2. /\ Len(work[q]) \in Nat /\ DOMAIN work[q] = 1 .. Len(work[q])
        /\ Len(work'[q]) = Len(work[q]) + 1 /\ DOMAIN work'[q] = 1 .. Len(work[q]) + 1
        /\ work'[q][Len(work[q]) + 1] = O
        /\ \A i \in 1 .. Len(work[q]) : work'[q][i] = work[q][i]
    BY <1>3, <2>1
  <2>3. work'[q] # <<>>
    BY <2>2
  <2> QED
    BY <1>1, <1>4, <2>2, <2>3
<1>5. CASE q \notin Q
  BY <1>2, <1>5
<1> QED
  BY <1>4, <1>5

(* Jobs come or end, and the queues Q that no longer run get a callback;   *)
(* the others still run, or nothing has happened to them.                  *)
Moves(Q) ==
  /\ UNCHANGED <<base, summarized, paths, reported, disturbed, fileVars>>
  /\ Len(jobs) <= Len(jobs') /\ listed' \cap Ids = listed
  /\ \A j \in Ids :
       /\ jobs'[j].queue = jobs[j].queue /\ jobs'[j].kind = jobs[j].kind
       /\ jobs'[j].track = jobs[j].track
       /\ jobs[j].status # "live" => jobs'[j].status = jobs[j].status
  /\ ScheduleQueueIdle(Q)
  /\ \A q \in Queue :
       /\ q \in Q => Live(q)' = {}
       /\ q \notin Q /\ Live(q)' = {} => Live(q) = {} /\ Of(q)' = Of(q)

(* Such a step keeps what is known of the older jobs.                      *)
LEMMA MovesJobs ==
  ASSUME IInv, NEW Q, Moves(Q)
  PROVE  /\ Session \subseteq Ids /\ Session \subseteq Session' /\ listed \subseteq listed'
         /\ \A q \in Queue :
              /\ Of(q) = Of(q)' \cap Ids
              /\ Spotify(Of(q)) = Spotify(Of(q))' \cap Ids
<1>1. Session \subseteq Ids /\ Len(jobs) \in Nat /\ listed \subseteq Ids
  BY SessionJobs DEF IInv, JobsOK
<1>2. Session \subseteq Session' /\ listed \subseteq listed'
  <2>1. base \in Nat
    BY <1>1 DEF IInv, JobsOK
  <2> QED
    BY <1>1, <2>1 DEF Moves, Session
<1>3. ASSUME NEW q \in Queue
      PROVE  /\ Of(q) = Of(q)' \cap Ids
             /\ Spotify(Of(q)) = Spotify(Of(q))' \cap Ids
  BY <1>1, <1>2 DEF Moves, Of, Spotify
<1> QED
  BY <1>1, <1>2, <1>3

(* Callbacks wait with what has ended.                                     *)
LEMMA MovesTerminal ==
  ASSUME IInv, IInv', Terminal, NEW Q, Moves(Q)
  PROVE  Terminal'
<1>1. /\ Session \subseteq Ids /\ Session \subseteq Session'
      /\ UNCHANGED reported /\ ScheduleQueueIdle(Q)
  BY MovesJobs DEF Moves
<1>2. ASSUME NEW q \in Queue, NEW i \in DOMAIN work'[q], NEW j \in work'[q][i]
      PROVE  jobs'[j].status # "live"
  <2>1. CASE i \in DOMAIN work[q] /\ work'[q][i] = work[q][i]
    <3>1. jobs[j].status # "live" /\ j \in Ids
      BY <1>1, <1>2, <2>1 DEF Terminal, IInv, WorkOK
    <3> QED
      BY <3>1 DEF Moves
  <2>2. CASE q \in Q /\ work'[q][i] = Of(q)'
    BY <1>2, <2>2 DEF Moves, Live
  <2> QED
    BY <1>1, <2>1, <2>2, Chained DEF IInv
<1>3. reported \subseteq Spotify(Session) /\ \A j \in reported : j \in Ids /\ jobs[j].status # "live"
  BY <1>1 DEF Terminal, Spotify
<1>4. reported' \subseteq Spotify(Session)' /\ \A j \in reported' : jobs'[j].status # "live"
  BY <1>1, <1>3 DEF Moves, Spotify
<1> QED
  BY <1>2, <1>4 DEF Terminal

(* New jobs are younger than what was reported.                            *)
LEMMA MovesCounted ==
  ASSUME IInv, IInv', Terminal, NEW Q, Moves(Q), NEW q \in Queue,
         NEW C \in SUBSET reported, Counted(q, C)
  PROVE  Counted(q, C)'
<1>1. /\ Session \subseteq Ids /\ Of(q) = Of(q)' \cap Ids
      /\ Spotify(Of(q)) = Spotify(Of(q))' \cap Ids
      /\ UNCHANGED <<reported, summarized>> /\ ScheduleQueueIdle(Q)
  BY MovesJobs DEF Moves
<1>2. reported \subseteq Ids
  BY <1>1 DEF Terminal, Spotify
<1>3. C \subseteq reported' \cap Spotify(Of(q))' /\ summarized'[q] = Cardinality(C)
  BY <1>1 DEF Counted
<1>4. ASSUME NEW i \in DOMAIN work'[q]
      PROVE  C \subseteq work'[q][i] /\ work'[q][i] \subseteq Of(q)'
  <2>1. C \subseteq Of(q)'
    BY <1>3 DEF Spotify
  <2>2. CASE i \in DOMAIN work[q] /\ work'[q][i] = work[q][i]
    BY <1>1, <2>2 DEF Counted
  <2>3. CASE work'[q][i] = Of(q)'
    BY <2>1, <2>3
  <2> QED
    BY <1>1, <2>2, <2>3, Chained DEF IInv
<1>5. ASSUME NEW j \in Spotify(Of(q))', NEW k \in reported' \ C,
             jobs'[k].queue = q, jobs'[k].track = jobs'[j].track
      PROVE  k < j
  <2>1. k \in Ids /\ k \in reported \ C /\ jobs[k].queue = q /\ jobs[k].track = jobs'[k].track
    BY <1>1, <1>2, <1>5 DEF Moves
  <2>2. CASE j \in Ids
    <3>1. j \in Spotify(Of(q)) /\ jobs[j].track = jobs'[j].track
      BY <1>1, <2>2 DEF Moves
    <3> QED
      BY <1>5, <2>1, <3>1 DEF Counted
  <2>3. CASE j \notin Ids
    <3>1. j \in Session'
      BY DEF Spotify, Of, IInv, JobsOK
    <3>2. j \in Nat /\ j >= 1 /\ Len(jobs) \in Nat
      BY <3>1, SessionJobs DEF IInv, JobsOK, Session
    <3> QED
      BY <2>1, <2>3, <3>2 DEF Ids
  <2> QED
    BY <2>2, <2>3
<1> QED
  BY <1>3, <1>4, <1>5 DEF Counted

(* A queue that stops has a callback for all of its jobs.                  *)
LEMMA MovesWaiting ==
  ASSUME IInv, NEW Q, Moves(Q), NEW q \in Queue, Waiting(q)
  PROVE  Waiting(q)'
<1>1. ScheduleQueueIdle(Q) /\ UNCHANGED reported
  BY DEF Moves
<1>2. CASE q \in Q
  <2>1. work'[q] # <<>> /\ work'[q][Len(work'[q])] = Of(q)'
    BY <1>1, <1>2, Chained DEF IInv
  <2>2. Spotify(Of(q))' \subseteq Of(q)'
    BY DEF Spotify
  <2> QED
    BY <2>1, <2>2 DEF Waiting
<1>3. CASE q \notin Q /\ Live(q)' = {}
  <2>1. work'[q] = work[q]
    BY <1>1, <1>3, Chained DEF IInv
  <2>2. Of(q)' = Of(q) /\ Live(q) = {}
    BY <1>3 DEF Moves
  <2>3. Spotify(Of(q))' = Spotify(Of(q))
    <3>1. Of(q) \subseteq Ids
      BY SessionJobs DEF Of, IInv, JobsOK
    <3> QED
      BY <2>2, <3>1 DEF Moves, Spotify
  <2> QED
    BY <1>1, <2>1, <2>2, <2>3 DEF Waiting
<1>4. CASE q \notin Q /\ Live(q)' # {}
  BY <1>4 DEF Waiting
<1> QED
  BY <1>2, <1>3, <1>4

(* What a playlist's callbacks have seen does not change.                  *)
LEMMA MovesNewest ==
  ASSUME IInv, Terminal, NEW Q, Moves(Q), NEW q \in Queue, Newest(q)
  PROVE  Newest(q)'
<1>1. ASSUME NEW j \in reported
      PROVE  /\ jobs'[j].status = jobs[j].status /\ jobs'[j].queue = jobs[j].queue
             /\ jobs'[j].track = jobs[j].track
  BY MovesJobs DEF Moves, Terminal, Spotify
<1>2. UNCHANGED <<reported, paths>>
  BY DEF Moves
<1>3. ASSUME NEW t PROVE Brought(q, t)' = Brought(q, t)
  BY <1>1, <1>2 DEF Brought, Finished
<1> QED
  BY <1>2, <1>3 DEF Newest, IsNewest

(* Everything but OneLive, which depends on the jobs that come, is kept.   *)
LEMMA MovesKeeps ==
  ASSUME IInv, IInv', Account, NEW Q, Moves(Q), OneLive'
  PROVE  Account'
<1>1. UNCHANGED <<summarized, paths, reported, disturbed, writes, file>>
  BY DEF Moves, fileVars
<1>2. Types' /\ \A q \in Playlists : FileOf(q)'
  BY <1>1 DEF Account, Types, FileOf
<1>3. Terminal'
  BY MovesTerminal DEF Account
<1>4. ASSUME NEW q \in Queue \ disturbed
      PROVE  (\E C \in SUBSET reported' : Counted(q, C)') /\ Waiting(q)'
  <2>1. PICK C \in SUBSET reported : Counted(q, C)
    BY DEF Account
  <2>2. Counted(q, C)'
    BY <2>1, MovesCounted DEF Account
  <2>3. Waiting(q)'
    BY MovesWaiting DEF Account
  <2> QED
    BY <1>1, <2>2, <2>3
<1>5. ASSUME NEW q \in Playlists \ disturbed PROVE Newest(q)'
  BY QueueAssumption, MovesNewest DEF Account
<1> QED
  BY <1>1, <1>2, <1>3, <1>4, <1>5 DEF Account

-----------------------------------------------------------------------------
(* Jobs that come.                                                         *)

(* The rank of a natural in a finite set: no two have the same, and there  *)
(* are as many as members.                                                 *)
LEMMA Ranks ==
  ASSUME NEW A, A \subseteq Nat, IsFiniteSet(A)
  PROVE  \A n \in 1 .. Cardinality(A) : \E t \in A : Cardinality({u \in A : u <= t}) = n
<1> DEFINE To(t) == {u \in A : u <= t}
           f == [t \in A |-> Cardinality(To(t))]
<1>1. Cardinality(A) \in Nat
  BY FS_CardinalityType
<1>2. ASSUME NEW t \in A
      PROVE  /\ IsFiniteSet(To(t)) /\ t \in To(t) /\ Cardinality(To(t)) \in 1 .. Cardinality(A)
  <2>1. To(t) \subseteq A /\ t \in To(t)
    OBVIOUS
  <2> HIDE DEF To
  <2>2. IsFiniteSet(To(t)) /\ Cardinality(To(t)) \in Nat /\ Cardinality(To(t)) <= Cardinality(A)
    BY <2>1, FS_Subset, FS_CardinalityType
  <2>3. Cardinality(To(t)) # 0
    BY <2>1, <2>2, FS_EmptySet
  <2> QED
    BY <1>1, <2>1, <2>2, <2>3
<1>3. ASSUME NEW t \in A, NEW u \in A, t < u
      PROVE  Cardinality(To(t)) # Cardinality(To(u))
  <2>1. To(t) \subseteq To(u) /\ u \notin To(t)
    <3>1. t \in Nat /\ u \in Nat
      OBVIOUS
    <3>2. ASSUME NEW x \in Nat, x <= t PROVE x <= u
      BY <1>3, <3>1, <3>2
    <3>3. ~(u <= t)
      BY <1>3, <3>1
    <3> QED
      BY <3>2, <3>3
  <2> HIDE DEF To
  <2>2. To(t) # To(u)
    BY <1>2, <2>1
  <2> QED
    BY <1>2, <2>1, <2>2, FS_Subset
<1>4. f \in Injection(A, 1 .. Cardinality(A))
  <2>1. ASSUME NEW t \in A, NEW u \in A, f[t] = f[u] PROVE t = u
    <3>1. t \in Nat /\ u \in Nat /\ (t < u \/ u < t \/ t = u)
      OBVIOUS
    <3>2. f[t] = Cardinality(To(t)) /\ f[u] = Cardinality(To(u))
      OBVIOUS
    <3> HIDE DEF f, To
    <3> QED
      BY <1>3, <2>1, <3>1, <3>2
  <2>2. f \in [A -> 1 .. Cardinality(A)]
    BY <1>2
  <2> HIDE DEF f
  <2> QED
    BY <2>1, <2>2 DEF Injection, IsInjective
<1>5. IsFiniteSet(1 .. Cardinality(A)) /\ Cardinality(1 .. Cardinality(A)) = Cardinality(A)
  BY <1>1, FS_Interval
<1> HIDE DEF f
<1>6. f \in Surjection(A, 1 .. Cardinality(A))
  BY <1>4, <1>5, FS_Injection
<1> QED
  BY <1>6 DEF Surjection, f

(* The tracks that get a job: no job of the session is live for them, and  *)
(* each gets one.                                                          *)
LEMMA AddedTracks ==
  ASSUME IInv, OneLive, NEW q, NEW T, IsFiniteSet(T), T \subseteq Track, NEW policy,
         NEW added, added = Added(q, T, policy)
  PROVE  /\ \A n \in DOMAIN added :
              /\ added[n] \in Track
              /\ \A j \in Session : jobs[j].queue = q /\ jobs[j].track = added[n]
                                      => jobs[j].status # "live"
         /\ \A n, k \in DOMAIN added : added[n] = added[k] => n = k
<1> DEFINE A == {t \in T : LET j == Latest(q, t) IN
                   j = 0 \/ (policy = "retry-terminal" /\ jobs[j].status # "live")}
           Place(t) == Cardinality({u \in A : u <= t})
<1>1. A \subseteq T
  OBVIOUS
<1>2. ASSUME NEW t \in A, NEW j \in Session, jobs[j].queue = q, jobs[j].track = t
      PROVE  jobs[j].status # "live"
  <2> DEFINE F == {0} \cup {k \in Ids : k >= base /\ jobs[k].queue = q /\ jobs[k].track = t}
  <2>1. Len(jobs) \in Nat /\ base \in Nat /\ base >= 1 /\ j \in Ids
    BY SessionJobs DEF IInv, JobsOK
  <2>2. F \subseteq 0 .. Len(jobs) /\ j \in F /\ j \in Nat /\ j >= 1
    BY <1>2, <2>1 DEF Ids, Session
  <2>3. Latest(q, t) = Max(F)
    BY DEF Latest
  <2>4. Max(F) = 0 \/ jobs[Max(F)].status # "live"
    BY <2>3
  <2>5. \A k \in F : k = 0 \/ (k \in Session /\ jobs[k].queue = q /\ jobs[k].track = t)
    BY <2>1 DEF Ids, Session
  <2> HIDE DEF F
  <2>6. Max(F) \in F /\ Max(F) >= j
    BY <2>1, <2>2, MaxIsMember
  <2>7. Max(F) # 0 /\ Max(F) \in Nat
    <3>1. ASSUME NEW x \in 0 .. Len(jobs) PROVE x \in Nat /\ (x >= j => x # 0)
      BY <2>1, <2>2
    <3>2. Max(F) \in 0 .. Len(jobs)
      BY <2>2, <2>6
    <3> QED
      BY <2>6, <3>1, <3>2
  <2>8. CASE j = Max(F)
    BY <2>4, <2>7, <2>8
  <2>9. CASE j < Max(F)
    BY <1>2, <2>5, <2>6, <2>7, <2>9 DEF OneLive
  <2> QED
    BY <2>2, <2>6, <2>7, <2>8, <2>9
<1>3. added = [n \in 1 .. Cardinality(A) |-> CHOOSE t \in A : Place(t) = n]
  BY DEF Added
<1>4. \A n \in 1 .. Cardinality(A) : \E t \in A : Place(t) = n
  <2> HIDE DEF A
  <2>1. A \subseteq Nat /\ IsFiniteSet(A)
    BY <1>1, FS_Subset, TrackAssumption
  <2> QED
    BY <2>1, Ranks
<1> HIDE DEF A, Place
<1>5. ASSUME NEW n \in DOMAIN added PROVE added[n] \in A /\ Place(added[n]) = n
  <2>1. n \in 1 .. Cardinality(A) /\ added[n] = CHOOSE t \in A : Place(t) = n
    BY <1>3
  <2>2. \E t \in A : Place(t) = n
    BY <1>4, <2>1
  <2> QED
    BY <2>1, <2>2
<1> QED
  BY <1>1, <1>2, <1>5

(* New jobs, one for each of some tracks of a queue none of which has a    *)
(* live one.                                                               *)
LEMMA NewJobs ==
  ASSUME IInv, IInv', Account, OlderJobsStay, NEW new, NEW m \in Nat, DOMAIN new = 1 .. m,
         new \in Seq({new[n] : n \in 1 .. m}), NEW q \in Queue,
         \A n \in 1 .. m :
           /\ new[n].queue = q /\ new[n].track \in Track
           /\ \A j \in Session : jobs[j].queue = q /\ jobs[j].track = new[n].track
                                   => jobs[j].status # "live",
         \A n, k \in 1 .. m : new[n].track = new[k].track => n = k,
         EnqueueMany(new), NotifyQueueIdleIfSettled(q),
         UNCHANGED <<pageVars, fileVars, sessionVars>>
  PROVE  Account'
<1>1. /\ Len(jobs) \in Nat /\ Len(new) = m /\ Session \subseteq Ids /\ listed \subseteq Ids
      /\ base \in Nat
  BY SessionJobs DEF IInv, JobsOK
<1>2. jobs' = jobs \o new /\ listed' = listed \cup (Len(jobs) + 1 .. Len(jobs) + m)
  BY <1>1 DEF EnqueueMany
<1>3. /\ Len(jobs') = Len(jobs) + m
      /\ \A j \in 1 .. Len(jobs') :
           \/ j \in Ids /\ jobs'[j] = jobs[j]
           \/ /\ j > Len(jobs) /\ j - Len(jobs) \in 1 .. m
              /\ jobs'[j] = new[j - Len(jobs)]
  <2> DEFINE X == {jobs[j] : j \in Ids} \cup {new[n] : n \in 1 .. m}
  <2>1. jobs \in Seq(X) /\ new \in Seq(X)
    BY DEF IInv, JobsOK
  <2> HIDE DEF X
  <2>2. ASSUME NEW j \in 1 .. Len(jobs) + m
        PROVE  jobs'[j] = IF j <= Len(jobs) THEN jobs[j] ELSE new[j - Len(jobs)]
    BY <1>1, <1>2, <2>1
  <2>3. Len(jobs') = Len(jobs) + m
    <3>1. Len(jobs \o new) = Len(jobs) + Len(new)
      BY <2>1, ConcatProperties
    <3> QED
      BY <1>1, <1>2, <3>1
  <2> QED
    BY <1>1, <2>2, <2>3 DEF Ids
<1>4. OneLive'
  <2>1. ASSUME NEW j \in 1 .. Len(jobs') PROVE jobs'[j].track \in Track
    BY <1>3 DEF Account, OneLive
  <2>2. ASSUME NEW j \in Session', NEW k \in Session', j < k,
               jobs'[j].queue = jobs'[k].queue, jobs'[j].track = jobs'[k].track
        PROVE  jobs'[j].status # "live"
    <3>1. /\ j \in Nat /\ k \in Nat /\ j \in 1 .. Len(jobs') /\ k \in 1 .. Len(jobs')
          /\ base' = base /\ j >= base /\ k >= base
      <4>1. base' = base /\ base \in 1 .. Len(jobs) + 1 /\ Len(jobs') \in Nat
        BY <1>1, <1>3 DEF IInv, JobsOK, sessionVars
      <4> QED
        BY <4>1 DEF Session
    <3>2. CASE k \in Ids
      <4>1. jobs'[k] = jobs[k] /\ k <= Len(jobs)
        BY <1>1, <1>3, <3>1, <3>2 DEF Ids
      <4>2. j \in Ids /\ jobs'[j] = jobs[j]
        BY <1>1, <1>3, <2>2, <3>1, <4>1 DEF Ids
      <4>3. j \in Session /\ k \in Session
        BY <1>1, <3>1, <3>2, <4>2 DEF Ids, Session
      <4> QED
        BY <2>2, <4>1, <4>2, <4>3 DEF Account, OneLive
    <3>3. CASE k \notin Ids
      <4>1. k - Len(jobs) \in 1 .. m /\ jobs'[k] = new[k - Len(jobs)]
        BY <1>3, <3>1, <3>3
      <4>2. CASE j \in Ids /\ jobs'[j] = jobs[j]
        <5>1. j \in Session
          BY <1>1, <3>1, <4>2 DEF Ids, Session
        <5> QED
          BY <2>2, <4>1, <4>2, <5>1
      <4>3. CASE j - Len(jobs) \in 1 .. m /\ jobs'[j] = new[j - Len(jobs)]
        <5>1. j - Len(jobs) = k - Len(jobs)
          BY <2>2, <4>1, <4>3
        <5> QED
          BY <1>1, <2>2, <3>1, <5>1
      <4> QED
        BY <1>3, <3>1, <4>2, <4>3
    <3> QED
      BY <3>2, <3>3
  <2> QED
    BY <2>1, <2>2 DEF OneLive, Ids
<1>5. PICK Q : /\ ScheduleQueueIdle(Q)
               /\ Q = IF \E j \in listed' : jobs'[j].queue = q /\ jobs'[j].status = "live"
                      THEN {} ELSE {q}
  BY DEF NotifyQueueIdleIfSettled
<1>6. ASSUME NEW p \in Queue
      PROVE  /\ p \in Q => Live(p)' = {}
             /\ p \notin Q /\ Live(p)' = {} => Live(p) = {} /\ Of(p)' = Of(p)
  <2>1. CASE p = q
    BY <1>5, <2>1 DEF Live, Of
  <2>2. CASE p # q
    <3>1. \A j \in listed' : j \in listed \/ jobs'[j].queue = q
      <4>1. ASSUME NEW j \in Len(jobs) + 1 .. Len(jobs) + m PROVE jobs'[j].queue = q
        <5>1. j \in 1 .. Len(jobs') /\ j \notin Ids
          BY <1>1, <1>3 DEF Ids
        <5> QED
          BY <1>3, <5>1
      <4> QED
        BY <1>2, <4>1
    <3>2. \A j \in listed : jobs'[j] = jobs[j]
      BY <1>1 DEF OlderJobsStay
    <3>3. Of(p)' = Of(p)
      BY <1>2, <2>2, <3>1, <3>2 DEF Of
    <3>4. Live(p)' = Live(p)
      BY <3>2, <3>3 DEF Live, Of
    <3> QED
      BY <1>5, <2>2, <3>3, <3>4
  <2> QED
    BY <2>1, <2>2
<1>7. listed' \cap Ids = listed
  BY <1>1, <1>2 DEF OlderJobsStay
<1>8. Moves(Q)
  BY <1>5, <1>6, <1>7 DEF OlderJobsStay, Moves, pageVars, fileVars, sessionVars
<1> QED
  BY <1>4, <1>8, MovesKeeps

(* A batch and a retry.                                                    *)
LEMMA EnqueueKeeps ==
  ASSUME IInv, IInv', Account, NEW b \in Batches, NEW policy, Enqueue(b.queue, b.tracks, policy)
  PROVE  Account'
<1> DEFINE q == b.queue
           added == Added(q, b.tracks, policy)
           new == [n \in DOMAIN added |-> SpotifyJob(q, added[n])]
<1>1. q \in Queue /\ b.tracks \subseteq Track /\ IsFiniteSet(b.tracks)
  BY BatchAssumption
<1>2. PICK m \in Nat : DOMAIN added = 1 .. m
  BY <1>1, AddedLength
<1>3. /\ EnqueueMany(new) /\ NotifyQueueIdleIfSettled(q)
      /\ UNCHANGED <<pageVars, fileVars, sessionVars>>
  BY DEF Enqueue
<1>4. /\ \A n \in DOMAIN added :
           /\ added[n] \in Track
           /\ \A j \in Session : jobs[j].queue = q /\ jobs[j].track = added[n]
                                   => jobs[j].status # "live"
      /\ \A n, k \in DOMAIN added : added[n] = added[k] => n = k
  <2> HIDE DEF q
  <2>1. OneLive
    BY DEF Account
  <2> QED
    BY <1>1, <2>1, AddedTracks DEF q
<1> HIDE DEF added, q
<1>5. \A n \in 1 .. m : new[n].queue = q /\ new[n].track = added[n]
  BY <1>2 DEF SpotifyJob
<1>6. DOMAIN new = 1 .. m
  BY <1>2
<1> HIDE DEF new
<1>7. new \in Seq({new[n] : n \in 1 .. m})
  <2>1. new = [n \in 1 .. m |-> new[n]]
    BY <1>2 DEF new
  <2> QED
    BY <2>1
<1>8. \A n \in 1 .. m :
        /\ new[n].queue = q /\ new[n].track \in Track
        /\ \A j \in Session : jobs[j].queue = q /\ jobs[j].track = new[n].track
                                => jobs[j].status # "live"
  BY <1>2, <1>4, <1>5
<1>9. \A n, k \in 1 .. m : new[n].track = new[k].track => n = k
  BY <1>2, <1>4, <1>5
<1>10. OlderJobsStay
  BY EnqueueInv
<1> QED
  BY <1>1, <1>3, <1>6, <1>7, <1>8, <1>9, <1>10, NewJobs

(* Redownloads.                                                            *)
LEMMA RetryKeeps ==
  ASSUME IInv, IInv', Account, NEW S \in SUBSET DOMAIN summary.rows, RetryFromYouTube(S)
  PROVE  Account'
<1> DEFINE q == summary.queue
           R == S \cap requests[q]
           T == {jobs[r].track : r \in R}
           added == Added(q, T, "retry-terminal")
           RowOf(t) == CHOOSE r \in S : jobs[r].track = t
           new == [n \in DOMAIN added |->
                    [queue |-> q, kind |-> "youtube", track |-> added[n], row |-> RowOf(added[n]),
                     generation |-> summary.generation, status |-> "live"]]
<1>1. q \in Queue
  BY DEF RetryFromYouTube, IInv, Held
<1>2. IsFiniteSet(T) /\ T \subseteq Track
  <2>1. R \subseteq Session /\ R \subseteq Ids
    BY SessionJobs DEF IInv, Held
  <2> QED
    BY <2>1, TracksOfRows DEF IInv, Account, OneLive
<1>3. /\ EnqueueMany(new) /\ NotifyQueueIdleIfSettled(q)
      /\ UNCHANGED <<pageVars, fileVars, sessionVars>>
  BY DEF RetryFromYouTube
<1> HIDE DEF T, RowOf
<1>4. PICK m \in Nat : DOMAIN added = 1 .. m
  BY <1>2, AddedLength
<1>5. /\ \A n \in DOMAIN added :
           /\ added[n] \in Track
           /\ \A j \in Session : jobs[j].queue = q /\ jobs[j].track = added[n]
                                   => jobs[j].status # "live"
      /\ \A n, k \in DOMAIN added : added[n] = added[k] => n = k
  <2>1. OneLive
    BY DEF Account
  <2> QED
    BY <1>2, <2>1, AddedTracks
<1> HIDE DEF added, q
<1>6. \A n \in 1 .. m : new[n].queue = q /\ new[n].track = added[n]
  BY <1>4
<1>7. DOMAIN new = 1 .. m
  BY <1>4
<1> HIDE DEF new
<1>8. new \in Seq({new[n] : n \in 1 .. m})
  <2>1. new = [n \in 1 .. m |-> new[n]]
    BY <1>4 DEF new
  <2> QED
    BY <2>1
<1>9. \A n \in 1 .. m :
        /\ new[n].queue = q /\ new[n].track \in Track
        /\ \A j \in Session : jobs[j].queue = q /\ jobs[j].track = new[n].track
                                => jobs[j].status # "live"
  BY <1>4, <1>5, <1>6
<1>10. \A n, k \in 1 .. m : new[n].track = new[k].track => n = k
  BY <1>4, <1>5, <1>6
<1>11. OlderJobsStay
  BY RetryInv
<1> QED
  BY <1>1, <1>3, <1>7, <1>8, <1>9, <1>10, <1>11, NewJobs

(* Jobs that end.                                                          *)
LEMMA EndsKeeps ==
  ASSUME IInv, IInv', Account, NEW S, \A j \in S : jobs[j].status = "live",
         NEW status, Ends(S, status),
         UNCHANGED <<base, summarized, paths, reported, disturbed, fileVars>>
  PROVE  Account'
<1>1. /\ Session \subseteq Ids /\ Len(jobs) \in Nat /\ listed \subseteq Ids
      /\ jobs' = [j \in Ids |-> IF j \in S THEN [jobs[j] EXCEPT !.status = status] ELSE jobs[j]]
      /\ listed' = listed /\ ScheduleQueueIdle(Settled)
  BY SessionJobs DEF IInv, JobsOK, Ends
<1>2. Len(jobs') = Len(jobs) /\ Len(jobs) <= Len(jobs')
  <2>1. DOMAIN jobs' = 1 .. Len(jobs)
    BY <1>1 DEF Ids
  <2>2. DOMAIN jobs' = 1 .. Len(jobs') /\ Len(jobs') \in Nat
    BY DEF IInv, JobsOK
  <2> QED
    BY <1>1, <2>1, <2>2
<1>3. ASSUME NEW j \in Ids
      PROVE  /\ jobs'[j].queue = jobs[j].queue /\ jobs'[j].kind = jobs[j].kind
             /\ jobs'[j].track = jobs[j].track
             /\ jobs[j].status # "live" => jobs'[j].status = jobs[j].status
  <2>1. ASSUME NEW x
        PROVE  /\ [x EXCEPT !.status = status].queue = x.queue
               /\ [x EXCEPT !.status = status].kind = x.kind
               /\ [x EXCEPT !.status = status].track = x.track
    OBVIOUS
  <2> QED
    BY <1>1, <2>1
<1>4. Ids' = Ids /\ Session' = Session
  BY <1>2 DEF Ids, Session
<1>5. OneLive'
  BY <1>1, <1>3, <1>4 DEF Account, OneLive
<1>6. ASSUME NEW q \in Queue
      PROVE  /\ Of(q)' = Of(q)
             /\ q \in Settled => Live(q)' = {}
             /\ q \notin Settled /\ Live(q)' = {} => Live(q) = {}
  <2>1. Of(q)' = Of(q) /\ Of(q) \subseteq Ids
    BY <1>1, <1>3 DEF Of
  <2>2. Live(q)' = {j \in Live(q) : jobs'[j].status = "live"}
    BY <1>3, <2>1 DEF Live
  <2> QED
    BY <2>1, <2>2 DEF Settled
<1>7. listed' \cap Ids = listed
  BY <1>1
<1>8. Moves(Settled)
  BY <1>1, <1>2, <1>3, <1>6, <1>7 DEF Moves
<1> QED
  BY <1>5, <1>8, MovesKeeps

-----------------------------------------------------------------------------
(* What an idle callback brings.                                           *)

(* A callback is of its own queue and of jobs that have ended, and those   *)
(* that wait behind it hold its jobs, if they are still listed.            *)
LEMMA Callback ==
  ASSUME IInv, Snapshots, Terminal, NEW q \in Queue, OnQueueIdle(q)
  PROVE  /\ UNCHANGED <<jobs, listed, base, disturbed, file>> /\ writes[q] = {}
         /\ 1 \in DOMAIN work[q] /\ Head(work[q]) = work[q][1] /\ Head(work[q]) \subseteq Session
         /\ \A j \in Head(work[q]) : jobs[j].queue = q /\ jobs[j].status # "live"
         /\ \A p \in Queue : p # q => work'[p] = work[p]
         /\ \A i \in DOMAIN work'[q] :
              \E k \in DOMAIN work[q] : /\ work'[q][i] = work[q][k]
                                        /\ Head(work[q]) \cap listed \subseteq work[q][k]
         /\ work[q] # <<>>
         /\ IF work'[q] = <<>> THEN work[q][Len(work[q])] = Head(work[q])
            ELSE work'[q][Len(work'[q])] = work[q][Len(work[q])]
<1>1. /\ UNCHANGED <<jobs, listed, base, disturbed, file>> /\ writes[q] = {}
      /\ work[q] # <<>> /\ work' = [work EXCEPT ![q] = Tail(@)]
  BY DEF OnQueueIdle, sessionVars
<1>2. work[q] \in Seq(SUBSET Nat) /\ DOMAIN work = Queue
  BY DEF IInv, WorkOK
<1>3. work'[q] = Tail(work[q]) /\ \A p \in Queue : p # q => work'[p] = work[p]
  BY <1>1, <1>2
<1>4. 1 \in DOMAIN work[q] /\ Head(work[q]) = work[q][1] /\ Len(work[q]) \in Nat
  BY <1>1, <1>2
<1>5. /\ Head(work[q]) \subseteq Session
      /\ \A j \in Head(work[q]) : jobs[j].queue = q /\ jobs[j].status # "live"
  BY <1>4 DEF IInv, WorkOK, Snapshots, Terminal
<1>6. ASSUME NEW i \in DOMAIN work'[q]
      PROVE  \E k \in DOMAIN work[q] : /\ work'[q][i] = work[q][k]
                                       /\ Head(work[q]) \cap listed \subseteq work[q][k]
  <2>1. i + 1 \in DOMAIN work[q] /\ 1 < i + 1 /\ work'[q][i] = work[q][i + 1]
    BY <1>1, <1>2, <1>3
  <2> QED
    BY <1>4, <2>1 DEF Snapshots
<1>7. IF work'[q] = <<>> THEN work[q][Len(work[q])] = Head(work[q])
      ELSE work'[q][Len(work'[q])] = work[q][Len(work[q])]
  <2>1. /\ Len(Tail(work[q])) = Len(work[q]) - 1 /\ Tail(work[q]) \in Seq(SUBSET Nat)
        /\ \A i \in 1 .. Len(Tail(work[q])) : Tail(work[q])[i] = work[q][i + 1]
    BY <1>1, <1>2, HeadTailProperties
  <2> DEFINE n == Len(work[q])
  <2>2. n = 1 \/ n > 1
    <3>1. n \in Nat \ {0}
      BY <1>1, <1>2, EmptySeq
    <3> HIDE DEF n
    <3> QED
      BY <3>1
  <2>3. CASE Len(work[q]) = 1
    <3>1. Len(Tail(work[q])) = 0
      BY <2>1, <2>3
    <3>2. Tail(work[q]) = <<>>
      BY <2>1, <3>1, EmptySeq
    <3> QED
      BY <1>3, <1>4, <2>3, <3>2
  <2>4. CASE Len(work[q]) > 1
    <3>1. Len(work[q]) - 1 \in 1 .. Len(work[q]) - 1 /\ (Len(work[q]) - 1) + 1 = Len(work[q])
      BY <1>4, <2>4
    <3>2. Tail(work[q])[Len(work[q]) - 1] = work[q][Len(work[q])]
      BY <2>1, <3>1
    <3>3. Len(Tail(work[q])) # 0
      <4>1. n \in Nat /\ n > 1 /\ Len(Tail(work[q])) = n - 1
        BY <1>4, <2>1, <2>4
      <4> HIDE DEF n
      <4>2. n - 1 # 0
        BY <4>1
      <4> QED
        BY <4>1, <4>2
    <3>4. Tail(work[q]) # <<>>
      BY <3>3, EmptySeq
    <3> QED
      BY <1>3, <2>1, <3>2, <3>4
  <2> QED
    BY <2>2, <2>3, <2>4
<1> QED
  BY <1>1, <1>3, <1>4, <1>5, <1>6, <1>7

(* The callback's spotify jobs.                                            *)
Seen(q) == Spotify(Head(work[q]))

(* A callback is passed over if it has nothing or no more than was counted *)
(* before, and else it is counted and reported.                            *)
PassesOver(q) ==
  /\ Seen(q) = {} \/ summarized[q] = Cardinality(Seen(q))
  /\ UNCHANGED <<summarized, paths, writes, reported>>

Reports(q) ==
  /\ summarized' = [summarized EXCEPT ![q] = Cardinality(Seen(q))]
  /\ CollectPaths(q, Seen(q)) /\ reported' = reported \cup Seen(q)

(* There is nothing else a callback may do.                                *)
LEMMA CallbackCases ==
  ASSUME NEW q, OnQueueIdle(q) PROVE PassesOver(q) \/ Reports(q)
<1> DEFINE S == {j \in Head(work[q]) : jobs[j].kind = "spotify"}
<1>1. S = Seen(q)
  BY DEF Seen, Spotify
<1>2. \/ /\ S = {} \/ summarized[q] = Cardinality(S)
         /\ UNCHANGED <<summarized, paths, writes, reported>>
      \/ /\ summarized' = [summarized EXCEPT ![q] = Cardinality(S)]
         /\ CollectPaths(q, S) /\ reported' = reported \cup S
  BY DEF OnQueueIdle
<1> QED
  BY <1>1, <1>2 DEF PassesOver, Reports

(* After the callback, what it has seen is reported, if its queue is still *)
(* counted: as many jobs as were counted before are the same jobs.         *)
LEMMA CallbackCounted ==
  ASSUME IInv, Snapshots, Account, NEW q \in Queue \ disturbed, OnQueueIdle(q)
  PROVE  Seen(q) \subseteq reported' /\ \E C \in SUBSET reported' : Counted(q, C)'
<1> DEFINE H == Head(work[q])
<1>1. /\ UNCHANGED <<jobs, listed>> /\ 1 \in DOMAIN work[q] /\ H = work[q][1] /\ H \subseteq Session
      /\ \A i \in DOMAIN work'[q] : \E k \in DOMAIN work[q] : /\ work'[q][i] = work[q][k]
                                                              /\ H \cap listed \subseteq work[q][k]
  BY Callback DEF Account
<1>2. PICK C \in SUBSET reported : Counted(q, C)
  BY DEF Account
<1>3. H \subseteq Of(q) /\ C \subseteq Seen(q) /\ Of(q) \subseteq listed
  BY <1>1, <1>2 DEF Counted, Seen, Spotify, Of
<1>4. IsFiniteSet(Seen(q))
  <2>1. Len(jobs) \in Int /\ base \in Int
    BY DEF IInv, JobsOK
  <2> QED
    BY <1>1, <2>1, FS_Interval, FS_Subset DEF Session, Seen, Spotify
<1>5. Of(q)' = Of(q) /\ Spotify(Of(q))' = Spotify(Of(q)) /\ DOMAIN summarized = Queue
  BY <1>1 DEF Of, Spotify, Account, Types
<1>6. \A i \in DOMAIN work'[q] : H \subseteq work'[q][i] /\ work'[q][i] \subseteq Of(q)
  BY <1>1, <1>2, <1>3 DEF Counted
<1>7. Seen(q) \subseteq H /\ Seen(q) \subseteq Spotify(Of(q))
  BY <1>3 DEF Seen, Spotify
<1>8. CASE PassesOver(q)
  <2>1. UNCHANGED <<summarized, reported>>
    BY <1>8 DEF PassesOver
  <2>2. Seen(q) = C
    <3>1. CASE Seen(q) = {}
      BY <1>3, <3>1
    <3>2. CASE summarized[q] = Cardinality(Seen(q))
      BY <1>2, <1>3, <1>4, <3>2, FS_Subset DEF Counted
    <3> QED
      BY <1>8, <3>1, <3>2 DEF PassesOver
  <2>3. Counted(q, C)'
    BY <1>1, <1>2, <1>5, <1>6, <1>7, <2>1, <2>2 DEF Counted
  <2> QED
    BY <2>1, <2>2, <2>3
<1>9. CASE Reports(q)
  <2>1. reported' = reported \cup Seen(q) /\ summarized'[q] = Cardinality(Seen(q))
    BY <1>5, <1>9 DEF Reports
  <2>2. PICK D : D = Seen(q)
    OBVIOUS
  <2>3. ASSUME NEW j \in Spotify(Of(q)), NEW k \in reported' \ D,
               jobs[k].queue = q, jobs[k].track = jobs[j].track
        PROVE  k < j
    <3>1. k \in reported \ C
      BY <1>3, <2>1, <2>2
    <3> QED
      BY <1>2, <2>3, <3>1 DEF Counted
  <2>4. D \subseteq reported' \cap Spotify(Of(q))' /\ summarized'[q] = Cardinality(D)
    BY <1>5, <1>7, <2>1, <2>2
  <2>5. \A i \in DOMAIN work'[q] : D \subseteq work'[q][i] /\ work'[q][i] \subseteq Of(q)'
    BY <1>5, <1>6, <1>7, <2>2
  <2>6. \A j \in Spotify(Of(q))', k \in reported' \ D :
          jobs'[k].queue = q /\ jobs'[k].track = jobs'[j].track => k < j
    BY <1>1, <1>5, <2>3
  <2>7. Counted(q, D)'
    BY <2>4, <2>5, <2>6 DEF Counted
  <2> QED
    BY <2>1, <2>2, <2>4, <2>7
<1> QED
  BY <1>8, <1>9, CallbackCases

(* The newest file of each track is that of the callback, if it brings     *)
(* one, and else stays: a cleared job is older than those still listed.    *)
LEMMA CallbackNewest ==
  ASSUME IInv, IInv', Snapshots, Account, NEW q \in Playlists \ disturbed, OnQueueIdle(q)
  PROVE  Newest(q)'
<1>1. /\ UNCHANGED <<jobs, listed>> /\ 1 \in DOMAIN work[q] /\ Head(work[q]) = work[q][1]
      /\ Head(work[q]) \subseteq Session
      /\ \A j \in Head(work[q]) : jobs[j].queue = q /\ jobs[j].status # "live"
  BY QueueAssumption, Callback DEF Account
<1>2. PICK C \in SUBSET reported : Counted(q, C)
  BY QueueAssumption DEF Account
<1>3. Seen(q) \subseteq Spotify(Of(q)) /\ C \subseteq Seen(q) /\ Seen(q) \subseteq Session
  BY <1>1, <1>2 DEF Counted, Seen, Spotify
<1>4. Newest(q)
  BY DEF Account
<1>5. CASE PassesOver(q)
  BY <1>1, <1>4, <1>5 DEF PassesOver, Newest, IsNewest, Brought, Finished
<1>6. CASE Reports(q)
  <2>1. reported' = reported \cup Seen(q) /\ paths' = [paths EXCEPT ![q] = NewPaths(q, Seen(q))]
    BY <1>6 DEF Reports, CollectPaths
  <2>2. q \in DOMAIN paths
    BY QueueAssumption DEF IInv, Held
  <2>3. ASSUME NEW t \in Track
        PROVE  IsNewest(paths'[q][t], Brought(q, t)')
    <3> DEFINE F == {j \in Finished(Seen(q)) : jobs[j].track = t}
    <3>1. paths'[q][t] = IF F = {} THEN paths[q][t] ELSE Max(F)
      BY <2>1, <2>2 DEF NewPaths
    <3>2. F \subseteq Seen(q) /\ \A j \in F : jobs[j].track = t
      BY DEF Finished
    <3>3. Brought(q, t)' = Brought(q, t) \cup F
      BY <1>1, <2>1 DEF Brought, Finished, Seen, Spotify
    <3>4. \A k \in Brought(q, t) : k \in reported /\ jobs[k].queue = q /\ jobs[k].track = t
      BY DEF Brought, Finished
    <3>5. Brought(q, t) \cap C \subseteq F
      BY <1>3 DEF Brought, Finished
    <3>6. reported \subseteq Nat /\ F \subseteq 0 .. Len(jobs) /\ F \subseteq Nat /\ Len(jobs) \in Nat
      BY <1>3, <3>2, SessionJobs DEF IInv, Account, Terminal, Spotify
    <3> HIDE DEF F
    <3>7. CASE F = {}
      BY <1>4, <3>1, <3>3, <3>7 DEF Newest
    <3>8. CASE F # {}
      <4>1. Max(F) \in F /\ \A k \in F : Max(F) >= k
        BY <3>6, <3>8, MaxIsMember
      <4>2. ASSUME NEW k \in Brought(q, t) PROVE k <= Max(F)
        <5>1. CASE k \in C
          BY <3>5, <3>6, <4>1, <5>1
        <5>2. CASE k \notin C
          <6>1. Max(F) \in Spotify(Of(q)) /\ jobs[Max(F)].track = t
            BY <1>3, <3>2, <4>1
          <6>2. k \in reported \ C /\ jobs[k].queue = q /\ jobs[k].track = jobs[Max(F)].track
            BY <3>4, <5>2, <6>1
          <6>3. k < Max(F)
            BY <1>2, <6>1, <6>2 DEF Counted
          <6>4. k \in Nat /\ Max(F) \in Nat
            BY <3>6, <4>1, <6>2
          <6> QED
            BY <6>3, <6>4
        <5> QED
          BY <5>1, <5>2
      <4>3. \A k \in F : k <= Max(F)
        BY <3>6, <4>1
      <4> QED
        BY <3>1, <3>3, <3>8, <4>1, <4>2, <4>3 DEF IsNewest
    <3> QED
      BY <3>7, <3>8
  <2> QED
    BY <2>3 DEF Newest
<1> QED
  BY <1>5, <1>6, CallbackCases

(* A callback writes the file it has collected, and if that is still empty *)
(* there was nothing in it before.                                         *)
LEMMA CallbackFile ==
  ASSUME IInv, Snapshots, Account, NEW q \in Playlists, OnQueueIdle(q)
  PROVE  FileOf(q)'
<1>1. UNCHANGED <<jobs, file>> /\ writes[q] = {} /\ Head(work[q]) \subseteq Session
  BY QueueAssumption, Callback DEF Account
<1>2. FileOf(q) /\ q \in DOMAIN paths /\ q \in DOMAIN writes
  BY QueueAssumption DEF Account, Types, IInv, Held
<1>3. CASE PassesOver(q)
  BY <1>1, <1>2, <1>3 DEF PassesOver, FileOf
<1>4. CASE Reports(q)
  <2>1. /\ paths' = [paths EXCEPT ![q] = NewPaths(q, Seen(q))]
        /\ writes' = IF paths'[q] = NoPaths THEN writes
                     ELSE [writes EXCEPT ![q] = @ \cup {paths'[q]}]
    BY <1>4 DEF Reports, CollectPaths
  <2>2. paths'[q] = NewPaths(q, Seen(q))
    BY <1>2, <2>1
  <2>3. CASE paths'[q] # NoPaths
    <3>1. writes'[q] = {paths'[q]}
      BY <1>1, <1>2, <2>1, <2>3
    <3> QED
      BY <3>1 DEF FileOf
  <2>4. CASE paths'[q] = NoPaths
    <3>1. ASSUME NEW t \in Track PROVE paths[q][t] = 0
      <4> DEFINE F == {j \in Finished(Seen(q)) : jobs[j].track = t}
      <4>1. NewPaths(q, Seen(q))[t] = IF F = {} THEN paths[q][t] ELSE Max(F)
        BY DEF NewPaths
      <4>2. F \subseteq Session
        BY <1>1 DEF Finished, Seen, Spotify
      <4>3. F \subseteq 0 .. Len(jobs) /\ Len(jobs) \in Nat /\ 0 \notin F
        <5>1. base \in 1 .. Len(jobs) + 1
          BY DEF IInv, JobsOK
        <5>2. 0 \notin Session
          BY <5>1, SessionJobs DEF Session, IInv
        <5> QED
          BY <4>2, <5>2, SessionJobs DEF IInv
      <4> HIDE DEF F
      <4>4. F # {} => Max(F) \in F
        BY <4>3, MaxIsMember
      <4>5. NewPaths(q, Seen(q))[t] = 0
        BY <2>2, <2>4 DEF NoPaths
      <4> QED
        BY <4>1, <4>3, <4>4, <4>5
    <3>2. paths[q] = NoPaths
      <4>1. paths[q] \in [Track -> {0} \cup Session]
        BY QueueAssumption DEF IInv, Held
      <4> QED
        BY <3>1, <4>1 DEF NoPaths
    <3> QED
      BY <1>1, <1>2, <2>1, <2>4, <3>2 DEF FileOf
  <2> QED
    BY <2>3, <2>4
<1> QED
  BY <1>3, <1>4, CallbackCases

(* The callback of a queue touches no other queue's.                       *)
LEMMA CallbackElsewhere ==
  ASSUME IInv, Snapshots, Account, NEW q \in Queue, OnQueueIdle(q), NEW p \in Queue, p # q
  PROVE  /\ p \notin disturbed =>
              (\E C \in SUBSET reported' : Counted(p, C)') /\ Waiting(p)'
         /\ p \in Playlists \ disturbed => Newest(p)'
         /\ p \in Playlists => FileOf(p)'
<1>1. /\ UNCHANGED <<jobs, listed, file>> /\ work'[p] = work[p]
      /\ \A j \in Seen(q) : jobs[j].queue = q
  BY Callback DEF Account, Seen, Spotify
<1>2. /\ reported \subseteq reported' /\ \A j \in reported' : j \in reported \/ jobs[j].queue = q
      /\ summarized'[p] = summarized[p] /\ paths'[p] = paths[p] /\ writes'[p] = writes[p]
  <2>1. CASE PassesOver(q)
    BY <2>1 DEF PassesOver
  <2>2. CASE Reports(q)
    <3>1. DOMAIN summarized = Queue /\ DOMAIN writes = Queue /\ DOMAIN paths = Queue
      BY DEF Account, Types, IInv, Held
    <3> QED
      BY <1>1, <2>2, <3>1 DEF Reports, CollectPaths
  <2> QED
    BY <2>1, <2>2, CallbackCases
<1>3. Of(p)' = Of(p) /\ Spotify(Of(p))' = Spotify(Of(p)) /\ Live(p)' = Live(p)
  BY <1>1 DEF Of, Spotify, Live
<1>4. ASSUME p \notin disturbed
      PROVE  (\E C \in SUBSET reported' : Counted(p, C)') /\ Waiting(p)'
  <2>1. PICK C \in SUBSET reported : Counted(p, C)
    BY <1>4 DEF Account
  <2>2. Counted(p, C)'
    BY <1>1, <1>2, <1>3, <2>1 DEF Counted
  <2>3. Waiting(p)'
    <3>1. Waiting(p)
      BY <1>4 DEF Account
    <3> QED
      BY <1>1, <1>2, <1>3, <3>1 DEF Waiting
  <2> QED
    BY <1>2, <2>2, <2>3
<1>5. ASSUME p \in Playlists \ disturbed PROVE Newest(p)'
  <2>1. Newest(p)
    BY <1>5 DEF Account
  <2>2. ASSUME NEW t PROVE Brought(p, t)' = Brought(p, t)
    BY <1>1, <1>2 DEF Brought, Finished
  <2> QED
    BY <1>2, <2>1, <2>2 DEF Newest, IsNewest
<1>6. ASSUME p \in Playlists PROVE FileOf(p)'
  BY <1>1, <1>2, <1>6 DEF Account, FileOf
<1> QED
  BY <1>4, <1>5, <1>6

(* A callback keeps the account of what was summarized.                    *)
LEMMA CallbackKeeps ==
  ASSUME IInv, IInv', Snapshots, Account, NEW q \in Queue, OnQueueIdle(q)
  PROVE  Account'
<1>1. /\ UNCHANGED <<jobs, listed, base, disturbed, file>>
      /\ Head(work[q]) \subseteq Session /\ work[q] # <<>>
      /\ \A j \in Head(work[q]) : jobs[j].queue = q /\ jobs[j].status # "live"
      /\ \A p \in Queue : p # q => work'[p] = work[p]
      /\ \A i \in DOMAIN work'[q] : \E k \in DOMAIN work[q] : work'[q][i] = work[q][k]
      /\ IF work'[q] = <<>> THEN work[q][Len(work[q])] = Head(work[q])
         ELSE work'[q][Len(work'[q])] = work[q][Len(work[q])]
  BY Callback DEF Account
<1>2. reported' \subseteq reported \cup Seen(q) /\ reported \subseteq reported'
  BY CallbackCases DEF PassesOver, Reports
<1>3. Types'
  <2>1. IsFiniteSet(Seen(q))
    <3>1. Len(jobs) \in Int /\ base \in Int
      BY DEF IInv, JobsOK
    <3> QED
      BY <1>1, <3>1, FS_Interval, FS_Subset DEF Session, Seen, Spotify
  <2>2. Cardinality(Seen(q)) \in Nat
    BY <2>1, FS_CardinalityType
  <2>3. CASE PassesOver(q)
    BY <1>1, <2>3 DEF PassesOver, Account, Types
  <2>4. CASE Reports(q)
    BY <1>1, <2>2, <2>4 DEF Reports, CollectPaths, Account, Types
  <2> QED
    BY <2>3, <2>4, CallbackCases
<1>4. OneLive' /\ Session' = Session
  BY <1>1 DEF Account, OneLive, Session, Ids
<1>5. Terminal'
  <2>1. ASSUME NEW p \in Queue, NEW i \in DOMAIN work'[p], NEW j \in work'[p][i]
        PROVE  jobs'[j].status # "live"
    <3>1. PICK k \in DOMAIN work[p] : work'[p][i] = work[p][k]
      BY <1>1
    <3> QED
      BY <1>1, <2>1, <3>1 DEF Account, Terminal
  <2>2. reported' \subseteq Spotify(Session)' /\ \A j \in reported' : jobs'[j].status # "live"
    <3>1. Spotify(Session)' = Spotify(Session)
      BY <1>1, <1>4 DEF Spotify
    <3> QED
      BY <1>1, <1>2, <3>1 DEF Account, Terminal, Seen, Spotify
  <2> QED
    BY <2>1, <2>2 DEF Terminal
<1>6. ASSUME q \notin disturbed PROVE Waiting(q)'
  <2>1. Waiting(q) /\ Seen(q) \subseteq reported'
    BY <1>6, CallbackCounted DEF Account
  <2>2. Of(q)' = Of(q) /\ Spotify(Of(q))' = Spotify(Of(q)) /\ Live(q)' = Live(q)
    BY <1>1 DEF Of, Spotify, Live
  <2>3. CASE work'[q] = <<>>
    <3>1. ASSUME Live(q) = {}, NEW j \in Spotify(Of(q)), j \notin reported
          PROVE  j \in Seen(q)
      BY <1>1, <2>1, <2>3, <3>1 DEF Waiting, Seen, Spotify
    <3> QED
      BY <1>2, <2>1, <2>2, <3>1 DEF Waiting
  <2>4. CASE work'[q] # <<>>
    BY <1>1, <1>2, <2>1, <2>2, <2>4 DEF Waiting
  <2> QED
    BY <2>3, <2>4
<1>7. ASSUME NEW p \in Queue \ disturbed
      PROVE  (\E C \in SUBSET reported' : Counted(p, C)') /\ Waiting(p)'
  BY <1>6, CallbackCounted, CallbackElsewhere
<1>8. ASSUME NEW p \in Playlists \ disturbed PROVE Newest(p)'
  BY QueueAssumption, CallbackNewest, CallbackElsewhere
<1>9. ASSUME NEW p \in Playlists PROVE FileOf(p)'
  BY QueueAssumption, CallbackFile, CallbackElsewhere
<1> QED
  BY <1>1, <1>3, <1>4, <1>5, <1>7, <1>8, <1>9 DEF Account

-----------------------------------------------------------------------------
(* The history, sessions and files.                                        *)

(* What the history keeps is live, and so newer than all that was reported *)
(* of its track: counting starts afresh with nothing.                      *)
LEMMA ClearKeeps ==
  ASSUME IInv, IInv', Account, ClearCompleted
  PROVE  Account'
<1>1. /\ listed' = {j \in listed : jobs[j].status = "live"}
      /\ summarized' = [q \in Queue |-> 0]
      /\ disturbed' = disturbed \cup {q \in Queue : work[q] # <<>>}
      /\ UNCHANGED <<jobs, work, paths, reported, writes, file, base>>
  BY DEF ClearCompleted, ForgetCounts, fileVars
<1>2. Session' = Session /\ Ids' = Ids /\ Spotify(Session)' = Spotify(Session)
  BY <1>1 DEF Session, Ids, Spotify
<1>3. OneLive' /\ Terminal' /\ Types'
  BY <1>1, <1>2 DEF Account, OneLive, Terminal, Types
<1>4. ASSUME NEW q \in Queue \ disturbed'
      PROVE  (\E C \in SUBSET reported' : Counted(q, C)') /\ Waiting(q)'
  <2>1. work'[q] = <<>>
    BY <1>1
  <2>2. \A j \in Of(q)' : /\ j \in listed /\ jobs[j].queue = q /\ jobs[j].status = "live"
    BY <1>1 DEF Of
  <2>3. ASSUME NEW j \in Of(q)', NEW k \in reported, jobs[k].queue = q,
               jobs[k].track = jobs[j].track
        PROVE  k < j
    <3>1. j \in Session /\ k \in Session /\ jobs[k].status # "live"
      BY <2>2 DEF IInv, JobsOK, Account, Terminal, Spotify
    <3>2. ~(j < k)
      BY <2>2, <2>3, <3>1 DEF Account, OneLive
    <3>3. j # k /\ j \in Nat /\ k \in Nat
      BY <2>2, <3>1, SessionJobs DEF IInv
    <3> QED
      BY <3>2, <3>3
  <2>4. Counted(q, {})'
    <3>1. summarized'[q] = Cardinality({})
      BY <1>1, FS_EmptySet
    <3>2. \A j \in Spotify(Of(q))' : j \in Of(q)' /\ jobs'[j] = jobs[j]
      BY <1>1 DEF Spotify
    <3>3. \A i \in DOMAIN work'[q] : {} \subseteq work'[q][i] /\ work'[q][i] \subseteq Of(q)'
      <4>1. DOMAIN <<>> = {}
        OBVIOUS
      <4> QED
        BY <2>1, <4>1
    <3>4. \A j \in Spotify(Of(q))', k \in reported' \ {} :
            jobs'[k].queue = q /\ jobs'[k].track = jobs'[j].track => k < j
      BY <1>1, <2>3, <3>2
    <3> QED
      BY <3>1, <3>3, <3>4 DEF Counted
  <2>5. Waiting(q)'
    <3>1. Live(q)' = {} => Of(q)' = {}
      BY <1>1, <2>2 DEF Live
    <3> QED
      BY <3>1 DEF Waiting, Spotify
  <2> QED
    BY <2>4, <2>5
<1>5. ASSUME NEW q \in Playlists \ disturbed' PROVE Newest(q)'
  <2>1. Newest(q)
    BY <1>1 DEF Account
  <2>2. ASSUME NEW t PROVE Brought(q, t)' = Brought(q, t)
    BY <1>1 DEF Brought, Finished
  <2> QED
    BY <1>1, <2>1, <2>2 DEF Newest, IsNewest
<1>6. ASSUME NEW q \in Playlists PROVE FileOf(q)'
  BY <1>1 DEF Account, FileOf
<1> QED
  BY <1>3, <1>4, <1>5, <1>6 DEF Account

(* A new session has no jobs, reports or files.                            *)
LEMMA SessionKeeps ==
  ASSUME IInv, IInv', Account, SessionEnds
  PROVE  Account'
<1>1. /\ listed' = {} /\ disturbed' = {} /\ reported' = {} /\ base' = Len(jobs) + 1
      /\ summarized' = [q \in Queue |-> 0] /\ paths' = [q \in Queue |-> NoPaths]
      /\ file' = [q \in Queue |-> NoPaths] /\ UNCHANGED <<jobs, work, writes>>
      /\ \A q \in Queue : work[q] = <<>> /\ writes[q] = {}
  BY DEF SessionEnds, ForgetCounts, Stopped
<1>2. Session' = {} /\ Ids' = Ids /\ DOMAIN <<>> = {}
  <2>1. Len(jobs) \in Nat
    BY SessionJobs DEF IInv
  <2> QED
    BY <1>1, <2>1 DEF Session, Ids
<1>3. OneLive' /\ Types'
  BY <1>1, <1>2 DEF Account, OneLive, Types
<1>4. Terminal'
  BY <1>1, <1>2 DEF Terminal
<1>5. ASSUME NEW q \in Queue
      PROVE  (\E C \in SUBSET reported' : Counted(q, C)') /\ Waiting(q)' /\ FileOf(q)'
  <2>1. Of(q)' = {} /\ Spotify(Of(q))' = {}
    BY <1>1 DEF Of, Spotify
  <2>2. Counted(q, {})'
    BY <1>1, <1>2, <2>1, FS_EmptySet DEF Counted
  <2>3. Waiting(q)'
    BY <2>1 DEF Waiting
  <2>4. FileOf(q)'
    BY <1>1 DEF FileOf
  <2> QED
    BY <2>2, <2>3, <2>4
<1>6. ASSUME NEW q \in Queue PROVE Newest(q)'
  BY <1>1 DEF Newest, IsNewest, Brought, Finished, NoPaths
<1> QED
  BY <1>1, <1>3, <1>4, <1>5, <1>6, QueueAssumption DEF Account

(* A file that is written is the one collected last.                       *)
LEMMA WrittenKeeps ==
  ASSUME IInv, Account, NEW q \in Queue, M3U8Written(q)
  PROVE  Account'
<1>1. UNCHANGED <<jobs, listed, work, summarized, paths, reported, base, disturbed>>
  BY DEF M3U8Written, pageVars, sessionVars
<1>2. PICK written \in writes[q] :
        /\ writes' = [writes EXCEPT ![q] = @ \ {written}]
        /\ \E answer \in {written, Failed} : file' = [file EXCEPT ![q] = answer]
  BY DEF M3U8Written
<1>3. ASSUME NEW p \in Playlists PROVE FileOf(p)'
  <2>1. FileOf(p) /\ p \in DOMAIN writes /\ p \in DOMAIN file
    BY QueueAssumption DEF Account, Types
  <2>2. CASE p = q
    <3>1. writes'[p] = {} /\ written = paths[p]
      BY <1>2, <2>1, <2>2 DEF FileOf
    <3>2. file'[p] \in {written, Failed}
      BY <1>2, <2>1, <2>2
    <3> QED
      BY <1>1, <1>2, <3>1, <3>2 DEF FileOf
  <2>3. CASE p # q
    BY <1>1, <1>2, <2>1, <2>3 DEF FileOf
  <2> QED
    BY <2>2, <2>3
<1>4. Types'
  BY <1>1, <1>2 DEF Account, Types
<1>5. Ids' = Ids /\ Session' = Session
  BY <1>1 DEF Ids, Session
<1>6. OneLive' /\ Terminal'
  BY <1>1, <1>5 DEF Account, OneLive, Terminal, Spotify
<1>7. ASSUME NEW p
      PROVE  /\ Of(p)' = Of(p) /\ Spotify(Of(p))' = Spotify(Of(p)) /\ Live(p)' = Live(p)
             /\ \A t : Brought(p, t)' = Brought(p, t)
  BY <1>1 DEF Of, Spotify, Live, Brought, Finished
<1>8. ASSUME NEW p \in Queue \ disturbed
      PROVE  (\E C \in SUBSET reported' : Counted(p, C)') /\ Waiting(p)'
  BY <1>1, <1>7 DEF Account, Counted, Waiting
<1>9. ASSUME NEW p \in Playlists \ disturbed PROVE Newest(p)'
  BY <1>1, <1>7 DEF Account, Newest, IsNewest
<1> QED
  BY <1>1, <1>3, <1>4, <1>6, <1>8, <1>9 DEF Account

(* Another page, and a step of nothing.                                    *)
LEMMA NothingKeeps ==
  ASSUME Account, Navigate \/ UNCHANGED vars
  PROVE  Account'
<1>1. UNCHANGED <<jobs, listed, work, summarized, paths, reported, base, disturbed, writes, file>>
  BY DEF Navigate, vars, pageVars, fileVars, sessionVars
<1>2. Ids' = Ids /\ Session' = Session
  BY <1>1 DEF Ids, Session
<1>3. OneLive' /\ Terminal' /\ Types'
  BY <1>1, <1>2 DEF Account, OneLive, Terminal, Spotify, Types
<1>4. ASSUME NEW p
      PROVE  /\ Of(p)' = Of(p) /\ Spotify(Of(p))' = Spotify(Of(p)) /\ Live(p)' = Live(p)
             /\ \A t : Brought(p, t)' = Brought(p, t)
  BY <1>1 DEF Of, Spotify, Live, Brought, Finished
<1>5. ASSUME NEW p \in Queue \ disturbed
      PROVE  (\E C \in SUBSET reported' : Counted(p, C)') /\ Waiting(p)'
  BY <1>1, <1>4 DEF Account, Counted, Waiting
<1>6. ASSUME NEW p \in Playlists \ disturbed PROVE Newest(p)'
  BY <1>1, <1>4 DEF Account, Newest, IsNewest
<1>7. ASSUME NEW p \in Playlists PROVE FileOf(p)'
  BY <1>1 DEF Account, FileOf
<1> QED
  BY <1>1, <1>3, <1>5, <1>6, <1>7 DEF Account

(* Every step keeps the account.                                           *)
LEMMA AccountKept ==
  ASSUME IInv, Snapshots, Account, [Next]_vars
  PROVE  Account'
<1>0. IInv'
  BY NextInv
<1>1. ASSUME NEW b \in Batches, NEW policy, Enqueue(b.queue, b.tracks, policy) PROVE Account'
  BY <1>0, <1>1, EnqueueKeeps
<1>2. ASSUME NEW S \in SUBSET DOMAIN summary.rows, RetryFromYouTube(S) PROVE Account'
  BY <1>0, <1>2, RetryKeeps
<1>3. ASSUME NEW j, jobs[j].status = "live", NEW status, Ends({j}, status),
             UNCHANGED <<base, summarized, paths, reported, disturbed, fileVars>>
      PROVE  Account'
  BY <1>0, <1>3, EndsKeeps
<1>4. ASSUME NEW j \in Ids, SpotifyEnds(j) PROVE Account'
  <2>1. jobs[j].status = "live" /\ UNCHANGED <<base, summarized, paths, reported, disturbed, fileVars>>
    BY <1>4 DEF SpotifyEnds, pageVars, sessionVars
  <2>2. PICK status \in Outcome : Ends({j}, status)
    BY <1>4 DEF SpotifyEnds
  <2> QED
    BY <1>3, <2>1, <2>2
<1>5. ASSUME NEW j \in Ids, YouTubeEnds(j) PROVE Account'
  <2>1. jobs[j].status = "live" /\ UNCHANGED <<base, summarized, paths, reported, disturbed, fileVars>>
    BY <1>5 DEF YouTubeEnds, sessionVars
  <2>2. PICK status \in Outcome : Ends({j}, status)
    BY <1>5 DEF YouTubeEnds
  <2> QED
    BY <1>3, <2>1, <2>2
<1>6. ASSUME NEW q \in Queue, StopQueue(q) PROVE Account'
  <2>1. PICK S \in SUBSET Live(q) : Ends(S, "cancelled")
    BY <1>6 DEF StopQueue
  <2>2. \A j \in S : jobs[j].status = "live"
    BY DEF Live
  <2>3. UNCHANGED <<base, summarized, paths, reported, disturbed, fileVars>>
    BY <1>6 DEF StopQueue, pageVars, sessionVars
  <2> QED
    BY <1>0, <2>1, <2>2, <2>3, EndsKeeps
<1>7. ASSUME SessionBegins PROVE Account'
  <2>1. PICK S \in SUBSET {j \in listed : jobs[j].status = "live"} : Ends(S, "cancelled")
    BY <1>7 DEF SessionBegins
  <2>2. UNCHANGED <<base, summarized, paths, reported, disturbed, fileVars>>
    BY <1>7 DEF SessionBegins, pageVars
  <2> QED
    BY <1>0, <2>1, <2>2, EndsKeeps
<1>8. ASSUME NEW q \in Queue, OnQueueIdle(q) PROVE Account'
  BY <1>0, <1>8, CallbackKeeps
<1>9. ASSUME NEW q \in Queue, M3U8Written(q) PROVE Account'
  BY <1>9, WrittenKeeps
<1> QED
  BY <1>0, <1>1, <1>2, <1>4, <1>5, <1>6, <1>7, <1>8, <1>9, ClearKeeps, SessionKeeps, NothingKeeps
     DEF Next, Progress

(* The account of what was summarized holds before anything is enqueued.   *)
LEMMA InitAccount == ASSUME Init PROVE Account
<1> USE DEF Init
<1>1. Types /\ OneLive /\ Terminal
  BY DEF Types, OneLive, Ids, Session, Terminal
<1>2. ASSUME NEW q \in Queue
      PROVE  (\E C \in SUBSET reported : Counted(q, C)) /\ Waiting(q) /\ FileOf(q) /\ Newest(q)
  <2>1. Of(q) = {} /\ Spotify(Of(q)) = {} /\ DOMAIN <<>> = {}
    BY DEF Of, Spotify
  <2>2. Counted(q, {})
    BY <2>1, FS_EmptySet DEF Counted
  <2>3. Waiting(q) /\ FileOf(q)
    BY <2>1 DEF Waiting, FileOf
  <2>4. Newest(q)
    BY DEF Newest, IsNewest, Brought, Finished, NoPaths
  <2> QED
    BY <2>2, <2>3, <2>4
<1> QED
  BY <1>1, <1>2, QueueAssumption DEF Account

(* The account holds throughout.                                           *)
THEOREM AccountInvariant == Spec => []Account
<1>1. Init => Snapshots /\ Account
  <2>1. DOMAIN <<>> = {}
    OBVIOUS
  <2>2. Init => Snapshots
    BY <2>1 DEF Init, Snapshots, NoSummary
  <2> QED
    BY <2>2, InitAccount
<1>2. IInv /\ Snapshots /\ Account /\ [Next]_vars => Snapshots' /\ Account'
  BY SnapshotsKept, AccountKept
<1> QED
  BY <1>1, <1>2, Invariant, PTL DEF Spec

(* Every job of an idle queue was summarized, those that were never run    *)
(* because their track is unavailable too, for any queues, batches and     *)
(* numbers of jobs and callbacks, unless the history was cleared under a   *)
(* callback of the queue.                                                  *)
THEOREM EveryJobIsReported == Spec => []NoJobIsMissed
<1>1. Account => NoJobIsMissed
  <2> SUFFICES ASSUME Account, NEW q \in Queue \ disturbed, Idle(q)
               PROVE  {j \in Of(q) : jobs[j].kind = "spotify"} \subseteq reported
    BY DEF NoJobIsMissed
  <2> QED
    BY DEF Account, Waiting, Spotify, Idle
<1> QED
  BY <1>1, AccountInvariant, PTL

(* The playlist file of an idle queue names the newest file of every track *)
(* of the session, also those that were cleared since, unless the page has *)
(* said it could not be written or the history was cleared under a         *)
(* callback of the queue.                                                  *)
THEOREM FilesAreCurrent == Spec => []PlaylistIsCurrent
<1>1. IInv /\ Account => PlaylistIsCurrent
  <2> SUFFICES ASSUME IInv, Account, NEW q \in Playlists \ disturbed, NEW t \in Track,
                      NEW F, F = {j \in Finished(listed \cup reported) :
                                    jobs[j].kind = "spotify" /\ jobs[j].queue = q /\ jobs[j].track = t},
                      Idle(q), F # {}, file[q] # Failed
               PROVE  file[q][t] = Max(F)
    BY DEF PlaylistIsCurrent
  <2>1. file[q] = paths[q]
    BY DEF Idle, Account, FileOf
  <2>2. F = Brought(q, t)
    <3>1. Spotify(Of(q)) \subseteq reported /\ \A j \in reported : jobs[j].kind = "spotify"
      BY QueueAssumption DEF Account, Waiting, Idle, Terminal, Spotify
    <3> QED
      BY <3>1 DEF Finished, Brought, Spotify, Of
  <2>3. F \subseteq 0 .. Len(jobs) /\ F \subseteq Nat /\ Len(jobs) \in Nat
    <3>1. F \subseteq Session
      BY <2>2 DEF Brought, Finished, Account, Terminal, Spotify
    <3> QED
      BY <3>1, SessionJobs DEF IInv
  <2>4. paths[q][t] \in F /\ \A k \in F : k <= paths[q][t]
    BY <2>2 DEF Account, Newest, IsNewest
  <2>5. Max(F) \in F /\ \A k \in F : Max(F) >= k
    BY <2>3, MaxIsMember
  <2>6. ASSUME NEW m \in Nat, NEW n \in Nat, m <= n, m >= n PROVE m = n
    BY <2>6
  <2> QED
    BY <2>1, <2>3, <2>4, <2>5, <2>6
<1> QED
  BY <1>1, Invariant, AccountInvariant, PTL
=============================================================================
