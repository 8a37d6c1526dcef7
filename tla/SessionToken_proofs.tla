------------------------ MODULE SessionToken_proofs -------------------------
(***************************************************************************)
(* Proofs about SessionToken, for every set of downloads and every number  *)
(* of tokens.                                                              *)
(*                                                                         *)
(* The argument: tokens are numbered upwards, so a fetch or a refresh that *)
(* still runs brings one that is younger than all tokens in use (Issued).  *)
(* As the page has one fetch at a time (OneFetch), the tokens it caches    *)
(* grow, and the first token of every download is among them (Grows).      *)
(* Nothing is claimed of the order in which the backend remembers them.    *)
(***************************************************************************)
EXTENDS SessionToken, TLAPS

\* No token is in use that was not issued.
Issued ==
  /\ cached <= issued /\ remembered <= issued /\ bears <= issued
  /\ \A d \in Download :
       brings[d] <= issued /\ sent[d] <= issued /\ carries[d] <= issued

\* What the page fetches is younger than what it has cached and passed on.
Grows ==
  /\ \A d \in Download : first[d] <= cached
  /\ \A d \in Download :
       fetch[d] \in {"obtained", "returned"} /\ brings[d] # NoToken => brings[d] > cached

\* The page awaits what it has promised.
Promised == promise # NoOne => fetch[promise] # "none"

IInv ==
  /\ TokenTypeOK /\ OneFetch /\ Promised /\ Issued /\ Grows
  /\ RefreshIsNewer /\ StopIsPrivate

-----------------------------------------------------------------------------
\* Initially nothing was fetched, sent or refused.
LEMMA InitInv == Init => IInv
<1> SUFFICES ASSUME Init PROVE IInv
  OBVIOUS
<1>1. TokenTypeOK
  BY DEF Init, TokenTypeOK, NoToken
<1>2. OneFetch /\ Promised /\ StopIsPrivate /\ RefreshIsNewer
  BY DEF Init, OneFetch, Promised, StopIsPrivate, RefreshIsNewer
<1>3. Issued /\ Grows
  BY DEF Init, Issued, Grows, NoToken
<1> QED
  BY <1>1, <1>2, <1>3 DEF IInv

\* A call that takes the cached token, joins a fetch or starts one.
LEMMA AskingKeeps ==
  ASSUME IInv, NEW e \in Download, TakeCached(e) \/ JoinFetch(e) \/ StartFetch(e)
  PROVE  IInv'
<1>1. CASE TakeCached(e)
  <2> USE <1>1 DEF TakeCached, Goes, Continues, Sends,
              siteVars, pageVars, backendVars, flightVars, callVars, workerVars
  <2>1. TokenTypeOK'
    BY DEF IInv, TokenTypeOK
  <2>2. (OneFetch /\ Promised)'
    BY DEF IInv, TokenTypeOK, OneFetch, Promised
  <2>3. (Issued /\ Grows)'
    BY DEF IInv, TokenTypeOK, Issued, Grows
  <2>4. StopIsPrivate'
    BY DEF IInv, TokenTypeOK, StopIsPrivate
  <2>5. RefreshIsNewer'
    BY DEF IInv, TokenTypeOK, RefreshIsNewer
  <2> QED
    BY <2>1, <2>2, <2>3, <2>4, <2>5 DEF IInv
<1>2. CASE JoinFetch(e)
  <2> USE <1>2 DEF JoinFetch, MustFetch, Goes,
              siteVars, pageVars, backendVars, flightVars, callVars, workerVars
  <2>1. TokenTypeOK'
    BY DEF IInv, TokenTypeOK
  <2>2. (OneFetch /\ Promised)'
    BY DEF IInv, TokenTypeOK, OneFetch, Promised
  <2>3. (Issued /\ Grows)'
    BY DEF IInv, TokenTypeOK, Issued, Grows
  <2>4. StopIsPrivate'
    BY DEF IInv, TokenTypeOK, StopIsPrivate
  <2>5. RefreshIsNewer'
    BY DEF IInv, TokenTypeOK, RefreshIsNewer
  <2> QED
    BY <2>1, <2>2, <2>3, <2>4, <2>5 DEF IInv
<1>3. CASE StartFetch(e)
  <2> USE <1>3 DEF StartFetch, MustFetch, Goes,
              siteVars, pageVars, backendVars, flightVars, callVars, workerVars
  <2>1. TokenTypeOK'
    BY DEF IInv, TokenTypeOK
  <2>2. (OneFetch /\ Promised)'
    <3>1. \A d \in Download : fetch[d] = "none" /\ pc[d] # "fetching"
      BY DownloadAssumption DEF IInv, OneFetch
    <3> QED
      BY <3>1, DownloadAssumption DEF IInv, TokenTypeOK, OneFetch, Promised
  <2>3. (Issued /\ Grows)'
    BY DEF IInv, TokenTypeOK, Issued, Grows
  <2>4. StopIsPrivate'
    BY DEF IInv, TokenTypeOK, StopIsPrivate
  <2>5. RefreshIsNewer'
    BY DEF IInv, TokenTypeOK, RefreshIsNewer
  <2> QED
    BY <2>1, <2>2, <2>3, <2>4, <2>5 DEF IInv
<1> QED
  BY <1>1, <1>2, <1>3

\* The helper of the page ends, with a token that is younger than all others,
\* and the backend remembers it.
LEMMA HelperKeeps ==
  ASSUME IInv, NEW o \in Download, HelperEnds(o) \/ FetchRemembers(o)
  PROVE  IInv'
<1>1. CASE HelperEnds(o)
  <2> USE <1>1 DEF HelperEnds, NoToken,
              siteVars, pageVars, backendVars, flightVars, callVars, workerVars
  <2>1. TokenTypeOK'
    BY DEF IInv, TokenTypeOK
  <2>2. (OneFetch /\ Promised)'
    BY DEF IInv, TokenTypeOK, OneFetch, Promised
  <2>3. Issued'
    BY DEF IInv, TokenTypeOK, Issued
  <2>4. Grows'
    BY DEF IInv, TokenTypeOK, Issued, Grows
  <2>5. (StopIsPrivate /\ RefreshIsNewer)'
    BY DEF IInv, StopIsPrivate, RefreshIsNewer
  <2> QED
    BY <2>1, <2>2, <2>3, <2>4, <2>5 DEF IInv
<1>2. CASE FetchRemembers(o)
  <2> USE <1>2 DEF FetchRemembers, NoToken,
              siteVars, pageVars, backendVars, flightVars, callVars, workerVars
  <2>1. TokenTypeOK'
    BY DEF IInv, TokenTypeOK
  <2>2. (OneFetch /\ Promised)'
    BY DEF IInv, TokenTypeOK, OneFetch, Promised
  <2>3. Issued'
    BY DEF IInv, TokenTypeOK, Issued
  <2>4. Grows'
    BY DEF IInv, TokenTypeOK, Issued, Grows
  <2>5. (StopIsPrivate /\ RefreshIsNewer)'
    BY DEF IInv, StopIsPrivate, RefreshIsNewer
  <2> QED
    BY <2>1, <2>2, <2>3, <2>4, <2>5 DEF IInv
<1> QED
  BY <1>1, <1>2

\* A fetch of the page returns to all that await it.
LEMMA FetchKeeps ==
  ASSUME IInv, NEW o \in Download, FetchReturns(o)
  PROVE  IInv'
<1> USE DEF FetchReturns, Awaits, Continues, NoToken,
            siteVars, pageVars, backendVars, flightVars, callVars, workerVars
<1>1. TokenTypeOK'
  BY DEF IInv, TokenTypeOK
<1>2. promise = o /\ promise' = NoOne
  BY DEF IInv, OneFetch
<1>3. \A d \in Download : pc'[d] # "fetching"
  BY <1>2 DEF IInv, TokenTypeOK, OneFetch
<1>4. \A d \in Download : fetch'[d] = "none"
  BY <1>2 DEF IInv, TokenTypeOK, OneFetch
<1>5. (OneFetch /\ Promised)'
  BY <1>2, <1>3, <1>4 DEF OneFetch, Promised
<1>6. Issued'
  BY DEF IInv, TokenTypeOK, Issued
<1>7. cached' \in Nat /\ cached <= cached' /\ (brings[o] # NoToken => cached' = brings[o])
  BY DEF IInv, TokenTypeOK, Grows
<1>8. Grows'
  <2>1. \A d \in Download : first'[d] <= cached'
    <3> SUFFICES ASSUME NEW d \in Download PROVE first'[d] <= cached'
      OBVIOUS
    <3>1. CASE Awaits(d, o) /\ round[d] = 1
      BY <3>1, <1>7 DEF IInv, TokenTypeOK, NoToken
    <3>2. CASE ~(Awaits(d, o) /\ round[d] = 1)
      BY <3>2, <1>7 DEF IInv, TokenTypeOK, Grows
    <3> QED
      BY <3>1, <3>2
  <2> QED
    BY <2>1, <1>4 DEF Grows
<1>9. StopIsPrivate'
  BY DEF IInv, TokenTypeOK, StopIsPrivate
<1>10. RefreshIsNewer'
  BY DEF IInv, TokenTypeOK, RefreshIsNewer, Grows, NoToken
<1> QED
  BY <1>1, <1>5, <1>6, <1>8, <1>9, <1>10 DEF IInv

\* The steps of a worker between two requests leave the page alone.
LEMMA WorkerKeeps ==
  ASSUME IInv, NEW e \in Download,
         \/ ReadRemembered(e) \/ RememberChosen(e) \/ Succeeds(e) \/ ContextEnds(e) \/ Refused(e)
         \/ Adopt(e) \/ NoReplacement(e) \/ DoChan(e)
  PROVE  IInv'
<1>1. CASE ReadRemembered(e)
  <2> USE <1>1 DEF ReadRemembered, Goes,
              siteVars, pageVars, backendVars, flightVars, callVars, workerVars
  <2>1. TokenTypeOK'
    BY DEF IInv, TokenTypeOK
  <2>2. (OneFetch /\ Promised /\ StopIsPrivate)'
    BY DEF IInv, TokenTypeOK, OneFetch, Promised, StopIsPrivate
  <2>3. (Issued /\ Grows)'
    BY DEF IInv, TokenTypeOK, Issued, Grows
  <2>4. RefreshIsNewer'
    BY DEF IInv, TokenTypeOK, RefreshIsNewer
  <2> QED
    BY <2>1, <2>2, <2>3, <2>4 DEF IInv
<1>2. CASE RememberChosen(e)
  <2> USE <1>2 DEF RememberChosen, Goes,
              siteVars, pageVars, backendVars, flightVars, callVars, workerVars
  <2>1. TokenTypeOK'
    BY DEF IInv, TokenTypeOK
  <2>2. (OneFetch /\ Promised /\ StopIsPrivate)'
    BY DEF IInv, TokenTypeOK, OneFetch, Promised, StopIsPrivate
  <2>3. (Issued /\ Grows)'
    BY DEF IInv, TokenTypeOK, Issued, Grows
  <2>4. RefreshIsNewer'
    BY DEF IInv, TokenTypeOK, RefreshIsNewer
  <2> QED
    BY <2>1, <2>2, <2>3, <2>4 DEF IInv
<1>3. CASE Succeeds(e)
  <2> USE <1>3 DEF Succeeds, Goes,
              siteVars, pageVars, backendVars, flightVars, callVars, workerVars
  <2>1. TokenTypeOK'
    BY DEF IInv, TokenTypeOK
  <2>2. (OneFetch /\ Promised /\ StopIsPrivate)'
    BY DEF IInv, TokenTypeOK, OneFetch, Promised, StopIsPrivate
  <2>3. (Issued /\ Grows)'
    BY DEF IInv, Issued, Grows
  <2>4. RefreshIsNewer'
    BY DEF IInv, TokenTypeOK, RefreshIsNewer
  <2> QED
    BY <2>1, <2>2, <2>3, <2>4 DEF IInv
<1>4. CASE ContextEnds(e) \/ NoReplacement(e)
  <2> USE <1>4 DEF ContextEnds, NoReplacement, Goes,
              siteVars, pageVars, backendVars, flightVars, callVars, workerVars
  <2>1. TokenTypeOK'
    BY DEF IInv, TokenTypeOK
  <2>2. (OneFetch /\ Promised /\ StopIsPrivate)'
    BY DEF IInv, TokenTypeOK, OneFetch, Promised, StopIsPrivate
  <2>3. (Issued /\ Grows)'
    BY DEF IInv, Issued, Grows
  <2>4. RefreshIsNewer'
    BY DEF IInv, TokenTypeOK, RefreshIsNewer
  <2> QED
    BY <2>1, <2>2, <2>3, <2>4 DEF IInv
<1>5. CASE Refused(e)
  <2> USE <1>5 DEF Refused, Goes,
              siteVars, pageVars, backendVars, flightVars, callVars, workerVars
  <2>1. TokenTypeOK'
    BY DEF IInv, TokenTypeOK
  <2>2. (OneFetch /\ Promised /\ StopIsPrivate)'
    BY DEF IInv, TokenTypeOK, OneFetch, Promised, StopIsPrivate
  <2>3. (Issued /\ Grows)'
    BY DEF IInv, TokenTypeOK, Issued, Grows
  <2>4. RefreshIsNewer'
    BY DEF IInv, TokenTypeOK, RefreshIsNewer
  <2> QED
    BY <2>1, <2>2, <2>3, <2>4 DEF IInv
<1>6. CASE Adopt(e)
  <2> USE <1>6 DEF Adopt, Goes,
              siteVars, pageVars, backendVars, flightVars, callVars, workerVars
  <2>1. TokenTypeOK'
    BY DEF IInv, TokenTypeOK
  <2>2. (OneFetch /\ Promised /\ StopIsPrivate)'
    BY DEF IInv, TokenTypeOK, OneFetch, Promised, StopIsPrivate
  <2>3. (Issued /\ Grows)'
    BY DEF IInv, TokenTypeOK, Issued, Grows
  <2>4. RefreshIsNewer'
    BY DEF IInv, TokenTypeOK, RefreshIsNewer
  <2> QED
    BY <2>1, <2>2, <2>3, <2>4 DEF IInv
<1>7. CASE DoChan(e)
  <2> USE <1>7 DEF DoChan, Goes, NoToken,
              siteVars, pageVars, backendVars, flightVars, callVars, workerVars
  <2>1. TokenTypeOK'
    BY DEF IInv, TokenTypeOK
  <2>2. (OneFetch /\ Promised /\ StopIsPrivate)'
    BY DEF IInv, TokenTypeOK, OneFetch, Promised, StopIsPrivate
  <2>3. (Issued /\ Grows)'
    BY DEF IInv, TokenTypeOK, Issued, Grows
  <2>4. RefreshIsNewer'
    BY DEF IInv, TokenTypeOK, RefreshIsNewer
  <2> QED
    BY <2>1, <2>2, <2>3, <2>4 DEF IInv
<1> QED
  BY <1>1, <1>2, <1>3, <1>4, <1>5, <1>6, <1>7

\* A second refusal ends the call, and may lead to the second round.
LEMMA RefusedAgainKeeps ==
  ASSUME IInv, NEW e \in Download, RefusedAgain(e)
  PROVE  IInv'
<1> USE DEF RefusedAgain, Goes,
            siteVars, pageVars, backendVars, flightVars, callVars, workerVars
<1>1. TokenTypeOK'
  BY DEF IInv, TokenTypeOK
<1>2. (OneFetch /\ Promised /\ StopIsPrivate)'
  BY DEF IInv, TokenTypeOK, OneFetch, Promised, StopIsPrivate
<1>3. (Issued /\ Grows)'
  BY DEF IInv, TokenTypeOK, Issued, Grows
<1>4. RefreshIsNewer'
  BY DEF IInv, TokenTypeOK, RefreshIsNewer
<1> QED
  BY <1>1, <1>2, <1>3, <1>4 DEF IInv

\* A refresh obtains a token, remembers it and answers all that wait for it.
LEMMA RefreshKeeps ==
  ASSUME IInv, RefreshObtains \/ RefreshRemembers \/ RefreshEnds
  PROVE  IInv'
<1> USE DEF NoToken,
            siteVars, pageVars, backendVars, flightVars, callVars, workerVars
<1>1. CASE RefreshObtains
  <2> USE <1>1 DEF RefreshObtains
  <2>1. TokenTypeOK'
    BY DEF IInv, TokenTypeOK
  <2>2. (OneFetch /\ Promised)'
    BY DEF IInv, OneFetch, Promised
  <2>3. (Issued /\ Grows)'
    BY DEF IInv, TokenTypeOK, Issued, Grows
  <2>4. (StopIsPrivate /\ RefreshIsNewer)'
    BY DEF IInv, StopIsPrivate, RefreshIsNewer
  <2> QED
    BY <2>1, <2>2, <2>3, <2>4 DEF IInv
<1>2. CASE RefreshRemembers
  <2> USE <1>2 DEF RefreshRemembers
  <2>1. TokenTypeOK'
    BY DEF IInv, TokenTypeOK
  <2>2. (OneFetch /\ Promised)'
    BY DEF IInv, OneFetch, Promised
  <2>3. (Issued /\ Grows)'
    BY DEF IInv, TokenTypeOK, Issued, Grows
  <2>4. (StopIsPrivate /\ RefreshIsNewer)'
    BY DEF IInv, StopIsPrivate, RefreshIsNewer
  <2> QED
    BY <2>1, <2>2, <2>3, <2>4 DEF IInv
<1>3. CASE RefreshEnds
  <2> USE <1>3 DEF RefreshEnds, Unregistered, Answered
  <2>1. TokenTypeOK'
    BY DEF IInv, TokenTypeOK
  <2>2. (OneFetch /\ Promised)'
    BY DEF IInv, TokenTypeOK, OneFetch, Promised
  <2>3. (Issued /\ Grows)'
    BY DEF IInv, TokenTypeOK, Issued, Grows
  <2>4. (StopIsPrivate /\ RefreshIsNewer)'
    BY DEF IInv, TokenTypeOK, StopIsPrivate, RefreshIsNewer
  <2> QED
    BY <2>1, <2>2, <2>3, <2>4 DEF IInv
<1> QED
  BY <1>1, <1>2, <1>3

\* Stops and expiries touch no token.
LEMMA EnvironmentKeeps ==
  ASSUME IInv, CacheExpires \/ TokenDies \/ \E d \in Download : Stop(d)
  PROVE  IInv'
<1> USE DEF CacheExpires, TokenDies, Stop,
            siteVars, pageVars, backendVars, flightVars, callVars, workerVars
<1>1. TokenTypeOK'
  <2>1. 1 .. issued \subseteq Nat
    BY DEF IInv, TokenTypeOK
  <2>2. dead' \subseteq Nat
    <3>1. dead \subseteq Nat
      BY DEF IInv, TokenTypeOK
    <3>2. CASE TokenDies
      <4>1. PICK t \in (1 .. issued) \ dead : dead' = dead \cup {t}
        BY <3>2
      <4> QED
        BY <2>1, <3>1, <4>1
    <3>3. CASE dead' = dead
      BY <3>1, <3>3
    <3> QED
      BY <3>2, <3>3
  <2>3. fresh' \in BOOLEAN /\ stopped' \subseteq Download
    BY DEF IInv, TokenTypeOK
  <2> QED
    BY <2>2, <2>3 DEF IInv, TokenTypeOK
<1>2. (OneFetch /\ Promised /\ RefreshIsNewer)'
  BY DEF IInv, OneFetch, Promised, RefreshIsNewer
<1>3. (Issued /\ Grows /\ StopIsPrivate)'
  BY DEF IInv, Issued, Grows, StopIsPrivate
<1> QED
  BY <1>1, <1>2, <1>3 DEF IInv

\* Nothing changes in a stuttering step.
LEMMA StutterKeeps == ASSUME IInv, UNCHANGED vars PROVE IInv'
<1> USE DEF vars,
            siteVars, pageVars, backendVars, flightVars, callVars, workerVars
<1>1. (TokenTypeOK /\ OneFetch /\ Promised /\ Issued /\ Grows)'
  BY DEF IInv, TokenTypeOK, OneFetch, Promised, Issued, Grows
<1>2. (RefreshIsNewer /\ StopIsPrivate)'
  BY DEF IInv, RefreshIsNewer, StopIsPrivate
<1> QED
  BY <1>1, <1>2 DEF IInv

\* The inductive invariant holds in every reachable state.
THEOREM Invariant == Spec => []IInv
<1>1. IInv /\ [Next]_vars => IInv'
  <2> SUFFICES ASSUME IInv, [Next]_vars PROVE IInv'
    OBVIOUS
  <2>1. CASE UNCHANGED vars
    BY <2>1, StutterKeeps
  <2>2. ASSUME NEW d \in Download, Step(d) PROVE IInv'
    BY <2>2, AskingKeeps, WorkerKeeps, RefusedAgainKeeps DEF Step
  <2>3. ASSUME NEW d \in Download,
               HelperEnds(d) \/ FetchRemembers(d) \/ FetchReturns(d) \/ Stop(d)
        PROVE  IInv'
    BY <2>3, HelperKeeps, FetchKeeps, EnvironmentKeeps
  <2>4. CASE RefreshObtains \/ RefreshRemembers \/ RefreshEnds \/ CacheExpires \/ TokenDies
    BY <2>4, RefreshKeeps, EnvironmentKeeps
  <2> QED
    BY <2>1, <2>2, <2>3, <2>4 DEF Next
<1> QED
  BY <1>1, InitInv, PTL DEF Spec

\* Types of the session token's variables.
THEOREM TypeCorrect == Spec => []TokenTypeOK
<1>1. IInv => TokenTypeOK
  BY DEF IInv
<1> QED
  BY <1>1, Invariant, PTL

\* However many downloads ask, the page has one fetch, and all wait for it.
THEOREM FetchIsShared == Spec => []OneFetch
<1>1. IInv => OneFetch
  BY DEF IInv
<1> QED
  BY <1>1, Invariant, PTL

\* A refresh forced by a refusal brings a younger token than the first call's.
THEOREM RefreshBringsNewer == Spec => []RefreshIsNewer
<1>1. IInv => RefreshIsNewer
  BY DEF IInv
<1> QED
  BY <1>1, Invariant, PTL

\* A download is cancelled only if it was stopped itself.
THEOREM CancelIsPrivate == Spec => []StopIsPrivate
<1>1. IInv => StopIsPrivate
  BY DEF IInv
<1> QED
  BY <1>1, Invariant, PTL
=============================================================================
