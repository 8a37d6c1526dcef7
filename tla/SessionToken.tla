---------------------------- MODULE SessionToken ----------------------------
(***************************************************************************)
(* The session token of the download site, from the page that fetches and  *)
(* caches it (frontend/src/lib/token-manager.ts, runWithUnauthorizedRetry) *)
(* to the backend that remembers it and replaces it when the site refuses  *)
(* it (backend/spotidownloader.go).                                        *)
(*                                                                         *)
(* Tokens are numbered in the order in which the helper, a browser window, *)
(* obtains them.  Each download asks the page for a token, calls the       *)
(* backend, which makes two requests with a token of its own choice, and   *)
(* after a refusal asks the page to refresh its token and calls again.     *)
(***************************************************************************)
EXTENDS Naturals

CONSTANTS
  Download,
  NoOne,
  MaxToken   \* bound: the tokens the helper obtains

ASSUME DownloadAssumption == NoOne \notin Download
ASSUME TokenAssumption == MaxToken \in Nat

NoToken == 0
Token == 0 .. MaxToken

VARIABLES
  issued,      \* the tokens obtained so far
  dead,        \* the tokens the site no longer accepts
  cached,      \* the token of the page
  fresh,       \* it has not expired
  promise,     \* the download whose fetch new callers join
  fetch,       \* the fetch of the page that a download has started
  brings,      \* the token a fetch returns with
  remembered,  \* the token of the backend
  flight,      \* the download whose worker started the refresh that runs
  landing,     \* how far this refresh is
  bears,       \* the token it brings
  pc, round, call,
  joined,      \* the fetch a download awaits
  first, sent, \* the tokens the page has passed with its two calls
  carries,     \* the token a worker makes its requests with
  stopped      \* the downloads that were cancelled

pageVars == <<cached, fresh, promise, fetch, brings>>
flightVars == <<flight, landing, bears>>
backendVars == <<remembered, flightVars>>
workerVars == <<carries, call>>
siteVars == <<issued, dead>>
callVars == <<round, joined, first, sent>>
vars == <<siteVars, pageVars, backendVars, pc, callVars, workerVars, stopped>>

Init ==
  /\ issued = 0 /\ dead = {}
  /\ cached = NoToken /\ fresh = FALSE
  /\ promise = NoOne
  /\ fetch = [d \in Download |-> "none"] /\ brings = [d \in Download |-> NoToken]
  /\ remembered = NoToken
  /\ flight = NoOne /\ landing = "none" /\ bears = NoToken
  /\ pc = [d \in Download |-> "asking"]
  /\ round = [d \in Download |-> 1] /\ call = [d \in Download |-> "link"]
  /\ joined = [d \in Download |-> NoOne]
  /\ first = [d \in Download |-> NoToken] /\ sent = [d \in Download |-> NoToken]
  /\ carries = [d \in Download |-> NoToken]
  /\ stopped = {}

Goes(d, place) == pc' = [pc EXCEPT ![d] = place]

-----------------------------------------------------------------------------
(* The page: ensureValidToken.                                             *)

\* A signal that is aborted is noticed when the token is there.
Continues(d) == IF d \in stopped THEN "cancelled" ELSE "sent"

Sends(d, t) ==
  /\ sent' = [sent EXCEPT ![d] = t]
  /\ first' = IF round[d] = 1 THEN [first EXCEPT ![d] = t] ELSE first

\* Mutant of TakeCached: a forced call takes the cached token as well.
TakeCachedAlways(d) ==
  /\ pc[d] = "asking"
  /\ cached # NoToken /\ fresh
  /\ Goes(d, Continues(d)) /\ Sends(d, cached)
  /\ UNCHANGED <<siteVars, pageVars, backendVars, round, joined, workerVars, stopped>>

\* Only a call that is not forced takes the cached token.
TakeCached(d) ==
  /\ pc[d] = "asking" /\ round[d] = 1
  /\ cached # NoToken /\ fresh
  /\ Goes(d, Continues(d)) /\ Sends(d, cached)
  /\ UNCHANGED <<siteVars, pageVars, backendVars, round, joined, workerVars, stopped>>

MustFetch(d) ==
  pc[d] = "asking" /\ ~(round[d] = 1 /\ cached # NoToken /\ fresh)

JoinFetch(d) ==
  /\ MustFetch(d) /\ promise # NoOne
  /\ Goes(d, "fetching") /\ joined' = [joined EXCEPT ![d] = promise]
  /\ UNCHANGED <<siteVars, pageVars, backendVars, round, first, sent, workerVars, stopped>>

StartFetch(d) ==
  /\ MustFetch(d) /\ promise = NoOne
  /\ Goes(d, "fetching") /\ joined' = [joined EXCEPT ![d] = d]
  /\ promise' = d /\ fetch' = [fetch EXCEPT ![d] = "running"]
  /\ UNCHANGED <<siteVars, cached, fresh, brings, backendVars, round, first, sent,
                 workerVars, stopped>>

\* FetchSessionTokenWithParams: the helper of the page ends, with a token or
\* with an error.
HelperEnds(o) ==
  /\ fetch[o] = "running"
  /\ \/ /\ issued < MaxToken /\ issued' = issued + 1
        /\ fetch' = [fetch EXCEPT ![o] = "obtained"]
        /\ brings' = [brings EXCEPT ![o] = issued']
     \/ /\ fetch' = [fetch EXCEPT ![o] = "returned"]
        /\ brings' = [brings EXCEPT ![o] = NoToken]
        /\ UNCHANGED issued
  /\ UNCHANGED <<dead, cached, fresh, promise, backendVars, pc, callVars, workerVars, stopped>>

\* The backend remembers the token before it answers the page.
FetchRemembers(o) ==
  /\ fetch[o] = "obtained"
  /\ fetch' = [fetch EXCEPT ![o] = "returned"]
  /\ remembered' = brings[o]
  /\ UNCHANGED <<siteVars, cached, fresh, promise, brings, flightVars, pc, callVars,
                 workerVars, stopped>>

Awaits(d, o) == pc[d] = "fetching" /\ joined[d] = o

\* Everyone who awaits the fetch goes on with its token, or fails with it.
FetchReturns(o) ==
  /\ fetch[o] = "returned"
  /\ fetch' = [fetch EXCEPT ![o] = "none"]
  /\ promise' = IF promise = o THEN NoOne ELSE promise
  /\ \/ brings[o] # NoToken /\ cached' = brings[o] /\ fresh' = TRUE
     \/ brings[o] = NoToken /\ UNCHANGED <<cached, fresh>>
  /\ pc' = [d \in Download |->
              IF ~Awaits(d, o) THEN pc[d]
              ELSE IF brings[o] # NoToken \/ d \in stopped THEN Continues(d)
              ELSE "failed"]
  /\ sent' = [d \in Download |-> IF Awaits(d, o) THEN brings[o] ELSE sent[d]]
  /\ first' = [d \in Download |->
                 IF Awaits(d, o) /\ round[d] = 1 THEN brings[o] ELSE first[d]]
  /\ joined' = [d \in Download |-> IF Awaits(d, o) THEN NoOne ELSE joined[d]]
  /\ brings' = [brings EXCEPT ![o] = NoToken]
  /\ UNCHANGED <<siteVars, backendVars, round, workerVars, stopped>>

-----------------------------------------------------------------------------
(* The backend.  A worker holds the token of its SpotiDownloader; a call   *)
(* asks for the link of the audio, then for the audio.                     *)

\* NewSpotiDownloader: what the backend remembers is preferred to what the
\* page has sent, which is remembered where nothing is.
ReadRemembered(d) ==
  /\ pc[d] = "sent"
  /\ carries' = [carries EXCEPT ![d] = IF remembered # NoToken THEN remembered ELSE sent[d]]
  /\ Goes(d, IF remembered # NoToken THEN "chosen" ELSE "unknown")
  /\ call' = [call EXCEPT ![d] = "link"]
  /\ UNCHANGED <<siteVars, pageVars, backendVars, callVars, stopped>>

\* What was chosen is remembered, whatever others have remembered meanwhile:
\* in getPreferredSessionToken if nothing was, and by the constructor again.
RememberChosen(d) ==
  /\ pc[d] \in {"unknown", "chosen"}
  /\ remembered' = carries[d]
  /\ Goes(d, IF pc[d] = "unknown" THEN "chosen" ELSE "request")
  /\ UNCHANGED <<siteVars, pageVars, flightVars, callVars, workerVars, stopped>>

Accepted(t) == t # NoToken /\ t \notin dead

\* A request the site accepts; it may still bring an error.
Succeeds(d) ==
  /\ pc[d] \in {"request", "again"} /\ Accepted(carries[d])
  /\ \/ /\ call[d] = "link" /\ call' = [call EXCEPT ![d] = "audio"]
        /\ Goes(d, "request")
     \/ /\ call[d] = "audio" /\ UNCHANGED call
        /\ Goes(d, "downloaded")
     \/ Goes(d, "failed") /\ UNCHANGED call
  /\ UNCHANGED <<siteVars, pageVars, backendVars, callVars, carries, stopped>>

\* The context of the download ends its request, or the wait for a refresh.
ContextEnds(d) ==
  /\ d \in stopped /\ pc[d] \in {"request", "again", "waiting"}
  /\ Goes(d, "cancelled")
  /\ UNCHANGED <<siteVars, pageVars, backendVars, callVars, workerVars, stopped>>

\* withSessionToken: the first refusal leads to a refresh.
Refused(d) ==
  /\ pc[d] = "request" /\ ~Accepted(carries[d])
  /\ Goes(d, IF d \in stopped THEN "cancelled" ELSE "refresh")
  /\ UNCHANGED <<siteVars, pageVars, backendVars, callVars, workerVars, stopped>>

\* The second refusal is the result of the call.  If it says 401 or 403 (the
\* site also refuses with 400 and a message), runWithUnauthorizedRetry forces
\* a refresh by the page, once.
RefusedAgain(d) ==
  /\ pc[d] = "again" /\ ~Accepted(carries[d])
  /\ \/ d \in stopped /\ Goes(d, "cancelled") /\ UNCHANGED round
     \/ d \notin stopped /\ Goes(d, "failed") /\ UNCHANGED round
     \/ /\ d \notin stopped /\ round[d] = 1
        /\ Goes(d, "asking") /\ round' = [round EXCEPT ![d] = 2]
  /\ UNCHANGED <<siteVars, pageVars, backendVars, joined, first, sent, workerVars, stopped>>

-----------------------------------------------------------------------------
(* refreshSessionToken.                                                    *)

\* Another worker has replaced the token that was refused.
Adopt(d) ==
  /\ pc[d] = "refresh"
  /\ remembered # NoToken /\ remembered # carries[d]
  /\ carries' = [carries EXCEPT ![d] = remembered]
  /\ Goes(d, "again")
  /\ UNCHANGED <<siteVars, pageVars, backendVars, callVars, call, stopped>>

NoReplacement(d) ==
  /\ pc[d] = "refresh" /\ remembered \in {NoToken, carries[d]}
  /\ Goes(d, "joining")
  /\ UNCHANGED <<siteVars, pageVars, backendVars, callVars, workerVars, stopped>>

\* sessionTokenRefresh.DoChan: the refresh that is registered is joined, also
\* if its token is remembered already; otherwise one is started.
DoChan(d) ==
  /\ pc[d] = "joining"
  /\ IF flight = NoOne
     THEN flight' = d /\ landing' = "running" /\ bears' = NoToken
     ELSE UNCHANGED flightVars
  /\ Goes(d, "waiting")
  /\ UNCHANGED <<siteVars, pageVars, remembered, callVars, workerVars, stopped>>

\* The helper of the refresh ends, with a token or with an error.  It does not
\* end with the context of the worker that started it.
RefreshObtains ==
  /\ flight # NoOne /\ landing = "running"
  /\ \/ /\ issued < MaxToken /\ issued' = issued + 1
        /\ bears' = issued' /\ landing' = "obtained"
     \/ landing' = "over" /\ UNCHANGED <<issued, bears>>
  /\ UNCHANGED <<dead, pageVars, remembered, flight, pc, callVars, workerVars, stopped>>

RefreshRemembers ==
  /\ flight # NoOne /\ landing = "obtained"
  /\ remembered' = bears /\ landing' = "over"
  /\ UNCHANGED <<siteVars, pageVars, flight, bears, pc, callVars, workerVars, stopped>>

\* All that wait go on with what the refresh brings, or to the given place.
Answered(place) ==
  /\ carries' = [d \in Download |->
                   IF pc[d] = "waiting" /\ bears # NoToken THEN bears ELSE carries[d]]
  /\ pc' = [d \in Download |-> IF pc[d] # "waiting" THEN pc[d]
                             ELSE IF bears # NoToken THEN "again" ELSE place]

Unregistered == flight' = NoOne /\ landing' = "none" /\ bears' = NoToken

\* Mutant of RefreshEnds: those that wait hear only of a token.
RefreshEndsOnSuccess ==
  /\ flight # NoOne /\ landing = "over" /\ Unregistered
  /\ Answered("waiting")
  /\ UNCHANGED <<siteVars, pageVars, remembered, callVars, call, stopped>>

\* Mutant of RefreshEnds: the refresh has the context of its first worker, and
\* all that wait are told that it was cancelled.
RefreshEndsWithStarter ==
  /\ flight # NoOne /\ landing = "over" /\ Unregistered
  /\ Answered(IF flight \in stopped THEN "cancelled" ELSE "failed")
  /\ UNCHANGED <<siteVars, pageVars, remembered, callVars, call, stopped>>

\* The refresh is removed and answers all that have joined it, at one time.
RefreshEnds ==
  /\ flight # NoOne /\ landing = "over" /\ Unregistered
  /\ Answered("failed")
  /\ UNCHANGED <<siteVars, pageVars, remembered, callVars, call, stopped>>

-----------------------------------------------------------------------------
(* What happens to them.                                                   *)

Stop(d) ==
  /\ d \notin stopped /\ stopped' = stopped \cup {d}
  /\ UNCHANGED <<siteVars, pageVars, backendVars, pc, callVars, workerVars>>

\* Less than thirty seconds are left of the three minutes of a token.
CacheExpires ==
  /\ fresh /\ fresh' = FALSE
  /\ UNCHANGED <<siteVars, cached, promise, fetch, brings, backendVars, pc, callVars,
                 workerVars, stopped>>

\* The site stops accepting a token.
TokenDies ==
  /\ \E t \in (1 .. issued) \ dead : dead' = dead \cup {t}
  /\ UNCHANGED <<issued, pageVars, backendVars, pc, callVars, workerVars, stopped>>

Step(d) ==
  \/ TakeCached(d) \/ JoinFetch(d) \/ StartFetch(d)
  \/ ReadRemembered(d) \/ RememberChosen(d) \/ Succeeds(d) \/ ContextEnds(d)
  \/ Refused(d) \/ RefusedAgain(d)
  \/ Adopt(d) \/ NoReplacement(d) \/ DoChan(d)

Next ==
  \/ \E d \in Download :
       Step(d) \/ HelperEnds(d) \/ FetchRemembers(d) \/ FetchReturns(d) \/ Stop(d)
  \/ RefreshObtains \/ RefreshRemembers \/ RefreshEnds
  \/ CacheExpires \/ TokenDies

Spec == Init /\ [][Next]_vars

\* The helper and the requests have timeouts; the rest are callbacks.
FairSpec ==
  /\ Spec
  /\ WF_vars(RefreshObtains \/ RefreshRemembers \/ RefreshEnds)
  /\ \A d \in Download :
       /\ WF_vars(Step(d))
       /\ WF_vars(HelperEnds(d) \/ FetchRemembers(d) \/ FetchReturns(d))

-----------------------------------------------------------------------------
(* Properties.                                                             *)

\* Types of the variables.
TokenTypeOK ==
  /\ issued \in Nat /\ dead \subseteq Nat
  /\ cached \in Nat /\ fresh \in BOOLEAN /\ promise \in Download \cup {NoOne}
  /\ fetch \in [Download -> {"none", "running", "obtained", "returned"}]
  /\ brings \in [Download -> Nat]
  /\ remembered \in Nat /\ flight \in Download \cup {NoOne}
  /\ landing \in {"none", "running", "obtained", "over"} /\ bears \in Nat
  /\ pc \in [Download -> {"asking", "fetching", "sent", "unknown", "chosen", "request",
                          "refresh", "joining", "waiting", "again", "downloaded",
                          "failed", "cancelled"}]
  /\ round \in [Download -> {1, 2}] /\ call \in [Download -> {"link", "audio"}]
  /\ joined \in [Download -> Download \cup {NoOne}]
  /\ first \in [Download -> Nat] /\ sent \in [Download -> Nat]
  /\ carries \in [Download -> Nat]
  /\ stopped \subseteq Download

\* However many downloads ask, forced or not, the page opens one browser
\* window at a time (token-manager.test.ts:44), and whoever waits, waits for it.
OneFetch ==
  \A d \in Download :
    /\ fetch[d] # "none" => promise = d
    /\ pc[d] = "fetching" =>
         promise # NoOne /\ promise = joined[d] /\ fetch[promise] # "none"

\* A forced refresh joins a fetch that runs already; its token is all the same
\* younger than the one the download started with.
RefreshIsNewer ==
  \A d \in Download :
    round[d] = 2 /\ pc[d] \notin {"asking", "fetching"} /\ sent[d] # NoToken
      => sent[d] > first[d]

\* A stop ends the download that was stopped, and not those that wait for the
\* refresh, or the fetch of the page, that it has started.
StopIsPrivate ==
  \A d \in Download : pc[d] = "cancelled" => d \in stopped

\* Every download ends, however its tokens are refused or its refreshes fail.
DownloadsEnd ==
  \A d \in Download : <>(pc[d] \in {"downloaded", "failed", "cancelled"})
=============================================================================
