---------------------------- MODULE CacheLookup ----------------------------
(***************************************************************************)
(* Concurrent lookups of one key of the metadata cache: CachedLookup of    *)
(* backend/metadata_cache.go.                                              *)
(*                                                                         *)
(* Every caller looks the key up once.  The first one that finds nothing   *)
(* starts a flight, a goroutine that looks again and asks the source with  *)
(* the context of that caller; the others wait for its answer.  A flight   *)
(* is named after the caller that started it.                              *)
(***************************************************************************)
EXTENDS FiniteSets, Naturals

CONSTANTS
  Callers,
  Times,     \* bound: the times of access that are told apart
  NoFlight, Absent

ASSUME CallersAssumption == NoFlight \notin Callers

VARIABLES
  entry,      \* what the cache holds for the key
  pc,         \* where a caller is
  cancelled,  \* the callers whose context is cancelled
  seen,       \* the entry a caller, or its flight, has read
  joined,     \* the flight a caller waits for
  answer,     \* what a caller was answered
  flights,    \* the flight that new callers join
  flight,     \* where the goroutine of a flight is
  result      \* what a flight brings

lookupVars == <<entry, pc, cancelled, seen, joined, answer, flights, flight, result>>

callerVars == <<pc, joined, answer, flights>>
flightVars == <<flight, result>>

\* An entry written by an older version may hold a value that is of no use.
Entry == [value : {"usable", "unusable"}, access : Times]

ASSUME AbsentAssumption == Absent \notin Entry

Usable(e) == e # Absent /\ e.value = "usable"

LookupInit ==
  /\ entry \in Entry \cup {Absent}
  /\ pc = [c \in Callers |-> "new"] /\ cancelled = {}
  /\ seen = [c \in Callers |-> Absent]
  /\ joined = [c \in Callers |-> NoFlight]
  /\ answer = [c \in Callers |-> "none"]
  /\ flights = NoFlight
  /\ flight = [c \in Callers |-> "none"] /\ result = [c \in Callers |-> "none"]

-----------------------------------------------------------------------------
(* The store.                                                              *)

\* lookupRaw: a read moves the time of access.
LookupRaw(c) ==
  /\ \/ entry = Absent /\ UNCHANGED entry
     \/ entry # Absent /\ \E t \in Times : entry' = [entry EXCEPT !.access = t]
  /\ seen' = [seen EXCEPT ![c] = entry']

\* Mutant of DeleteRawIfEqual: what was read is not compared.
DeleteRaw(c) == entry' = Absent

DeleteRawIfEqual(c) == entry' = IF entry = seen[c] THEN Absent ELSE entry

\* The entry expires, or makes room for others.
Expire ==
  /\ entry # Absent
  /\ entry' = Absent
  /\ UNCHANGED <<pc, cancelled, seen, joined, answer, flights, flight, result>>

-----------------------------------------------------------------------------
(* A caller.                                                               *)

Answer(c, a) ==
  /\ pc' = [pc EXCEPT ![c] = "done"]
  /\ answer' = [answer EXCEPT ![c] = a]

Cancel(c) ==
  /\ pc[c] # "done" /\ c \notin cancelled
  /\ cancelled' = cancelled \cup {c}
  /\ UNCHANGED <<entry, seen, callerVars, flightVars>>

Refused(c) ==
  /\ pc[c] = "new" /\ c \in cancelled
  /\ Answer(c, "cancelled")
  /\ UNCHANGED <<entry, cancelled, seen, joined, flights, flightVars>>

Look(c) ==
  /\ pc[c] = "new" /\ c \notin cancelled
  /\ LookupRaw(c)
  /\ \/ Usable(entry) /\ Answer(c, "value")
     \/ /\ ~Usable(entry)
        /\ pc' = [pc EXCEPT ![c] = IF entry = Absent THEN "joining" ELSE "dropping"]
        /\ UNCHANGED answer
  /\ UNCHANGED <<cancelled, joined, flights, flightVars>>

Drop(c) ==
  /\ pc[c] = "dropping"
  /\ DeleteRawIfEqual(c)
  /\ pc' = [pc EXCEPT ![c] = "joining"]
  /\ UNCHANGED <<cancelled, seen, joined, answer, flights, flightVars>>

\* doChan: the flight of the key is joined, or one is started.
Join(c) ==
  /\ pc[c] = "joining"
  /\ pc' = [pc EXCEPT ![c] = "waiting"]
  /\ \/ /\ flights # NoFlight
        /\ joined' = [joined EXCEPT ![c] = flights]
        /\ UNCHANGED <<flights, flight>>
     \/ /\ flights = NoFlight
        /\ joined' = [joined EXCEPT ![c] = c]
        /\ flights' = c
        /\ flight' = [flight EXCEPT ![c] = "looking"]
  /\ UNCHANGED <<entry, cancelled, seen, answer, result>>

\* The wait ends with the context or with the flight.
GiveUp(c) ==
  /\ pc[c] = "waiting" /\ c \in cancelled
  /\ Answer(c, "cancelled")
  /\ UNCHANGED <<entry, cancelled, seen, joined, flights, flightVars>>

TakeResult(c) ==
  /\ pc[c] = "waiting" /\ flight[joined[c]] = "ended"
  /\ Answer(c, result[joined[c]])
  /\ UNCHANGED <<entry, cancelled, seen, joined, flights, flightVars>>

Caller(c) ==
  Refused(c) \/ Look(c) \/ Drop(c) \/ Join(c) \/ GiveUp(c) \/ TakeResult(c)

-----------------------------------------------------------------------------
(* The goroutine of a flight.                                              *)

Brings(o, r) ==
  /\ flight' = [flight EXCEPT ![o] = "returned"]
  /\ result' = [result EXCEPT ![o] = r]

GoesTo(o, place) == flight' = [flight EXCEPT ![o] = place] /\ UNCHANGED result

\* An earlier flight may have stored the value since the caller looked.
LookAgain(o) ==
  /\ flight[o] \in {"looking", "lookingAgain"}
  /\ LookupRaw(o)
  /\ \/ Usable(entry) /\ Brings(o, "value")
     \/ entry = Absent /\ GoesTo(o, "loading")
     \/ /\ entry # Absent /\ ~Usable(entry)
        /\ GoesTo(o, IF flight[o] = "looking" THEN "dropping" ELSE "droppingAgain")
  /\ UNCHANGED <<cancelled, callerVars>>

\* Somebody else read the entry in between: it is looked at once more.
DropAgain(o) ==
  /\ flight[o] \in {"dropping", "droppingAgain"}
  /\ DeleteRawIfEqual(o)
  /\ GoesTo(o, IF flight[o] = "dropping" /\ entry # seen[o]
               THEN "lookingAgain" ELSE "loading")
  /\ UNCHANGED <<seen, cancelled, callerVars>>

\* Mutant of Load: the load ends with the context of anyone who waits for it.
LoadForAll(o) ==
  /\ flight[o] = "loading"
  /\ \/ /\ Brings(o, "value")
        /\ entry' \in {entry} \cup {[value |-> "usable", access |-> t] : t \in Times}
     \/ Brings(o, "error") /\ UNCHANGED entry
     \/ /\ \E c \in cancelled : joined[c] = o
        /\ Brings(o, "cancelled") /\ UNCHANGED entry
  /\ UNCHANGED <<seen, cancelled, callerVars>>

\* The source answers; only what is worth keeping is stored.  The request
\* carries the context of the caller that started the flight.
Load(o) ==
  /\ flight[o] = "loading"
  /\ \/ /\ Brings(o, "value")
        /\ entry' \in {entry} \cup {[value |-> "usable", access |-> t] : t \in Times}
     \/ Brings(o, "error") /\ UNCHANGED entry
     \/ o \in cancelled /\ Brings(o, "cancelled") /\ UNCHANGED entry
  /\ UNCHANGED <<seen, cancelled, callerVars>>

\* Mutant of Finish: a flight that brings no value is not taken down.
FinishValue(o) ==
  /\ flight[o] = "returned" /\ result[o] = "value"
  /\ GoesTo(o, "ended")
  /\ flights' = IF flights = o THEN NoFlight ELSE flights
  /\ UNCHANGED <<entry, seen, cancelled, pc, joined, answer>>

Finish(o) ==
  /\ flight[o] = "returned"
  /\ GoesTo(o, "ended")
  /\ flights' = IF flights = o THEN NoFlight ELSE flights
  /\ UNCHANGED <<entry, seen, cancelled, pc, joined, answer>>

Flight(o) == LookAgain(o) \/ DropAgain(o) \/ Finish(o)

LookupNext ==
  \/ Expire
  \/ \E c \in Callers : Cancel(c) \/ Caller(c) \/ Flight(c) \/ Load(c)

LookupSpec == LookupInit /\ [][LookupNext]_lookupVars

\* The source may leave a request unanswered.
FairLookupSpec ==
  LookupSpec /\ \A c \in Callers : WF_lookupVars(Caller(c)) /\ WF_lookupVars(Flight(c))

-----------------------------------------------------------------------------
(* Properties.                                                             *)

Results == {"none", "value", "error", "cancelled"}

\* Types; a caller that is done has an answer.
LookupTypeOK ==
  /\ entry \in Entry \cup {Absent}
  /\ pc \in [Callers -> {"new", "dropping", "joining", "waiting", "done"}]
  /\ cancelled \subseteq Callers
  /\ seen \in [Callers -> Entry \cup {Absent}]
  /\ joined \in [Callers -> Callers \cup {NoFlight}]
  /\ answer \in [Callers -> Results] /\ result \in [Callers -> Results]
  /\ flights \in Callers \cup {NoFlight}
  /\ flight \in [Callers -> {"none", "looking", "dropping", "lookingAgain",
                             "droppingAgain", "loading", "returned", "ended"}]
  /\ \A c \in Callers : pc[c] = "done" <=> answer[c] # "none"

\* The source is asked by one flight at a time, also when the caller that
\* started it has long given up.
OneFlight ==
  \A o, p \in Callers :
    flight[o] \notin {"none", "ended"} /\ flight[p] \notin {"none", "ended"} => o = p

\* A lookup ends as cancelled only by its own context or by that of the
\* caller whose flight it shares; others that wait for the flight do no harm.
\* That the flight takes all who joined it along is what the code does.
CancelledByOwner ==
  \A c \in Callers :
    answer[c] = "cancelled" => c \in cancelled \/ joined[c] \in cancelled

\* What was found useless is removed, never a good value stored since.
GoodValuesStay ==
  [][Usable(entry) /\ entry' = Absent => UNCHANGED <<pc, flight>>]_lookupVars

\* If the source answers every request, whatever it answers, every lookup
\* ends.
LookupsEnd ==
  (\A o \in Callers : []<>(flight[o] # "loading")) =>
    \A c \in Callers : <>(pc[c] = "done")
=============================================================================
