----------------------------- MODULE Admission -----------------------------
(***************************************************************************)
(* Which of one user's locations are let in, as time goes on: the counter   *)
(* of LocationRateLimitService (POST /locations only; the socket's handler  *)
(* does not ask it) and LocationValidationService's checks against the      *)
(* clock and the location before.  Times are ages: every tick makes what is *)
(* stored and what is under way one unit older, so that time has no end.    *)
(* Ingest has the same handlers without the clock.                          *)
(***************************************************************************)
EXTENDS Integers, FiniteSets

CONSTANTS
  Handlers,                     \* slots for handlers in flight
  Places,                       \* where the user can be, on a line
  Limit,                        \* RATE_LIMIT_MAX_UPDATES
  Window,                       \* RATE_LIMIT_WINDOW_SECONDS
  MaxAge,                       \* MAX_LOCATION_AGE_MS
  Skew,                         \* MAX_CLOCK_SKEW_MS
  Speed,                        \* MAX_GROUND_SPEED_KMH, places per unit of time
  Held,                         \* bound: no handler holds a location longer
  Oldest                        \* bound: ages are told apart up to here

ASSUME AdmissionAssumption ==
  /\ IsFiniteSet(Handlers)
  /\ Places \subseteq Nat /\ Limit \in Nat \ {0} /\ Window \in Nat \ {0}
  /\ MaxAge \in Nat /\ Skew \in Nat /\ Speed \in Nat \ {0}
  /\ Held \in Nat /\ Held > MaxAge + 1
  /\ Oldest \in Nat /\ \A a, b \in Places : Oldest >= Held + a - b

VARIABLES
  count, ttl,                   \* Redis: the counter, 0 = no key; the time left
                                \* to its key, 0 = it has no expiry
  current,                      \* Redis: the current location or Nowhere
  handler,                      \* [Handlers -> the local state of one handler]
  admitted,                     \* history: <<age, n>> for each POST that passed
                                \* the limit within the window, n from INCR: it
                                \* tells POSTs of one unit of time apart
  expiryLost                    \* history: an EXPIRE was never executed

admVars == <<count, ttl, current, handler, admitted, expiryLost>>

Ages == (-Skew - 1)..Oldest
Locations == [age : Ages, place : Places]
Nowhere == [age |-> Oldest + 1, place |-> 0]
Free == [pc |-> "free", n |-> 0, location |-> Nowhere, overtaken |-> FALSE]
Counts == 0..(Limit + Cardinality(Handlers) + 1)

AdmissionTypeOK ==
  /\ count \in Counts /\ ttl \in 0..Window /\ (count = 0 => ttl = 0)
  /\ current \in Locations \cup {Nowhere}
  /\ current # Nowhere => current.age >= -Skew
  /\ handler \in [Handlers -> [pc : {"free", "expire", "previous", "store"},
                               n : Counts, location : Locations \cup {Nowhere},
                               overtaken : BOOLEAN]]
  /\ admitted \subseteq (0..(Window - 1)) \X Counts
  /\ expiryLost \in BOOLEAN

AdmissionInit ==
  /\ count = 0 /\ ttl = 0 /\ current = Nowhere
  /\ handler = [h \in Handlers |-> Free]
  /\ admitted = {}
  /\ expiryLost = FALSE

-----------------------------------------------------------------------------
(* validateUpdate.                                                          *)

Distance(a, b) == IF a > b THEN a - b ELSE b - a

\* The coordinates' and the timestamp's form is checked by the DTO before.
validateTimestamp(u) == u.age <= MaxAge /\ u.age >= -Skew
validateOrder(u, previous) == u.age < previous.age
validateSpeed(u, previous) ==
  Distance(u.place, previous.place) <= Speed * (previous.age - u.age)

\* Mutant: the speed is left out.
validateSlowly(u, previous) ==
  /\ validateTimestamp(u)
  /\ previous # Nowhere => validateOrder(u, previous)
\* Mutant: the clock skew is left out.
validateUnskewed(u, previous) ==
  /\ u.age <= MaxAge
  /\ previous # Nowhere => validateOrder(u, previous) /\ validateSpeed(u, previous)

validateUpdate(u, previous) ==
  /\ validateTimestamp(u)
  /\ previous # Nowhere => validateOrder(u, previous) /\ validateSpeed(u, previous)

-----------------------------------------------------------------------------
(* Handlers.                                                                *)

Go(h, pc, n, location) ==
  handler' = [handler EXCEPT ![h] = [pc |-> pc, n |-> n, location |-> location,
                                     overtaken |-> FALSE]]
Finish(h) == handler' = [handler EXCEPT ![h] = Free]

\* Mutant: one POST too many.
WithinLimitOrOne(n) == n <= Limit + 1
WithinLimit(n) == n <= Limit
\* Mutant: the first POST of a window counts as one already.
ZerothOfWindow(n) == n = 0
FirstOfWindow(n) == n = 1

\* assertWithinLimit decides: the next await is the read of the location before.
Decide(h, n, location) ==
  /\ IF WithinLimit(n) THEN Go(h, "previous", 0, location) ELSE Finish(h)
  /\ admitted' = IF WithinLimit(n) THEN admitted \cup {<<0, n>>} ELSE admitted

\* A POST: INCR answers, and for the first of a window EXPIRE is sent.  Counts
\* beyond the limit are alike.
publishLocation(h, location) ==
  /\ handler[h].pc = "free"
  /\ LET n == IF count \in Counts /\ count + 1 \in Counts THEN count + 1 ELSE count IN
     /\ count' = n
     /\ IF FirstOfWindow(n) THEN Go(h, "expire", n, location) /\ UNCHANGED admitted
        ELSE Decide(h, n, location)
  /\ UNCHANGED <<ttl, current, expiryLost>>

setExpiry(h) ==
  /\ handler[h].pc = "expire"
  /\ ttl' = IF count > 0 THEN Window ELSE ttl
  /\ Decide(h, handler[h].n, handler[h].location)
  /\ UNCHANGED <<count, current, expiryLost>>

\* An update over the socket is not counted.
handleLocationUpdate(h, location) ==
  /\ handler[h].pc = "free"
  /\ Go(h, "previous", 0, location)
  /\ UNCHANGED <<count, ttl, current, admitted, expiryLost>>

\* getCurrentLocation answers and validateUpdate follows without an await.
Validate(h) ==
  /\ handler[h].pc = "previous"
  /\ IF validateUpdate(handler[h].location, current)
     THEN Go(h, "store", 0, handler[h].location) ELSE Finish(h)
  /\ UNCHANGED <<count, ttl, current, admitted, expiryLost>>

\* Handlers that have validated against the location before are overtaken.
Overtake(hs) ==
  [g \in Handlers |-> [hs[g] EXCEPT !.overtaken = (@ \/ hs[g].pc = "store")]]

setCurrentLocation(h) ==
  /\ handler[h].pc = "store"
  /\ current' = handler[h].location
  /\ handler' = Overtake([handler EXCEPT ![h] = Free])
  /\ UNCHANGED <<count, ttl, admitted, expiryLost>>

\* The deletion of a change to GHOST, or the end of the 24 hours.
deleteCurrentLocation ==
  /\ current # Nowhere
  /\ current' = Nowhere
  /\ handler' = Overtake(handler)
  /\ UNCHANGED <<count, ttl, admitted, expiryLost>>

\* An await rejects, or the process dies.
Fail(h) ==
  /\ handler[h].pc # "free"
  /\ expiryLost' = (expiryLost \/ handler[h].pc = "expire")
  /\ Finish(h)
  /\ UNCHANGED <<count, ttl, current, admitted>>

-----------------------------------------------------------------------------
(* Time.                                                                    *)

\* A stored location stops ageing at Oldest, when it can be left for any place
\* at any handler's time.
Older(location) == IF location.age < Oldest THEN [location EXCEPT !.age = @ + 1]
                   ELSE location

tick ==
  /\ \A h \in Handlers : handler[h].pc # "free" => handler[h].location.age < Held
  /\ ttl' = IF ttl > 0 THEN ttl - 1 ELSE 0
  /\ count' = IF ttl = 1 THEN 0 ELSE count
  /\ current' = Older(current)
  /\ handler' = [h \in Handlers |-> [handler[h] EXCEPT !.location = Older(@)]]
  /\ admitted' = {<<p[1] + 1, p[2]>> : p \in {q \in admitted : q[1] + 1 < Window}}
  /\ UNCHANGED expiryLost

AdmissionNext ==
  \/ \E h \in Handlers :
       \/ \E age \in (-Skew - 1)..(MaxAge + 1), place \in Places :
            LET location == [age |-> age, place |-> place] IN
            publishLocation(h, location) \/ handleLocationUpdate(h, location)
       \/ setExpiry(h) \/ Validate(h) \/ setCurrentLocation(h) \/ Fail(h)
  \/ deleteCurrentLocation
  \/ tick

\* Time passes, and a handler that has been started goes on or fails.
AdmissionFairness ==
  /\ WF_admVars(tick)
  /\ \A h \in Handlers : /\ WF_admVars(setExpiry(h) \/ Fail(h))
                          /\ WF_admVars(Validate(h)) /\ WF_admVars(setCurrentLocation(h))

AdmissionSpec == AdmissionInit /\ [][AdmissionNext]_admVars /\ AdmissionFairness

-----------------------------------------------------------------------------
(* Properties.                                                              *)

\* The window is fixed, so that more than the limit passes around its end, but
\* less than twice the limit, however POSTs and EXPIREs of handlers cross.
WindowBound == Cardinality(admitted) < 2 * Limit

\* A user over the limit is let in again in the end, unless the EXPIRE of the
\* window was lost after its INCR (location-rate-limit.service.ts:21-24): then
\* the key stays for ever.  POSTs that are refused do not prolong the window.
BlockedIsServed == count > Limit ~> count <= Limit \/ expiryLost

Plausible(new, old) == new.age < old.age /\ validateSpeed(new, old)

\* The stored location never jumps: it gives way only to a newer one that can be
\* reached from it, unless the handler had validated against another one.
JumpNeedsOverlap ==
  [][\/ current = Nowhere \/ current' \in {current, Older(current), Nowhere}
     \/ Plausible(current', current)
     \/ \E h \in Handlers : /\ handler[h].overtaken
                            /\ handler[h].location = current']_admVars
=============================================================================
