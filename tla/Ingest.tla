------------------------------- MODULE Ingest -------------------------------
(***************************************************************************)
(* How one user's locations get in: the web client publishes every fix over *)
(* HTTP and, when that has succeeded, sends the same fix over its socket.   *)
(* Both handlers (LocationsService.publishLocation and LocationGateway.     *)
(* handleLocationUpdate) read the current location, validate against it,    *)
(* replace it and append to the history, each awaited; only the socket's    *)
(* handler broadcasts.                                                      *)
(***************************************************************************)
EXTENDS Integers, Sequences, FiniteSets

CONSTANTS
  MaxFixes,                     \* bound: fixes that the device takes
  Handlers,                     \* slots for handlers in flight
  MaxGone,                      \* bound: deletions and expiries of the key
  MaxFailures                   \* bound: requests cut short

ASSUME IngestAssumption ==
  MaxFixes \in Nat /\ MaxGone \in Nat /\ MaxFailures \in Nat

VARIABLES
  publish,                      \* [Fixes -> what the page has done with a fix]
  wire,                         \* fixes sent over the socket, not yet received
  current,                      \* Redis: the current location, 0 = no key
  history,                      \* PostgreSQL: the fixes with a row
  handler,                      \* [Handlers -> the local state of one handler]
  broadcasts,                   \* fixes given to broadcastToAuthorizedViewers
  gone, failures,               \* counters for the bounds
  written,                      \* history: fixes written since the key was gone
  overtaken                     \* history: some handler wrote over a location
                                \* that it had not validated against

ingestVars == <<publish, wire, current, history, handler, broadcasts, gone, failures,
                written, overtaken>>

\* A fix is known by its timestamp.
Fixes == 1..MaxFixes

HandlerRecords == [kind : {"none", "http", "socket"},
                   pc : {"free", "limit", "previous", "store", "save", "end"},
                   fix : 0..MaxFixes, previous : 0..MaxFixes]

IdleHandler == [kind |-> "none", pc |-> "free", fix |-> 0, previous |-> 0]

IngestTypeOK ==
  /\ publish \in [Fixes -> {"untaken", "posting", "posted", "replied", "done"}]
  /\ wire \in Seq(Fixes)
  /\ current \in 0..MaxFixes
  /\ history \subseteq Fixes
  /\ handler \in [Handlers -> HandlerRecords]
  /\ broadcasts \subseteq Fixes
  /\ gone \in 0..MaxGone
  /\ failures \in 0..MaxFailures
  /\ written \subseteq Fixes
  /\ overtaken \in BOOLEAN

IngestInit ==
  /\ publish = [fix \in Fixes |-> "untaken"]
  /\ wire = <<>>
  /\ current = 0
  /\ history = {}
  /\ handler = [h \in Handlers |-> IdleHandler]
  /\ broadcasts = {}
  /\ gone = 0 /\ failures = 0
  /\ written = {}
  /\ overtaken = FALSE

serverVars == <<current, history, handler, broadcasts>>
boundVars == <<gone, failures>>
pastVars == <<written, overtaken>>

-----------------------------------------------------------------------------
(* The page.  A watchPosition callback awaits its own POST only, so that     *)
(* several can be under way, and the server may see them in any order.       *)

Tell(fix, state) == publish' = [publish EXCEPT ![fix] = state]

takeFix(fix) ==
  /\ publish[fix] = "untaken"
  /\ \A older \in 1..(fix - 1) : publish[older] # "untaken"
  /\ Tell(fix, "posting")
  /\ UNCHANGED <<wire, serverVars, boundVars, pastVars>>

sendLocationUpdate(fix) ==
  /\ publish[fix] = "replied"
  /\ Tell(fix, "done")
  /\ wire' = Append(wire, fix)
  /\ UNCHANGED <<serverVars, boundVars, pastVars>>

-----------------------------------------------------------------------------
(* The two handlers.                                                        *)

Begin(h, local) ==
  /\ handler[h].pc = "free"
  /\ handler' = [handler EXCEPT ![h] = local]

\* Mutant: a timestamp that is no number is let in as it is.
publishUnparsed(h, fix) ==
  /\ publish[fix] = "posting"
  /\ Begin(h, [kind |-> "http", pc |-> "limit", fix |-> -fix, previous |-> 0])
  /\ Tell(fix, "posted")
  /\ UNCHANGED <<wire, current, history, broadcasts, boundVars, pastVars>>

publishLocation(h, fix) ==
  /\ publish[fix] = "posting"
  /\ Begin(h, [kind |-> "http", pc |-> "limit", fix |-> fix, previous |-> 0])
  /\ Tell(fix, "posted")
  /\ UNCHANGED <<wire, current, history, broadcasts, boundVars, pastVars>>

\* A new frame starts its handler whether the one before has ended or not.
handleLocationUpdate(h) ==
  /\ wire # <<>>
  /\ Begin(h, [kind |-> "socket", pc |-> "previous", fix |-> Head(wire),
               previous |-> 0])
  /\ wire' = Tail(wire)
  /\ UNCHANGED <<publish, current, history, broadcasts, boundVars, pastVars>>

GoTo(h, pc) == handler' = [handler EXCEPT ![h].pc = pc]
End(h) == handler' = [handler EXCEPT ![h] = IdleHandler]

\* The page of a POST that is refused swallows the error: the fix is dropped.
Answer(h, state) ==
  IF handler[h].kind = "http" THEN Tell(handler[h].fix, state) ELSE UNCHANGED publish

Refuse(h) == End(h) /\ Answer(h, "done")

\* The counter is RateLimit's: here the POST passes or is answered 429.
assertWithinLimit(h) ==
  /\ handler[h].pc = "limit"
  /\ \/ GoTo(h, "previous") /\ UNCHANGED publish
     \/ Refuse(h)
  /\ UNCHANGED <<wire, current, history, broadcasts, boundVars, pastVars>>

\* Mutant: a fix as old as the previous one passes.
ValidateNotOlder(h) ==
  /\ handler[h].pc = "previous"
  /\ IF current # 0 /\ handler[h].fix < current
     THEN Refuse(h)
     ELSE /\ handler' = [handler EXCEPT ![h].pc = "store", ![h].previous = current]
          /\ UNCHANGED publish
  /\ UNCHANGED <<wire, current, history, broadcasts, boundVars, pastVars>>

\* Mutant: no previous location is looked at.
ValidateNothing(h) ==
  /\ handler[h].pc = "previous"
  /\ handler' = [handler EXCEPT ![h].pc = "store", ![h].previous = current]
  /\ UNCHANGED <<publish, wire, current, history, broadcasts, boundVars, pastVars>>

\* getCurrentLocation answers and validateUpdate follows without an await.  Of
\* its checks only the order is modelled; the others depend on the fix alone or
\* on where it lies, and refuse it like any failure (Fail).
validateUpdate(h) ==
  /\ handler[h].pc = "previous"
  /\ IF current # 0 /\ handler[h].fix <= current
     THEN Refuse(h)
     ELSE /\ handler' = [handler EXCEPT ![h].pc = "store", ![h].previous = current]
          /\ UNCHANGED publish
  /\ UNCHANGED <<wire, current, history, broadcasts, boundVars, pastVars>>

setCurrentLocation(h) ==
  /\ handler[h].pc = "store"
  /\ current' = handler[h].fix
  /\ written' = written \cup {handler[h].fix}
  /\ overtaken' = (overtaken \/ current \notin {0, handler[h].previous})
  /\ GoTo(h, "save")
  /\ UNCHANGED <<publish, wire, history, broadcasts, boundVars>>

\* Mutant: the history is written behind the answer and may be forgotten.
skipEntry(h) ==
  /\ handler[h].pc = "save"
  /\ GoTo(h, "end")
  /\ UNCHANGED <<publish, wire, current, history, broadcasts, boundVars, pastVars>>

saveEntry(h) ==
  /\ handler[h].pc = "save"
  /\ history' = history \cup {handler[h].fix}
  /\ GoTo(h, "end")
  /\ UNCHANGED <<publish, wire, current, broadcasts, boundVars, pastVars>>

\* A POST is answered, an update goes on to its broadcast (Realtime).
Conclude(h) ==
  /\ handler[h].pc = "end"
  /\ broadcasts' = IF handler[h].kind = "socket" THEN broadcasts \cup {handler[h].fix}
                   ELSE broadcasts
  /\ Answer(h, "replied")
  /\ End(h)
  /\ UNCHANGED <<wire, current, history, boundVars, pastVars>>

-----------------------------------------------------------------------------
(* What happens to the requests and to the key.                             *)

\* An await rejects, another validation refuses, or the answer is lost.
Fail(h) ==
  /\ failures < MaxFailures
  /\ failures' = failures + 1
  /\ handler[h].pc # "free"
  /\ Refuse(h)
  /\ UNCHANGED <<wire, current, history, broadcasts, gone, pastVars>>

\* deleteCurrentLocation of a change to GHOST, or the end of the 24 hours.
LoseKey ==
  /\ gone < MaxGone
  /\ gone' = gone + 1
  /\ current # 0
  /\ current' = 0
  /\ written' = {}
  /\ UNCHANGED <<publish, wire, history, handler, broadcasts, failures, overtaken>>

-----------------------------------------------------------------------------

IngestNext ==
  \/ \E fix \in Fixes : takeFix(fix) \/ sendLocationUpdate(fix)
  \/ \E h \in Handlers :
       \/ \E fix \in Fixes : publishLocation(h, fix)
       \/ handleLocationUpdate(h) \/ assertWithinLimit(h) \/ validateUpdate(h)
       \/ setCurrentLocation(h) \/ saveEntry(h) \/ Conclude(h) \/ Fail(h)
  \/ LoseKey

IngestSpec == IngestInit /\ [][IngestNext]_ingestVars

-----------------------------------------------------------------------------
(* Properties.                                                              *)

\* The current location is the newest one written since the key was last gone,
\* as long as no two handlers crossed between validation and write: only that
\* crossing (two POSTs, or a POST and an update) can take the owner back in time.
CurrentIsNewest == ~overtaken => \A fix \in written : fix <= current

\* Nothing is broadcast, and no POST succeeds, without a row in the history; a
\* current location without one is either about to get it or lost it to a failure
\* between the two writes.
HistoryKeepsUp ==
  /\ broadcasts \subseteq history
  /\ \A fix \in Fixes : publish[fix] = "replied" => fix \in history
  /\ current # 0 /\ current \notin history /\ failures = 0 =>
       \E h \in Handlers : handler[h].pc = "save" /\ handler[h].fix = current

\* What the web client sends over the socket it has already published, so the order
\* check refuses it: the only updates of the web client that are ever broadcast
\* are those whose location vanished, or was replaced by an older one, meanwhile.
BroadcastNeedsLoss == broadcasts # {} => gone > 0 \/ overtaken

Quiet ==
  /\ wire = <<>>
  /\ \A h \in Handlers : handler[h].pc = "free"
  /\ \A fix \in Fixes : publish[fix] \in {"untaken", "done"}

\* The README's real-time flow: a location that is stored is then broadcast to the
\* authorized viewers.
StoredIsBroadcast ==
  Quiet /\ failures = 0 /\ current # 0 => current \in broadcasts
=============================================================================
