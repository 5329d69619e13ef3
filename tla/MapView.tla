------------------------------ MODULE MapView ------------------------------
(***************************************************************************)
(* The map of the web client: MapView, the location store behind it, the    *)
(* hydration that fills it over HTTP when the map is opened, and the socket *)
(* events that change it afterwards.  The store outlives the view.  The     *)
(* server is reduced to what this viewer may see and is told; Realtime and  *)
(* SharingVisibility have its details.                                      *)
(***************************************************************************)
EXTENDS Naturals, Sequences

CONSTANTS
  Friends,                      \* the viewer's friends
  Slots,                        \* slots for onMounted under way
  Start, MaxTime,               \* bounds: the first and the last instant
  Threshold,                    \* STALE_THRESHOLD_MS, in these instants
  MaxEvents,                    \* bound: what the friends and the network do
  MaxClicks                     \* bound: what the viewer does

ASSUME MapViewAssumption ==
  /\ Start \in Nat /\ Threshold \in Nat /\ Start > Threshold
  /\ MaxTime \in Nat /\ MaxTime >= Start
  /\ MaxEvents \in Nat /\ MaxClicks \in Nat

VARIABLES
  now,                          \* Date.now(), the same for everybody
  visible, current, stopped,    \* the server: who may be seen, their last fixes,
                                \* viewing:stop
  connected, queue, commands,   \* the socket: its state, both directions
  markers,                      \* the store: [Friends -> a marker or NoMarker]
  lastTickMs,                   \* the store: the last run of its timer
  mounted, layer,               \* the view; friendMarkers with the fixes they show
  stopViewingOwners,
  mount,                        \* [Slots -> one onMounted]
  watching, leaked,             \* the view's watchPosition; those nobody clears
  clicks, events,               \* counters for the bounds
  told,                         \* history: what the server last told the viewer
  excused,                      \* history: the friends whose last event was lost, or
                                \* overtaken by an older answer
  returned,                     \* history: stopped when the view was opened again
  leftEarly                     \* history: the view was left before it had started

clockVars == <<now, lastTickMs>>
serverVars == <<visible, current, stopped>>
socketVars == <<connected, queue, commands>>
viewVars == <<mounted, layer, stopViewingOwners, watching>>
counterVars == <<clicks, events>>
historyVars == <<told, excused, returned, leftEarly>>
mapVars == <<clockVars, serverVars, socketVars, markers, viewVars, mount, leaked,
             counterVars, historyVars>>

\* A fix is its timestamp; 0 is the marker setFriendMeta makes at (0, 0).
Times == 0..MaxTime
NoMarker == [at |-> 0, stale |-> FALSE, is |-> FALSE]
Marker(t) == [at |-> t, stale |-> now - t > Threshold, is |-> TRUE]
Nothing == MaxTime + 1          \* no marker in the layer
Anyone == CHOOSE f \in Friends : TRUE   \* not read
Mounts == [pc : {"idle", "list", "ask", "read", "reply", "mine"}, todo : SUBSET Friends,
           of : Friends \cup {Anyone}, at : Times, fresh : BOOLEAN, here : BOOLEAN]
Idle == [pc |-> "idle", todo |-> {}, of |-> Anyone, at |-> 0, fresh |-> TRUE,
         here |-> TRUE]
Events == [kind : {"updated", "hidden", "ghost"}, of : Friends, at : Times]

MapTypeOK ==
  /\ now \in Start..MaxTime /\ lastTickMs \in Start..now
  /\ visible \subseteq Friends /\ current \in [Friends -> Times] /\ stopped \subseteq Friends
  /\ connected \in BOOLEAN /\ queue \in Seq(Events) /\ commands \in Seq(Friends)
  /\ markers \in [Friends -> [at : Times, stale : BOOLEAN, is : BOOLEAN]]
  /\ mounted \in BOOLEAN /\ layer \in [Friends -> Times \cup {Nothing}]
  /\ stopViewingOwners \subseteq Friends
  /\ mount \in [Slots -> Mounts]
  /\ \A s \in Slots : mount[s].pc = "ask" => mount[s].of \notin mount[s].todo
  /\ watching \in BOOLEAN /\ leaked \in Nat
  /\ clicks \in 0..MaxClicks /\ events \in 0..MaxEvents
  /\ told \in [Friends -> Times] /\ excused \subseteq Friends /\ returned \subseteq Friends
  /\ leftEarly \in BOOLEAN

MapInit ==
  /\ now = Start /\ lastTickMs = Start
  /\ visible \in SUBSET Friends /\ current \in [Friends -> {0, Start}] /\ stopped = {}
  /\ connected = TRUE /\ queue = <<>> /\ commands = <<>>
  /\ markers = [f \in Friends |-> NoMarker]
  /\ mounted = FALSE /\ layer = [f \in Friends |-> Nothing] /\ stopViewingOwners = {}
  /\ mount = [s \in Slots |-> Idle]
  /\ watching = FALSE /\ leaked = 0
  /\ clicks = 0 /\ events = 0
  /\ told = [f \in Friends |-> 0] /\ excused = {} /\ returned = {}
  /\ leftEarly = FALSE

Click == clicks < MaxClicks /\ clicks' = clicks + 1 /\ UNCHANGED events
Event == events < MaxEvents /\ events' = events + 1 /\ UNCHANGED clicks
Opening == \E s \in Slots : mount[s].pc # "idle" /\ mount[s].here

-----------------------------------------------------------------------------
(* The store and the view that watches it.                                  *)

\* Mutant: the markers that left the store stay.
updateSeenMarkers(list) ==
  layer' = [f \in Friends |->
              CASE ~mounted -> Nothing
                [] f \in stopViewingOwners \/ ~list[f].is -> layer[f]
                [] OTHER -> list[f].at]
\* Mutant: the markers the viewer stopped are drawn again.
updateEveryMarker(list) ==
  layer' = [f \in Friends |-> IF mounted /\ list[f].is THEN list[f].at ELSE Nothing]
\* Every change of markerList ends here, when the view is there.
updateAllMarkers(list) ==
  layer' = [f \in Friends |->
              CASE ~mounted \/ ~list[f].is -> Nothing
                [] f \in stopViewingOwners -> layer[f]
                [] OTHER -> list[f].at]

Store(list) == markers' = list /\ updateAllMarkers(list)
applyLocationUpdate(f, t) == [markers EXCEPT ![f] = Marker(t)]
applyLocationHidden(f) == [markers EXCEPT ![f] = NoMarker]
setFriendMeta(f, list) ==
  [list EXCEPT ![f] = Marker(IF list[f].is THEN list[f].at ELSE 0)]
\* Mutant: the flags are only set, with the locations.
keepStaleFlags(list) == list
updateStaleFlags(list) ==
  [f \in Friends |-> [list[f] EXCEPT !.stale = list[f].is /\ now - list[f].at > Threshold]]

\* Time goes on by itself; a timer of the browser may be late.
pass ==
  /\ now < MaxTime /\ now' = now + 1
  /\ UNCHANGED <<serverVars, socketVars, markers, lastTickMs, viewVars, mount, leaked,
                 counterVars, historyVars>>

\* The store's timer.
tick ==
  /\ lastTickMs < now /\ lastTickMs' = now
  /\ Store(updateStaleFlags(markers))
  /\ UNCHANGED <<now, serverVars, socketVars, mounted, stopViewingOwners, watching, mount,
                 leaked, counterVars, historyVars>>

\* The timer that the view starts with the position watch: what it draws, and no other.
staleCheckTick ==
  /\ watching
  /\ Store([f \in Friends |->
              IF layer[f] = Nothing THEN markers[f] ELSE updateStaleFlags(markers)[f]])
  /\ markers' # markers
  /\ UNCHANGED <<now, serverVars, socketVars, lastTickMs, mounted, stopViewingOwners,
                 watching, mount, leaked, counterVars, historyVars>>

-----------------------------------------------------------------------------
(* onMounted and onUnmounted.                                               *)

open(s) ==
  /\ ~mounted /\ mount[s].pc = "idle" /\ Click
  /\ mounted' = TRUE /\ stopViewingOwners' = {}
  /\ mount' = [mount EXCEPT ![s] = [Idle EXCEPT !.pc = "list"]]
  /\ returned' = stopViewingOwners \cup stopped \cup returned
  /\ UNCHANGED <<clockVars, serverVars, socketVars, markers, layer, watching, leaked,
                 told, excused, leftEarly>>

\* Mutant: the position goes on being watched.
leaveWatching ==
  /\ mounted /\ Click
  /\ mounted' = FALSE /\ layer' = [f \in Friends |-> Nothing] /\ watching' = FALSE
  /\ leaked' = leaked + IF watching THEN 1 ELSE 0
  /\ mount' = [s \in Slots |-> [mount[s] EXCEPT !.here = mount[s].pc = "idle"]]
  /\ leftEarly' = (leftEarly \/ Opening)
  /\ UNCHANGED <<clockVars, serverVars, socketVars, markers, stopViewingOwners, told,
                 excused, returned>>
\* onMounted goes on without its view.
leave ==
  /\ mounted /\ Click
  /\ mounted' = FALSE /\ layer' = [f \in Friends |-> Nothing] /\ watching' = FALSE
  /\ mount' = [s \in Slots |-> [mount[s] EXCEPT !.here = mount[s].pc = "idle"]]
  /\ leftEarly' = (leftEarly \/ Opening)
  /\ UNCHANGED <<clockVars, serverVars, socketVars, markers, stopViewingOwners, leaked,
                 told, excused, returned>>

\* hydrateFriendMeta: the next friend's marker is made, then the location asked for.
hydrateNext(s, todo, list) ==
  IF todo = {}
  THEN /\ IF list # markers \/ mount[s].here THEN Store(list) ELSE UNCHANGED <<markers, layer>>
       /\ mount' = [mount EXCEPT ![s].pc = "mine", ![s].todo = {}]
  ELSE \E f \in todo :
         /\ Store(setFriendMeta(f, list))
         /\ mount' = [mount EXCEPT ![s].pc = "ask", ![s].of = f, ![s].todo = todo \ {f}]

hydrateFriendMeta(s, ok) ==
  /\ mount[s].pc = "list"
  /\ IF ok THEN UNCHANGED counterVars ELSE Event
  /\ hydrateNext(s, IF ok THEN Friends ELSE {}, markers)
  /\ UNCHANGED <<clockVars, serverVars, socketVars, mounted, stopViewingOwners, watching,
                 leaked, historyVars>>

\* GET /locations/users/:id: the verdict, then the location.  Nobody asks for stopped.
canViewerSeeOwner(s) ==
  /\ mount[s].pc = "ask"
  /\ mount' = [mount EXCEPT ![s].pc = IF mount[s].of \in visible THEN "read" ELSE "reply",
                            ![s].at = 0, ![s].fresh = FALSE]
  /\ UNCHANGED <<clockVars, serverVars, socketVars, markers, viewVars, leaked,
                 counterVars, historyVars>>

getCurrentLocation(s) ==
  /\ mount[s].pc = "read"
  /\ LET f == mount[s].of
         newest == current[f] # 0 /\ \A i \in DOMAIN queue : queue[i].of # f IN
       /\ mount' = [r \in Slots |->
                      IF r = s THEN [mount[s] EXCEPT !.pc = "reply", !.at = current[f],
                                                     !.fresh = newest]
                      ELSE [mount[r] EXCEPT !.fresh = @ /\ ~(newest /\ mount[r].of = f)]]
       /\ told' = IF newest THEN [told EXCEPT ![f] = current[f]] ELSE told
  /\ UNCHANGED <<clockVars, serverVars, socketVars, markers, viewVars, leaked,
                 counterVars, excused, returned, leftEarly>>

\* The answer is applied whenever it comes; 403, 404 and a lost one change nothing.
hydrated(s, ok) ==
  LET m == mount[s]  applies == ok /\ m.at # 0 IN
  /\ m.pc = "reply"
  /\ IF ok THEN UNCHANGED counterVars ELSE Event
  /\ hydrateNext(s, m.todo, IF applies THEN applyLocationUpdate(m.of, m.at) ELSE markers)
  /\ excused' = IF m.at = 0 THEN excused
                ELSE IF ok /\ m.fresh THEN excused \ {m.of} ELSE excused \cup {m.of}
  /\ UNCHANGED <<clockVars, serverVars, socketVars, mounted, stopViewingOwners, watching,
                 leaked, told, returned, leftEarly>>

\* getMyCurrentLocation, then startGeolocation; without an answer neither.
startGeolocation(s, ok) ==
  /\ mount[s].pc = "mine"
  /\ IF ok THEN UNCHANGED counterVars ELSE Event
  /\ mount' = [mount EXCEPT ![s] = Idle]
  /\ watching' = (watching \/ (ok /\ mount[s].here))
  /\ leaked' = leaked + IF ok /\ ~mount[s].here THEN 1 ELSE 0
  /\ UNCHANGED <<clockVars, serverVars, socketVars, markers, mounted, layer,
                 stopViewingOwners, historyVars>>

-----------------------------------------------------------------------------
(* The popup and the info panel.                                            *)

\* On a marker of the map only.
OffersStop(f) == mounted /\ layer[f] # Nothing

handleStopViewing(f) ==
  /\ OffersStop(f) /\ Click
  /\ stopViewingOwners' = stopViewingOwners \cup {f}
  /\ layer' = [layer EXCEPT ![f] = Nothing]
  /\ commands' = Append(commands, f)
  /\ UNCHANGED <<clockVars, serverVars, connected, queue, markers, mounted, watching,
                 mount, leaked, historyVars>>

-----------------------------------------------------------------------------
(* The server and the socket.                                               *)

\* The server tells the viewer of f; answers on their way say what was true before.
Emit(f, kind, t) ==
  /\ told' = [told EXCEPT ![f] = t]
  /\ mount' = [s \in Slots |-> [mount[s] EXCEPT !.fresh = @ /\ mount[s].of # f]]
  /\ IF connected
     THEN queue' = Append(queue, [kind |-> kind, of |-> f, at |-> now]) /\ UNCHANGED excused
     ELSE excused' = excused \cup {f} /\ UNCHANGED queue

fix(f) ==
  /\ current[f] # now /\ Event
  /\ current' = [current EXCEPT ![f] = now]
  /\ IF f \in visible \ stopped
     THEN Emit(f, "updated", now)
     ELSE UNCHANGED <<queue, excused, told, mount>>
  /\ UNCHANGED <<clockVars, visible, stopped, connected, commands, markers, viewVars,
                 leaked, returned, leftEarly>>

\* location:hidden, or sharing:changed to Ghost, which deletes the location.
hide(f) ==
  /\ f \in visible /\ Event
  /\ visible' = visible \ {f}
  /\ \E kind \in {"hidden", "ghost"} :
       /\ Emit(f, kind, 0)
       /\ current' = IF kind = "ghost" THEN [current EXCEPT ![f] = 0] ELSE current
  /\ UNCHANGED <<clockVars, stopped, connected, commands, markers, viewVars, leaked,
                 returned, leftEarly>>

\* sharing:changed moves no marker; the next fix does.
show(f) ==
  /\ f \in Friends \ visible /\ Event
  /\ visible' = visible \cup {f}
  /\ UNCHANGED <<clockVars, current, stopped, socketVars, markers, viewVars, mount,
                 leaked, historyVars>>

\* The gateway's handleStopViewing answers with location:hidden.
stopViewing ==
  /\ connected /\ commands # <<>> /\ commands' = Tail(commands)
  /\ stopped' = stopped \cup {Head(commands)}
  /\ Emit(Head(commands), "hidden", 0)
  /\ UNCHANGED <<clockVars, visible, current, connected, markers, viewVars, leaked,
                 counterVars, returned, leftEarly>>

\* Mutant: sharing:changed to Ghost only changes the mode in the popup.
deliverModeOnly ==
  /\ queue # <<>> /\ queue' = Tail(queue)
  /\ LET e == Head(queue) IN
       /\ Store(CASE e.kind = "updated" -> applyLocationUpdate(e.of, e.at)
                  [] e.kind = "hidden" -> applyLocationHidden(e.of)
                  [] e.kind = "ghost" -> markers)
       /\ excused' = excused \ {e.of}
  /\ UNCHANGED <<clockVars, serverVars, connected, commands, mounted, stopViewingOwners,
                 watching, mount, leaked, counterVars, told, returned, leftEarly>>
\* The store's listeners; applySharingChanged hides the marker of a ghost.
deliver ==
  /\ queue # <<>> /\ queue' = Tail(queue)
  /\ LET e == Head(queue) IN
       /\ Store(IF e.kind = "updated" THEN applyLocationUpdate(e.of, e.at)
                ELSE applyLocationHidden(e.of))
       /\ excused' = excused \ {e.of}
  /\ UNCHANGED <<clockVars, serverVars, connected, commands, mounted, stopViewingOwners,
                 watching, mount, leaked, counterVars, told, returned, leftEarly>>

\* What was on its way is lost; the server forgets the session's viewing:stop.
disconnect ==
  /\ connected /\ Event
  /\ connected' = FALSE /\ queue' = <<>> /\ stopped' = {}
  /\ excused' = excused \cup {queue[i].of : i \in DOMAIN queue}
  /\ UNCHANGED <<clockVars, visible, current, commands, markers, viewVars, mount, leaked,
                 told, returned, leftEarly>>

\* Nothing is read again.
reconnect ==
  /\ ~connected
  /\ connected' = TRUE
  /\ UNCHANGED <<clockVars, serverVars, queue, commands, markers, viewVars, mount, leaked,
                 counterVars, historyVars>>

-----------------------------------------------------------------------------
MapNext ==
  \/ pass \/ tick \/ staleCheckTick
  \/ leave \/ stopViewing \/ deliver \/ disconnect \/ reconnect
  \/ \E s \in Slots :
       \/ open(s) \/ canViewerSeeOwner(s) \/ getCurrentLocation(s)
       \/ \E ok \in BOOLEAN :
            hydrateFriendMeta(s, ok) \/ hydrated(s, ok) \/ startGeolocation(s, ok)
  \/ \E f \in Friends : handleStopViewing(f) \/ fix(f) \/ hide(f) \/ show(f)

MapSpec == MapInit /\ [][MapNext]_mapVars

-----------------------------------------------------------------------------
(* Properties.                                                              *)

\* When nothing is on its way, the store has the location the server told last,
\* and none of a friend who was hidden after it, unless that event was lost with
\* the connection or an older answer to the hydration was applied after it
\* (hydrateFriendMeta, the store's listeners; nothing compares timestamps).
MapAgrees ==
  connected /\ queue = <<>> /\ (\A s \in Slots : mount[s].pc \notin {"read", "reply"}) =>
    \A f \in Friends \ excused : markers[f].at = told[f]

\* The layer follows the store: a marker for each of its entries and for no other,
\* but for the friends that the viewer stopped, and until onMounted has drawn the
\* entries that an earlier view left (the watchers, updateAllMarkers).
LayerFollowsStore ==
  mounted /\ ~Opening =>
    \A f \in Friends \ stopViewingOwners :
      layer[f] = IF markers[f].is THEN markers[f].at ELSE Nothing

\* A friend whom the viewer stopped is not shown by this view, nor by a later one
\* unless the view, which forgets it, was opened again (stopViewingOwners, and
\* the hydration, which does not ask for viewing:stop).
StoppedStaysOff ==
  \A f \in (stopViewingOwners \cup stopped) \ returned : layer[f] = Nothing

\* The position is watched by the view that is there and by no other, unless a
\* view was left before its onMounted had come to startGeolocation.
WatchOwned ==
  (leaked > 0 => leftEarly) /\ (watching => mounted)

\* The stale flag is a copy of an age that grows by itself.  A marker that has it is
\* older than the threshold, and one without it was not when the store's timer ran
\* last, so it exceeds the threshold by no more than the time since then, whatever
\* event or answer came in between (applyLocationUpdate, setFriendMeta, both timers).
AgeIsTold ==
  \A f \in Friends : markers[f].is =>
    IF markers[f].stale THEN now - markers[f].at > Threshold
    ELSE lastTickMs - markers[f].at <= Threshold
=============================================================================
