------------------------------ MODULE Realtime ------------------------------
(***************************************************************************)
(* The fan-out of one owner's locations and privacy changes to the viewers: *)
(* LocationGateway.handleLocationUpdate with broadcastToAuthorizedViewers,  *)
(* and PrivacyRealtimeService's two notifications, which SharingService     *)
(* starts after its commit and does not wait for.  All of them read the     *)
(* friends, ask canViewerSeeOwner for one viewer after the other and emit   *)
(* what it says, so any number of them overlap.  At the other end of a      *)
(* viewer's socket is the location store of the web client.                 *)
(***************************************************************************)
EXTENDS Visibility, Naturals, Sequences

CONSTANTS
  Owner,                        \* the user whose location is followed
  MaxFixes,                     \* bound: locations the owner sends
  MaxChanges,                   \* bound: changes of policy, friends, viewing
  MaxDrops,                     \* bound: connections lost
  MaxFailures                   \* bound: handlers cut short by an error

ASSUME OwnerAssumption == Owner \in Users
ASSUME BoundsAssumption ==
  MaxFixes \in Nat /\ MaxChanges \in Nat /\ MaxDrops \in Nat /\ MaxFailures \in Nat

Viewers == Users \ {Owner}
Tasks == Calls                  \* a handler runs one check at a time

VARIABLES
  loc,                          \* Redis: the owner's current location, 0 = none
  stopped,                      \* Redis: viewers that stopped viewing the owner
  task,                         \* [Tasks -> the local state of one handler]
  online,                       \* viewers whose socket is in its room
  inbox,                        \* [Viewers -> events emitted, not delivered]
  marker,                       \* [Viewers -> fix on the viewer's map, 0 = none]
  fixes,                        \* locations sent so far: the last one's number
  changes, drops, failures,     \* counters for the bounds
  horizon,                      \* history: [Viewers -> the last fix that had
                                \* been sent when the viewer could see the owner]
  excused                       \* history: viewers whose last revocation met
                                \* one of the cases that the code does not cover

clientVars == <<online, inbox, marker>>
boundVars == <<changes, drops, failures>>
historyVars == <<horizon, excused>>
realtimeVars == <<store, check, loc, stopped, task, clientVars, fixes, boundVars,
                  historyVars>>

Fixes == 1..MaxFixes

(* The events of a viewer's room.  A location is known by the order in      *)
(* which the owner's client took it, which is also its timestamp.           *)
LocationUpdated(fix) == [event |-> "location:updated", fix |-> fix]
LocationHidden == [event |-> "location:hidden"]
SharingChanged(mode) == [event |-> "sharing:changed", mode |-> mode]

Events == {LocationUpdated(fix) : fix \in Fixes} \cup {LocationHidden}
            \cup {SharingChanged(mode) : mode \in Modes}

TaskRecords == [kind : {"none", "update", "modeChanged", "listChanged"},
                pc : {"free", "previous", "store", "friends", "turn", "check",
                      "clear"},
                fix : 0..MaxFixes, mode : Modes, todo : SUBSET Viewers,
                stop : {"unread", "no", "yes"}]

NewTask(kind, pc, fix, mode) ==
  [kind |-> kind, pc |-> pc, fix |-> fix, mode |-> mode, todo |-> {}, stop |-> "no"]

IdleTask == NewTask("none", "free", 0, "GHOST")

RealtimeTypeOK ==
  /\ StoreTypeOK
  /\ CheckTypeOK
  /\ loc \in 0..MaxFixes
  /\ stopped \subseteq Viewers
  /\ task \in [Tasks -> TaskRecords]
  /\ online \subseteq Viewers
  /\ inbox \in [Viewers -> Seq(Events)]
  /\ marker \in [Viewers -> 0..MaxFixes]
  /\ fixes \in 0..MaxFixes
  /\ changes \in 0..MaxChanges
  /\ drops \in 0..MaxDrops
  /\ failures \in 0..MaxFailures
  /\ horizon \in [Viewers -> 0..MaxFixes]
  /\ excused \subseteq Viewers

\* Any policy that the handlers of Sharing can have left behind, nothing sent.
RealtimeInit ==
  /\ friendships \in SUBSET {normalizeFriendPair(v, Owner) : v \in Viewers}
  /\ settings \in {[u \in Users |-> IF u = Owner THEN m ELSE NoRow] :
                     m \in Modes \cup {NoRow}}
  /\ selectedFriends \in {[u \in Users |-> IF u = Owner THEN ids ELSE {}] :
                            ids \in SUBSET Viewers}
  /\ exceptFriends \in {[u \in Users |-> IF u = Owner THEN ids ELSE {}] :
                          ids \in SUBSET Viewers}
  /\ CheckInit
  /\ loc = 0 /\ stopped = {}
  /\ task = [t \in Tasks |-> IdleTask]
  /\ online = Viewers
  /\ inbox = [v \in Viewers |-> <<>>]
  /\ marker = [v \in Viewers |-> 0]
  /\ fixes = 0 /\ changes = 0 /\ drops = 0 /\ failures = 0
  /\ horizon = [v \in Viewers |-> 0]
  /\ excused = {}

-----------------------------------------------------------------------------
(* Emitting.  A room without a socket swallows the event: nothing is kept   *)
(* for a viewer that is offline.                                            *)

EmitTo(vs, event) ==
  inbox' = [v \in Viewers |-> IF v \in vs \cap online THEN Append(inbox[v], event)
                              ELSE inbox[v]]

\* A location:hidden that is lost is not repeated.
HideLost(vs) == excused' = excused \cup {v \in vs : ~CanSee(v, Owner)}

-----------------------------------------------------------------------------
(* History of the viewers' rights.                                          *)

\* A broadcast is in its turn for v: it may emit on reads made before this step.
BroadcastUnderWay(v) ==
  \E t \in Tasks : /\ task[t].kind = "update" /\ task[t].pc = "check"
                   /\ check[t].viewer = v

\* A commit, with the viewers that it removes from the owner's friends.
ObserveRights(removed) ==
  /\ horizon' = [v \in Viewers |->
       IF CanSee(v, Owner)' \/ v \in removed THEN fixes ELSE horizon[v]]
  /\ excused' = {v \in Viewers :
       /\ ~CanSee(v, Owner)'
       /\ \/ v \in excused
          \/ CanSee(v, Owner) /\ BroadcastUnderWay(v)
          \/ v \in removed}

-----------------------------------------------------------------------------
(* The owner's requests.                                                    *)

Start(t, local) ==
  /\ task[t].pc = "free"
  /\ task' = [task EXCEPT ![t] = local]

Change == changes < MaxChanges /\ changes' = changes + 1

\* location:update arrives, with a location newer than the ones before.
ReceiveFix(t) ==
  /\ fixes < MaxFixes
  /\ Start(t, NewTask("update", "previous", fixes + 1, "GHOST"))
  /\ fixes' = fixes + 1
  /\ horizon' = [v \in Viewers |->
                   IF CanSee(v, Owner) THEN fixes + 1 ELSE horizon[v]]
  /\ UNCHANGED <<store, check, loc, stopped, clientVars, boundVars, excused>>

\* updateMode: the commit, and notifySharingModeChanged started behind it.
updateMode(t, mode) ==
  /\ Change
  /\ UpsertMode(Owner, mode)
  /\ Start(t, NewTask("modeChanged", "friends", 0, mode))
  /\ ObserveRights({})
  /\ UNCHANGED <<check, loc, stopped, clientVars, fixes, drops, failures>>

\* updateSelectedFriends, updateExceptFriends: the same with the list's
\* transaction and notifySharingListChanged.  The ids were vetted (Sharing).
updateList(t, mode, ids) ==
  /\ Change
  /\ ReplaceList(Owner, mode, ids)
  /\ Start(t, NewTask("listChanged", "friends", 0, mode))
  /\ ObserveRights({})
  /\ UNCHANGED <<check, loc, stopped, clientVars, fixes, drops, failures>>

\* acceptFriendRequest and removeFriend.  Neither tells the location store of
\* the other side anything: friend:removed is only shown as a notification.
Befriend(v) ==
  /\ Change
  /\ createFriendship(v, Owner)
  /\ ObserveRights({})
  /\ UNCHANGED <<check, loc, stopped, task, clientVars, fixes, drops, failures>>

Unfriend(v) ==
  /\ Change
  /\ areFriends(v, Owner)
  /\ removeFriendship(v, Owner)
  /\ ObserveRights({v})
  /\ UNCHANGED <<check, loc, stopped, task, clientVars, fixes, drops, failures>>

-----------------------------------------------------------------------------
(* The handlers, one action per await.                                      *)

GoTo(t, pc) == task' = [task EXCEPT ![t].pc = pc]
End(t) == task' = [task EXCEPT ![t] = IdleTask]

\* The previous location is read and the new one validated against it: of the
\* four validations only the order (strictly increasing) is modelled.
ReadPrevious(t) ==
  /\ task[t].pc = "previous"
  /\ IF loc # 0 /\ task[t].fix <= loc THEN End(t) ELSE GoTo(t, "store")
  /\ UNCHANGED <<store, check, loc, stopped, clientVars, fixes, boundVars,
                 historyVars>>

setCurrentLocation(t) ==
  /\ task[t].pc = "store"
  /\ loc' = task[t].fix
  /\ GoTo(t, "friends")
  /\ UNCHANGED <<store, check, stopped, clientVars, fixes, boundVars, historyVars>>

\* What is left of a handler when its loop has the viewers todo to go: after
\* the loop a change to GHOST still deletes the location.
Remaining(local, todo) ==
  CASE todo # {} -> [local EXCEPT !.pc = "turn", !.todo = todo]
    [] todo = {} /\ local.kind = "modeChanged" /\ local.mode = "GHOST" ->
         [local EXCEPT !.pc = "clear", !.todo = {}]
    [] OTHER -> IdleTask

\* getFriendIds answers.  A change of mode is announced to all of them before
\* the first check is even asked for.
ReadFriends(t) ==
  /\ task[t].pc = "friends"
  /\ task' = [task EXCEPT ![t] = Remaining(@, getFriendIds(Owner))]
  /\ IF task[t].kind = "modeChanged"
     THEN EmitTo(getFriendIds(Owner), SharingChanged(task[t].mode))
     ELSE UNCHANGED inbox
  /\ UNCHANGED <<store, check, loc, stopped, online, marker, fixes, boundVars,
                 historyVars>>

\* The next viewer of the loop.  A broadcast asks isViewingStopped as well, and
\* waits for both answers.
TakeViewer(t, v) ==
  /\ task[t].pc = "turn"
  /\ v \in task[t].todo
  /\ Ask(t, v, Owner)
  /\ task' = [task EXCEPT ![t].pc = "check", ![t].todo = @ \ {v},
               ![t].stop = IF task[t].kind = "update" THEN "unread" ELSE "no"]
  /\ UNCHANGED <<loc, stopped, clientVars, fixes, boundVars, historyVars>>

CheckViewer(t) ==
  /\ task[t].pc = "check"
  /\ ReadFriendship(t) \/ ReadMode(t) \/ ReadList(t)
  /\ UNCHANGED <<loc, stopped, task, clientVars, fixes, boundVars, historyVars>>

isViewingStopped(t) ==
  /\ task[t].pc = "check"
  /\ task[t].stop = "unread"
  /\ task' = [task EXCEPT ![t].stop =
                IF check[t].viewer \in stopped THEN "yes" ELSE "no"]
  /\ UNCHANGED <<store, check, loc, stopped, clientVars, fixes, boundVars,
                 historyVars>>

\* The answers are in: the turn of this viewer ends with at most one event.
EndTurn(t) ==
  /\ task[t].pc = "check"
  /\ Done(t)
  /\ task' = [task EXCEPT ![t] = Remaining(@, @.todo)]
  /\ check' = [check EXCEPT ![t] = IdleCheck]
  /\ UNCHANGED <<store, loc, stopped, online, marker, fixes, boundVars, horizon>>

\* Mutant: canViewerSeeOwner is not awaited, and a promise is truthy.
BroadcastToAll(t) ==
  /\ task[t].kind = "update"
  /\ task[t].stop # "unread"
  /\ EndTurn(t)
  /\ IF task[t].stop = "no"
     THEN EmitTo({check[t].viewer}, LocationUpdated(task[t].fix))
     ELSE UNCHANGED inbox
  /\ UNCHANGED excused

BroadcastTo(t) ==
  /\ task[t].kind = "update"
  /\ task[t].stop # "unread"
  /\ EndTurn(t)
  /\ IF check[t].result /\ task[t].stop = "no"
     THEN EmitTo({check[t].viewer}, LocationUpdated(task[t].fix))
     ELSE UNCHANGED inbox
  /\ UNCHANGED excused

Hide(v) ==
  /\ EmitTo({v}, LocationHidden)
  /\ IF v \in online THEN UNCHANGED excused ELSE HideLost({v})

\* Mutant: only a change to GHOST hides, as on the client.
NotifyGhostOnly(t) ==
  /\ task[t].kind = "modeChanged"
  /\ EndTurn(t)
  /\ IF check[t].result \/ task[t].mode # "GHOST"
     THEN UNCHANGED <<inbox, excused>>
     ELSE Hide(check[t].viewer)

NotifyModeTo(t) ==
  /\ task[t].kind = "modeChanged"
  /\ EndTurn(t)
  /\ IF check[t].result THEN UNCHANGED <<inbox, excused>> ELSE Hide(check[t].viewer)

\* Mutant: a changed list is announced to the viewers on it and to no other.
NotifyListedOnly(t) ==
  /\ task[t].kind = "listChanged"
  /\ EndTurn(t)
  /\ IF check[t].result
     THEN EmitTo({check[t].viewer}, SharingChanged(task[t].mode))
     ELSE UNCHANGED inbox
  /\ UNCHANGED excused

NotifyListTo(t) ==
  /\ task[t].kind = "listChanged"
  /\ EndTurn(t)
  /\ IF check[t].result
     THEN /\ EmitTo({check[t].viewer}, SharingChanged(task[t].mode))
          /\ UNCHANGED excused
     ELSE Hide(check[t].viewer)

deleteCurrentLocation(t) ==
  /\ task[t].pc = "clear"
  /\ loc' = 0
  /\ End(t)
  /\ UNCHANGED <<store, check, stopped, clientVars, fixes, boundVars, historyVars>>

\* Any await may reject instead: a broadcast reports INTERNAL_ERROR to the owner,
\* a notification ends unheard.  The rest of the loop is not made up for.
Fail(t) ==
  /\ failures < MaxFailures
  /\ failures' = failures + 1
  /\ task[t].pc # "free"
  /\ End(t)
  /\ check' = [check EXCEPT ![t] = IdleCheck]
  /\ CASE task[t].kind = "update" -> UNCHANGED excused
       [] task[t].pc = "friends" -> HideLost(Viewers)
       [] OTHER -> HideLost((task[t].todo \cup {check[t].viewer}) \cap Viewers)
  /\ UNCHANGED <<store, loc, stopped, clientVars, fixes, changes, drops, horizon>>

HandlerStep(t) ==
  \/ ReadPrevious(t) \/ setCurrentLocation(t) \/ ReadFriends(t)
  \/ \E v \in Viewers : TakeViewer(t, v)
  \/ CheckViewer(t) \/ isViewingStopped(t)
  \/ BroadcastTo(t) \/ NotifyModeTo(t) \/ NotifyListTo(t)
  \/ deleteCurrentLocation(t)

-----------------------------------------------------------------------------
(* The viewer's socket and the location store behind it.                    *)

\* applyLocationUpdate shows whatever arrives, older or newer; hidden and a
\* change to GHOST remove the marker.
Apply(event, shown) ==
  CASE event.event = "location:updated" -> event.fix
    [] event = LocationHidden -> 0
    [] event = SharingChanged("GHOST") -> 0
    [] OTHER -> shown

Deliver(v) ==
  /\ inbox[v] # <<>>
  /\ marker' = [marker EXCEPT ![v] = Apply(Head(inbox[v]), @)]
  /\ inbox' = [inbox EXCEPT ![v] = Tail(@)]
  /\ UNCHANGED <<store, check, loc, stopped, task, online, fixes, boundVars,
                 historyVars>>

\* The connection is lost with what was on its way.  handleDisconnect forgets
\* what the viewer had stopped; the page and its markers stay.
Drop(v) ==
  /\ drops < MaxDrops
  /\ drops' = drops + 1
  /\ v \in online
  /\ online' = online \ {v}
  /\ inbox' = [inbox EXCEPT ![v] = <<>>]
  /\ stopped' = stopped \ {v}
  /\ IF \E i \in DOMAIN inbox[v] : inbox[v][i] = LocationHidden
     THEN HideLost({v})
     ELSE UNCHANGED excused
  /\ UNCHANGED <<store, check, loc, task, marker, fixes, changes, failures, horizon>>

\* handleConnection: the new socket joins the room, and nothing is sent to it.
Reconnect(v) ==
  /\ v \in Viewers \ online
  /\ online' = online \cup {v}
  /\ UNCHANGED <<store, check, loc, stopped, task, inbox, marker, fixes, boundVars,
                 historyVars>>

handleStopViewing(v) ==
  /\ Change
  /\ v \in online
  /\ stopped' = stopped \cup {v}
  /\ EmitTo({v}, LocationHidden)
  /\ UNCHANGED <<store, check, loc, task, online, marker, fixes, drops, failures,
                 historyVars>>

handleStartViewing(v) ==
  /\ v \in online \cap stopped
  /\ stopped' = stopped \ {v}
  /\ UNCHANGED <<store, check, loc, task, clientVars, fixes, boundVars, historyVars>>

-----------------------------------------------------------------------------

RealtimeNext ==
  \/ \E t \in Tasks :
       \/ ReceiveFix(t)
       \/ \E mode \in Modes : updateMode(t, mode)
       \/ \E mode \in ListModes, ids \in SUBSET getFriendIds(Owner) :
            updateList(t, mode, ids)
       \/ HandlerStep(t)
       \/ Fail(t)
  \/ \E v \in Viewers :
       \/ Befriend(v) \/ Unfriend(v)
       \/ Deliver(v) \/ Drop(v) \/ Reconnect(v)
       \/ handleStopViewing(v) \/ handleStartViewing(v)

RealtimeSpec == RealtimeInit /\ [][RealtimeNext]_realtimeVars

\* Every query is answered and every socket that stays open delivers: the event
\* loop runs each continuation, TCP each frame.  Requests, errors, lost and
\* reopened connections are under no obligation.
RealtimeFairness ==
  /\ \A t \in Tasks : WF_realtimeVars(HandlerStep(t))
  /\ \A v \in Viewers : WF_realtimeVars(Deliver(v))

FairRealtimeSpec == RealtimeSpec /\ RealtimeFairness

-----------------------------------------------------------------------------
(* Properties.                                                              *)

\* No viewer is ever sent, or shows, a location that the owner sent after the
\* viewer's last right to see the owner: whatever the policy changes between
\* the reads of a broadcast, at worst it lets a location through that had
\* already reached the server when the right ended (or the friendship did).
NothingSentAfterRevocation ==
  \A v \in Viewers :
    /\ marker[v] <= horizon[v]
    /\ \A i \in DOMAIN inbox[v] :
         inbox[v][i].event = "location:updated" => inbox[v][i].fix <= horizon[v]

\* Nothing is under way for the viewer any more.
Settled(v) ==
  /\ v \in online
  /\ inbox[v] = <<>>
  /\ \A t \in Tasks : task[t].pc = "free"

\* When everything has settled a viewer without the right to see the owner has no
\* marker of the owner, except in four cases: a broadcast was in its turn for
\* the viewer when the right was withdrawn, the friendship was removed, the
\* location:hidden was lost with the connection, or the notification failed.
StaleMarkerExplained ==
  \A v \in Viewers :
    Settled(v) /\ ~CanSee(v, Owner) /\ marker[v] # 0 => v \in excused

\* Once the right is withdrawn the marker goes away, unless the right comes back
\* or one of those four cases occurs.
RevocationReachesViewer ==
  \A v \in Viewers :
    ~CanSee(v, Owner) ~> (marker[v] = 0 \/ CanSee(v, Owner) \/ v \in excused)

\* The README's third privacy guarantee and INTERVIEW.md section 5: a change to
\* Ghost removes the marker from the map of every friend.
GhostHidesMarker ==
  \A v \in Viewers :
    Settled(v) /\ areFriends(v, Owner) /\ getModeForUser(Owner) = "GHOST"
      => marker[v] = 0
=============================================================================
