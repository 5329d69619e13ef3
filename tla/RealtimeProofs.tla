--------------------------- MODULE RealtimeProofs ---------------------------
(***************************************************************************)
(* Type correctness of Realtime, that no viewer is sent, or shows, a        *)
(* location newer than the viewer's last right to see the owner, and why a  *)
(* marker can outlive that right: for any number of viewers, overlapping    *)
(* handlers, locations, changes, lost connections and failures.             *)
(***************************************************************************)
EXTENDS Realtime, SequenceTheorems, TLAPS

(* What the reads made so far are worth to the broadcast of task t.  Each of *)
(* them either still holds, or the right ended later than the location came. *)
Verdict(t) ==
  /\ check[t].pc \in {"mode", "list"} =>
       \/ areFriends(check[t].viewer, Owner)
       \/ task[t].fix <= horizon[check[t].viewer]
  /\ check[t].pc = "list" =>
       /\ check[t].mode \in ListModes
       /\ ModeAllows(check[t].mode, Owner, check[t].viewer) =>
            task[t].fix <= horizon[check[t].viewer]
  /\ check[t].pc = "done" /\ check[t].result =>
       task[t].fix <= horizon[check[t].viewer]

TaskInv(t) ==
  /\ task[t].pc = "check" => check[t].viewer \in Viewers /\ check[t].owner = Owner
  /\ task[t].kind = "update" => task[t].fix # 0 /\ task[t].fix <= fixes
  /\ task[t].kind = "update" /\ task[t].pc = "check" => Verdict(t)

(* A viewer who can see the owner may be sent everything.                    *)
HorizonInv ==
  \A v \in Viewers :
    /\ horizon[v] <= fixes
    /\ CanSee(v, Owner) => horizon[v] = fixes

RealtimeInv ==
  /\ RealtimeTypeOK
  /\ HorizonInv
  /\ \A t \in Tasks : TaskInv(t)
  /\ NothingSentAfterRevocation

-----------------------------------------------------------------------------
(* Calls of canViewerSeeOwner.                                              *)

\* A step that leaves the store alone leaves the answers alone.
LEMMA StoreKept ==
  ASSUME UNCHANGED store
  PROVE  \A v, o : /\ areFriends(v, o)' = areFriends(v, o)
                   /\ CanSee(v, o)' = CanSee(v, o)
                   /\ \A m : ModeAllows(m, o, v)' = ModeAllows(m, o, v)
BY DEF store, CanSee, areFriends, getModeForUser, ModeAllows, isSelectedFriend,
       isExceptFriend

\* The two shapes of an assignment to a call's local state.
LEMMA CallUpdated ==
  ASSUME CheckTypeOK, NEW c \in Calls, NEW pc \in Steps, NEW mode \in Modes,
         NEW result \in BOOLEAN,
         \/ check' = [check EXCEPT ![c].pc = pc]
         \/ check' = [check EXCEPT ![c].pc = pc, ![c].mode = mode]
         \/ check' = [check EXCEPT ![c].pc = pc, ![c].result = result]
  PROVE  /\ check' \in [Calls -> CheckRecords]
         /\ \A d \in Calls \ {c} : check'[d] = check[d]
         /\ check'[c].viewer = check[c].viewer /\ check'[c].owner = check[c].owner
<1> DEFINE r == check[c]
           s == check'[c]
<1>1. r \in CheckRecords
  BY DEF CheckTypeOK
<1>2. check' \in [Calls -> {check[d] : d \in Calls} \cup {s}]
      /\ \A d \in Calls \ {c} : check'[d] = check[d]
  BY DEF CheckTypeOK
<1>3. \/ s = [r EXCEPT !.pc = pc]
      \/ s = [r EXCEPT !.pc = pc, !.mode = mode]
      \/ s = [r EXCEPT !.pc = pc, !.result = result]
  BY DEF CheckTypeOK
<1>4. s \in CheckRecords /\ s.viewer = r.viewer /\ s.owner = r.owner
  BY <1>1, <1>3 DEF CheckRecords
<1> QED BY <1>2, <1>4 DEF CheckTypeOK

-----------------------------------------------------------------------------
(* Rights: the store, the horizon and what verdicts rely on.                *)

LEMMA RightsKept ==
  ASSUME HorizonInv, UNCHANGED <<store, fixes, horizon>>
  PROVE  /\ HorizonInv'
         /\ \A t \in Tasks : /\ TaskInv(t)
                             /\ task'[t] = task[t]
                             /\ check'[t] = check[t]
                             => TaskInv(t)'
<1>1. \A v, o : /\ areFriends(v, o)' = areFriends(v, o)
                /\ CanSee(v, o)' = CanSee(v, o)
                /\ \A m : ModeAllows(m, o, v)' = ModeAllows(m, o, v)
  BY DEF store, CanSee, areFriends, getModeForUser, ModeAllows, isSelectedFriend,
         isExceptFriend
<1>2. HorizonInv'
  BY <1>1 DEF HorizonInv
<1>3. ASSUME NEW t \in Tasks, TaskInv(t), task'[t] = task[t], check'[t] = check[t]
      PROVE  TaskInv(t)'
  <2>1. task[t].kind = "update" /\ task[t].pc = "check" => Verdict(t)'
    BY <1>1, <1>3 DEF TaskInv, Verdict
  <2> QED BY <1>3, <2>1 DEF TaskInv
<1> QED BY <1>2, <1>3

LEMMA RightsObserved ==
  ASSUME RealtimeTypeOK, HorizonInv, NEW removed \in SUBSET Viewers,
         ObserveRights(removed), UNCHANGED fixes
  PROVE  /\ horizon' \in [Viewers -> 0..MaxFixes]
         /\ excused' \subseteq Viewers
         /\ HorizonInv'
         /\ \A v \in Viewers : horizon[v] <= horizon'[v]
         /\ \A v \in removed : horizon'[v] = fixes
<1>1. \A v \in Viewers :
        horizon'[v] = IF CanSee(v, Owner)' \/ v \in removed THEN fixes ELSE horizon[v]
  BY DEF ObserveRights
<1>2. fixes \in 0..MaxFixes /\ horizon \in [Viewers -> 0..MaxFixes] /\ MaxFixes \in Nat
  BY BoundsAssumption DEF RealtimeTypeOK
<1>3. horizon' \in [Viewers -> 0..MaxFixes]
  BY <1>2 DEF ObserveRights
<1>4. HorizonInv'
  BY <1>1, <1>2 DEF HorizonInv
<1>5. \A v \in Viewers : horizon[v] <= horizon'[v]
  BY <1>1, <1>2 DEF HorizonInv
<1> QED BY <1>1, <1>3, <1>4, <1>5 DEF ObserveRights

\* A commit takes nothing from a verdict under way: who is removed gets the
\* present horizon, and a row only changes together with its list's mode.
LEMMA VerdictsSurvive ==
  ASSUME RealtimeTypeOK, HorizonInv', UNCHANGED <<check, fixes>>,
         horizon' \in [Viewers -> 0..MaxFixes],
         \A v \in Viewers : horizon[v] <= horizon'[v],
         \A v \in Viewers : areFriends(v, Owner) =>
           areFriends(v, Owner)' \/ horizon'[v] = fixes,
         \A v \in Viewers, m \in ListModes :
           ModeAllows(m, Owner, v)' =>
             ModeAllows(m, Owner, v) \/ getModeForUser(Owner)' = m,
         NEW t \in Tasks, TaskInv(t), task'[t] = task[t]
  PROVE  TaskInv(t)'
<1> DEFINE v == check[t].viewer
           f == task[t].fix
           m == check[t].mode
<1>1. CASE ~(task[t].kind = "update" /\ task[t].pc = "check")
  BY <1>1 DEF TaskInv
<1>2. CASE task[t].kind = "update" /\ task[t].pc = "check"
  <2>1. v \in Viewers /\ f <= fixes /\ Verdict(t) /\ check'[t] = check[t]
    BY <1>2 DEF TaskInv
  <2>2. f \in Nat /\ fixes \in Nat /\ horizon[v] \in Nat /\ horizon'[v] \in Nat
    BY <2>1, BoundsAssumption DEF RealtimeTypeOK, TaskRecords
  <2>3. f <= horizon[v] => f <= horizon'[v]
    BY <2>1, <2>2
  <2>4. areFriends(v, Owner) => areFriends(v, Owner)' \/ f <= horizon'[v]
    BY <2>1, <2>2
  <2>5. CanSee(v, Owner)' => f <= horizon'[v]
    BY <2>1, <2>2 DEF HorizonInv
  <2>6. check[t].pc = "list" /\ ModeAllows(m, Owner, v)' => f <= horizon'[v]
    <3>1. SUFFICES ASSUME check[t].pc = "list", ModeAllows(m, Owner, v)',
                          ~ModeAllows(m, Owner, v)
                   PROVE  f <= horizon'[v]
      BY <2>1, <2>3 DEF Verdict
    <3>2. m \in ListModes /\ (areFriends(v, Owner) \/ f <= horizon[v])
      BY <2>1, <3>1 DEF Verdict
    <3>3. getModeForUser(Owner)' = m
      BY <2>1, <3>1, <3>2
    <3>4. areFriends(v, Owner)' /\ v # Owner => CanSee(v, Owner)'
      BY <3>1, <3>3 DEF CanSee
    <3> QED BY <2>1, <2>3, <2>4, <2>5, <3>2, <3>4 DEF Viewers
  <2>7. Verdict(t)'
    BY <2>1, <2>3, <2>4, <2>6 DEF Verdict
  <2> QED BY <2>1, <2>7 DEF TaskInv
<1> QED BY <1>1, <1>2

-----------------------------------------------------------------------------
(* Events and markers.                                                      *)

LEMMA Emitted ==
  ASSUME RealtimeTypeOK, NothingSentAfterRevocation, NEW vs \in SUBSET Viewers,
         NEW e \in Events, EmitTo(vs, e), UNCHANGED <<marker, horizon>>,
         e.event = "location:updated" => \A v \in vs : e.fix <= horizon[v]
  PROVE  inbox' \in [Viewers -> Seq(Events)] /\ NothingSentAfterRevocation'
<1>1. ASSUME NEW v \in Viewers
      PROVE  /\ inbox'[v] \in Seq(Events)
             /\ \A i \in DOMAIN inbox'[v] :
                  inbox'[v][i].event = "location:updated" =>
                    inbox'[v][i].fix <= horizon[v]
  <2>1. inbox[v] \in Seq(Events)
    BY DEF RealtimeTypeOK
  <2>2. \A i \in DOMAIN inbox[v] :
          inbox[v][i].event = "location:updated" => inbox[v][i].fix <= horizon[v]
    BY DEF NothingSentAfterRevocation
  <2>3. CASE v \in vs \cap online
    <3>1. inbox'[v] = Append(inbox[v], e)
      BY <2>3 DEF EmitTo
    <3>2. /\ Append(inbox[v], e) \in Seq(Events)
          /\ Len(Append(inbox[v], e)) = Len(inbox[v]) + 1
          /\ \A i \in 1..Len(inbox[v]) : Append(inbox[v], e)[i] = inbox[v][i]
          /\ Append(inbox[v], e)[Len(inbox[v]) + 1] = e
      BY <2>1, AppendProperties
    <3>3. /\ DOMAIN inbox[v] = 1..Len(inbox[v]) /\ Len(inbox[v]) \in Nat
          /\ DOMAIN Append(inbox[v], e) = 1..(Len(inbox[v]) + 1)
      BY <2>1, <3>2, LenProperties
    <3>4. ASSUME NEW i \in DOMAIN inbox'[v],
                 inbox'[v][i].event = "location:updated"
          PROVE  inbox'[v][i].fix <= horizon[v]
      <4>1. CASE i = Len(inbox[v]) + 1
        BY <2>3, <3>1, <3>2, <3>4, <4>1
      <4>2. CASE i # Len(inbox[v]) + 1
        <5>1. i \in 1..Len(inbox[v])
          BY <3>1, <3>3, <4>2
        <5> QED BY <2>2, <3>1, <3>2, <3>3, <3>4, <5>1
      <4> QED BY <4>1, <4>2
    <3> QED BY <3>1, <3>2, <3>4
  <2>4. CASE v \notin vs \cap online
    BY <2>1, <2>2, <2>4 DEF EmitTo
  <2> QED BY <2>3, <2>4
<1>2. inbox' \in [Viewers -> Seq(Events)]
  BY <1>1 DEF EmitTo
<1> QED BY <1>1, <1>2 DEF NothingSentAfterRevocation

\* Nothing was sent, and the horizon did not go back.
LEMMA NothingNew ==
  ASSUME RealtimeTypeOK, NothingSentAfterRevocation, UNCHANGED <<inbox, marker>>,
         horizon' \in [Viewers -> 0..MaxFixes],
         \A v \in Viewers : horizon[v] <= horizon'[v]
  PROVE  NothingSentAfterRevocation'
<1>1. ASSUME NEW v \in Viewers
      PROVE  /\ marker[v] <= horizon'[v]
             /\ \A i \in DOMAIN inbox[v] :
                  inbox[v][i].event = "location:updated" =>
                    inbox[v][i].fix <= horizon'[v]
  <2>1. /\ marker[v] \in Nat /\ horizon[v] \in Nat /\ horizon'[v] \in Nat
        /\ horizon[v] <= horizon'[v] /\ marker[v] <= horizon[v]
    BY BoundsAssumption DEF RealtimeTypeOK, NothingSentAfterRevocation
  <2>2. ASSUME NEW i \in DOMAIN inbox[v], inbox[v][i].event = "location:updated"
        PROVE  inbox[v][i].fix <= horizon'[v]
    <3>1. inbox[v][i].fix <= horizon[v]
      BY <2>2 DEF NothingSentAfterRevocation
    <3>2. inbox[v][i] \in Events
      BY LenProperties, ElementOfSeq DEF RealtimeTypeOK
    <3>3. inbox[v][i].fix \in Nat
      BY <2>2, <3>2, BoundsAssumption
      DEF Events, Fixes, LocationUpdated, LocationHidden, SharingChanged
    <3> QED BY <2>1, <3>1, <3>3
  <2> QED BY <2>1, <2>2
<1> QED BY <1>1 DEF NothingSentAfterRevocation

-----------------------------------------------------------------------------
(* The owner's requests.                                                    *)

LEMMA CommitKeepsInv ==
  ASSUME RealtimeInv, NEW removed \in SUBSET Viewers, ObserveRights(removed),
         StoreTypeOK', changes' \in 0..MaxChanges,
         UNCHANGED <<check, loc, stopped, clientVars, fixes, drops, failures>>,
         task' \in [Tasks -> TaskRecords],
         \A t \in Tasks : \/ task'[t] = task[t]
                          \/ task'[t].pc # "check" /\ task'[t].kind # "update",
         \A v \in Viewers : areFriends(v, Owner) =>
           areFriends(v, Owner)' \/ v \in removed,
         \A v \in Viewers, m \in ListModes :
           ModeAllows(m, Owner, v)' =>
             ModeAllows(m, Owner, v) \/ getModeForUser(Owner)' = m
  PROVE  RealtimeInv'
<1> USE DEF RealtimeInv
<1>1. /\ horizon' \in [Viewers -> 0..MaxFixes]
      /\ excused' \subseteq Viewers
      /\ HorizonInv'
      /\ \A v \in Viewers : horizon[v] <= horizon'[v]
      /\ \A v \in removed : horizon'[v] = fixes
  BY RightsObserved
<1>2. RealtimeTypeOK'
  BY <1>1 DEF RealtimeTypeOK, CheckTypeOK, clientVars
<1>3. ASSUME NEW t \in Tasks
      PROVE  TaskInv(t)'
  <2>1. CASE task'[t] = task[t]
    BY <1>1, <2>1, VerdictsSurvive
  <2>2. CASE task'[t].pc # "check" /\ task'[t].kind # "update"
    BY <2>2 DEF TaskInv
  <2> QED BY <2>1, <2>2
<1>4. NothingSentAfterRevocation'
  BY <1>1, NothingNew DEF clientVars
<1> QED BY <1>1, <1>2, <1>3, <1>4

LEMMA ChangeBounded ==
  ASSUME RealtimeTypeOK, Change
  PROVE  changes' \in 0..MaxChanges
BY BoundsAssumption DEF RealtimeTypeOK, Change

LEMMA NotificationStarted ==
  ASSUME RealtimeTypeOK, NEW t \in Tasks, NEW m \in Modes,
         NEW k \in {"modeChanged", "listChanged"},
         Start(t, NewTask(k, "friends", 0, m))
  PROVE  /\ task' \in [Tasks -> TaskRecords]
         /\ \A u \in Tasks : \/ task'[u] = task[u]
                             \/ task'[u].pc # "check" /\ task'[u].kind # "update"
<1> DEFINE local == NewTask(k, "friends", 0, m)
<1>1. local \in TaskRecords /\ local.pc = "friends" /\ local.kind = k
  BY BoundsAssumption DEF NewTask, TaskRecords
<1> HIDE DEF local
<1>2. task' = [task EXCEPT ![t] = local]
  BY DEF Start, local
<1> QED BY <1>1, <1>2 DEF RealtimeTypeOK

LEMMA UpdateModeInv ==
  ASSUME RealtimeInv, NEW t \in Tasks, NEW mode \in Modes, updateMode(t, mode)
  PROVE  RealtimeInv'
<1>1. StoreTypeOK'
  BY OwnerAssumption DEF RealtimeInv, RealtimeTypeOK, StoreTypeOK, updateMode, UpsertMode
<1>2. /\ \A v \in Viewers : areFriends(v, Owner)' = areFriends(v, Owner)
      /\ \A v \in Viewers, m \in ListModes :
           ModeAllows(m, Owner, v)' = ModeAllows(m, Owner, v)
  BY DEF updateMode, UpsertMode, areFriends, ModeAllows, isSelectedFriend,
         isExceptFriend
<1>3. changes' \in 0..MaxChanges
  BY ChangeBounded DEF RealtimeInv, updateMode
<1>4. /\ task' \in [Tasks -> TaskRecords]
      /\ \A u \in Tasks : \/ task'[u] = task[u]
                          \/ task'[u].pc # "check" /\ task'[u].kind # "update"
  BY NotificationStarted DEF RealtimeInv, updateMode
<1>5. {} \in SUBSET Viewers
  OBVIOUS
<1> QED BY <1>1, <1>2, <1>3, <1>4, <1>5, CommitKeepsInv DEF updateMode

LEMMA UpdateListInv ==
  ASSUME RealtimeInv, NEW t \in Tasks, NEW mode \in ListModes,
         NEW ids \in SUBSET getFriendIds(Owner), updateList(t, mode, ids)
  PROVE  RealtimeInv'
<1>1. ids \subseteq Users /\ mode \in Modes
  BY DEF getFriendIds, ListModes, Modes
<1>2. StoreTypeOK'
  BY <1>1, OwnerAssumption
  DEF RealtimeInv, RealtimeTypeOK, StoreTypeOK, updateList, ReplaceList
<1>3. \A v \in Viewers : areFriends(v, Owner)' = areFriends(v, Owner)
  BY DEF updateList, ReplaceList, areFriends
<1>4. getModeForUser(Owner)' = mode
  BY OwnerAssumption
  DEF updateList, ReplaceList, getModeForUser, ListModes, NoRow, RealtimeInv,
      RealtimeTypeOK, StoreTypeOK
<1>5. \A v \in Viewers, m \in ListModes :
        m # mode => ModeAllows(m, Owner, v)' = ModeAllows(m, Owner, v)
  BY OwnerAssumption
  DEF updateList, ReplaceList, ModeAllows, isSelectedFriend, isExceptFriend,
      ListModes, RealtimeInv, RealtimeTypeOK, StoreTypeOK
<1>6. changes' \in 0..MaxChanges
  BY ChangeBounded DEF RealtimeInv, updateList
<1>7. /\ task' \in [Tasks -> TaskRecords]
      /\ \A u \in Tasks : \/ task'[u] = task[u]
                          \/ task'[u].pc # "check" /\ task'[u].kind # "update"
  BY <1>1, NotificationStarted DEF RealtimeInv, updateList
<1> QED BY <1>2, <1>3, <1>4, <1>5, <1>6, <1>7, CommitKeepsInv DEF updateList

LEMMA FriendshipInv ==
  ASSUME RealtimeInv, NEW v \in Viewers, Befriend(v) \/ Unfriend(v)
  PROVE  RealtimeInv'
<1>1. normalizeFriendPair(v, Owner) \in Pairs
  <2>1. <<v, Owner>> \in {r \in Users \X Users : r[1] # r[2]}
    BY OwnerAssumption DEF Viewers
  <2> QED BY <2>1 DEF Pairs
<1>2. StoreTypeOK'
  BY <1>1
  DEF RealtimeInv, RealtimeTypeOK, StoreTypeOK, Befriend, Unfriend,
      createFriendship, removeFriendship
<1>3. \A w \in Viewers, m \in ListModes :
        ModeAllows(m, Owner, w)' = ModeAllows(m, Owner, w)
  BY DEF Befriend, Unfriend, createFriendship, removeFriendship, ModeAllows,
         isSelectedFriend, isExceptFriend
<1>4. changes' \in 0..MaxChanges
  BY ChangeBounded DEF RealtimeInv, Befriend, Unfriend
<1>5. /\ task' \in [Tasks -> TaskRecords]
      /\ \A u \in Tasks : task'[u] = task[u]
  BY DEF RealtimeInv, RealtimeTypeOK, Befriend, Unfriend
<1>6. CASE Befriend(v)
  <2>1. \A w \in Viewers : areFriends(w, Owner) => areFriends(w, Owner)'
    BY <1>6 DEF Befriend, createFriendship, areFriends
  <2> QED
    BY <1>2, <1>3, <1>4, <1>5, <1>6, <2>1, CommitKeepsInv DEF Befriend
<1>7. CASE Unfriend(v)
  <2>1. \A w \in Viewers : areFriends(w, Owner) => areFriends(w, Owner)' \/ w \in {v}
    BY <1>7 DEF Unfriend, removeFriendship, areFriends, normalizeFriendPair
  <2> QED
    BY <1>2, <1>3, <1>4, <1>5, <1>7, <2>1, CommitKeepsInv DEF Unfriend
<1> QED BY <1>6, <1>7

\* A location arrives: whoever can see the owner may be sent this one too.
LEMMA ReceiveFixInv ==
  ASSUME RealtimeInv, NEW t \in Tasks, ReceiveFix(t)
  PROVE  RealtimeInv'
<1> USE DEF RealtimeInv
<1> DEFINE local == NewTask("update", "previous", fixes + 1, "GHOST")
<1>1. /\ fixes' = fixes + 1 /\ fixes' \in 0..MaxFixes /\ fixes \in Nat
      /\ MaxFixes \in Nat
  BY BoundsAssumption DEF ReceiveFix, RealtimeTypeOK
<1>2. /\ local \in TaskRecords /\ local.pc = "previous"
      /\ local.kind = "update" /\ local.fix = fixes'
  BY <1>1 DEF NewTask, TaskRecords, Modes
<1>3. task' = [task EXCEPT ![t] = local]
  BY DEF ReceiveFix, Start
<1> HIDE DEF local
<1>4. /\ task' \in [Tasks -> TaskRecords] /\ task'[t] = local
      /\ \A u \in Tasks \ {t} : task'[u] = task[u]
  BY <1>2, <1>3 DEF RealtimeTypeOK
<1>5. \A v \in Viewers :
        /\ horizon'[v] = IF CanSee(v, Owner) THEN fixes' ELSE horizon[v]
        /\ CanSee(v, Owner)' = CanSee(v, Owner)
        /\ areFriends(v, Owner)' = areFriends(v, Owner)
        /\ \A m : ModeAllows(m, Owner, v)' = ModeAllows(m, Owner, v)
  BY <1>1 DEF ReceiveFix, store, CanSee, areFriends, getModeForUser, ModeAllows,
              isSelectedFriend, isExceptFriend
<1>6. /\ horizon' \in [Viewers -> 0..MaxFixes]
      /\ HorizonInv'
      /\ \A v \in Viewers : horizon[v] <= horizon'[v]
  <2>1. horizon' \in [Viewers -> 0..MaxFixes]
    BY <1>1 DEF ReceiveFix, RealtimeTypeOK
  <2>2. \A v \in Viewers : horizon[v] \in Nat /\ horizon[v] <= fixes
    BY <1>1 DEF RealtimeTypeOK, HorizonInv
  <2>3. HorizonInv'
    BY <1>1, <1>5, <2>2 DEF HorizonInv
  <2>4. \A v \in Viewers : horizon[v] <= horizon'[v]
    BY <1>1, <1>5, <2>2
  <2> QED BY <2>1, <2>3, <2>4
<1>7. RealtimeTypeOK'
  BY <1>1, <1>4, <1>6
  DEF ReceiveFix, RealtimeTypeOK, StoreTypeOK, CheckTypeOK, store, clientVars,
      boundVars
<1>8. ASSUME NEW u \in Tasks
      PROVE  TaskInv(u)'
  <2>1. CASE u = t
    BY <1>1, <1>2, <1>4, <2>1 DEF TaskInv
  <2>2. CASE u # t
    <3> DEFINE v == check[u].viewer
               f == task[u].fix
    <3>1. task'[u] = task[u] /\ check' = check /\ f \in Nat
      BY <1>1, <1>4, <2>2 DEF ReceiveFix, RealtimeTypeOK, TaskRecords
    <3>2. task[u].kind = "update" => f # 0 /\ f <= fixes'
      BY <1>1, <3>1 DEF TaskInv
    <3>3. ASSUME task[u].kind = "update", task[u].pc = "check"
          PROVE  Verdict(u)'
      <4>1. v \in Viewers /\ Verdict(u)
        BY <3>3 DEF TaskInv
      <4>2. horizon[v] \in Nat /\ horizon'[v] \in Nat
        BY <1>1, <1>6, <4>1 DEF RealtimeTypeOK
      <4>3. f <= horizon[v] => f <= horizon'[v]
        BY <1>6, <3>1, <4>1, <4>2
      <4> QED BY <1>5, <3>1, <4>1, <4>3 DEF Verdict
    <3> QED BY <3>1, <3>2, <3>3 DEF TaskInv
  <2> QED BY <2>1, <2>2
<1>9. NothingSentAfterRevocation'
  BY <1>6, NothingNew DEF ReceiveFix, clientVars
<1> QED BY <1>6, <1>7, <1>8, <1>9

-----------------------------------------------------------------------------
(* The handlers.  None of them writes the store or a horizon.               *)

LEMMA QuietStep ==
  ASSUME RealtimeInv, UNCHANGED <<store, fixes, horizon>>, RealtimeTypeOK',
         NothingSentAfterRevocation',
         \A t \in Tasks : \/ task'[t] = task[t] /\ check'[t] = check[t]
                          \/ TaskInv(t)'
  PROVE  RealtimeInv'
<1>1. HorizonInv'
  BY RightsKept DEF RealtimeInv
<1>2. \A t \in Tasks : TaskInv(t)'
  BY RightsKept DEF RealtimeInv
<1> QED BY <1>1, <1>2 DEF RealtimeInv

\* Nothing is sent: the viewers' side stays as it is.
LEMMA SilentStep ==
  ASSUME RealtimeInv, UNCHANGED <<store, fixes, horizon, inbox, marker>>
  PROVE  NothingSentAfterRevocation'
<1>1. /\ horizon' \in [Viewers -> 0..MaxFixes]
      /\ \A v \in Viewers : horizon[v] \in Nat
  BY BoundsAssumption DEF RealtimeInv, RealtimeTypeOK
<1> QED BY <1>1, NothingNew DEF RealtimeInv

(* The shapes of an assignment to a handler's local state.                   *)

\* The handler goes on, or ends, outside a viewer's turn.
Moved(t) ==
  /\ task' \in [Tasks -> TaskRecords]
  /\ \A u \in Tasks \ {t} : task'[u] = task[u]
  /\ task'[t].pc # "check"
  /\ task'[t].kind = "update" => task[t].kind = "update" /\ task'[t].fix = task[t].fix

LEMMA IdleTaskTyped == IdleTask \in TaskRecords /\ IdleTask.pc = "free"
                       /\ IdleTask.kind = "none"
BY BoundsAssumption DEF IdleTask, NewTask, TaskRecords, Modes

LEMMA IdleCheckTyped == IdleCheck \in CheckRecords /\ IdleCheck.pc = "idle"
BY DEF IdleCheck, CheckRecords, Steps, Modes

LEMMA TaskAssigned ==
  ASSUME RealtimeTypeOK, NEW t \in Tasks, NEW local \in TaskRecords,
         task' = [task EXCEPT ![t] = local], local.pc # "check",
         local.kind = "update" => task[t].kind = "update" /\ local.fix = task[t].fix
  PROVE  Moved(t) /\ task'[t] = local
BY DEF RealtimeTypeOK, Moved

LEMMA Ended ==
  ASSUME RealtimeTypeOK, NEW t \in Tasks, End(t)
  PROVE  Moved(t)
BY IdleTaskTyped, TaskAssigned DEF End

LEMMA Advanced ==
  ASSUME RealtimeTypeOK, NEW t \in Tasks, NEW pc \in {"store", "friends"}, GoTo(t, pc)
  PROVE  Moved(t)
<1> DEFINE local == [task[t] EXCEPT !.pc = pc]
<1>1. task[t] \in TaskRecords
  BY DEF RealtimeTypeOK
<1>2. /\ local \in TaskRecords /\ local.pc = pc
      /\ local.kind = task[t].kind /\ local.fix = task[t].fix
  BY <1>1 DEF TaskRecords
<1>3. task' = [task EXCEPT ![t] = local]
  BY DEF GoTo, RealtimeTypeOK
<1> HIDE DEF local
<1> QED BY <1>2, <1>3, TaskAssigned

LEMMA RemainingTyped ==
  ASSUME NEW local \in TaskRecords, NEW todo \in SUBSET Viewers
  PROVE  /\ Remaining(local, todo) \in TaskRecords
         /\ Remaining(local, todo).pc # "check"
         /\ Remaining(local, todo).kind = "update" =>
              local.kind = "update" /\ Remaining(local, todo).fix = local.fix
<1>1. CASE todo # {}
  <2> DEFINE r == [local EXCEPT !.pc = "turn", !.todo = todo]
  <2>1. r \in TaskRecords /\ r.pc = "turn" /\ r.kind = local.kind /\ r.fix = local.fix
    BY DEF TaskRecords
  <2> QED BY <1>1, <2>1 DEF Remaining
<1>2. CASE todo = {} /\ local.kind = "modeChanged" /\ local.mode = "GHOST"
  <2> DEFINE r == [local EXCEPT !.pc = "clear", !.todo = {}]
  <2>1. r \in TaskRecords /\ r.pc = "clear" /\ r.kind = local.kind /\ r.fix = local.fix
    BY DEF TaskRecords
  <2> QED BY <1>2, <2>1 DEF Remaining
<1>3. CASE todo = {} /\ ~(local.kind = "modeChanged" /\ local.mode = "GHOST")
  BY <1>3, IdleTaskTyped DEF Remaining
<1> QED BY <1>1, <1>2, <1>3

LEMMA LoopGoesOn ==
  ASSUME RealtimeTypeOK, NEW t \in Tasks, NEW todo \in SUBSET Viewers,
         task' = [task EXCEPT ![t] = Remaining(task[t], todo)]
  PROVE  Moved(t)
<1>1. task[t] \in TaskRecords
  BY DEF RealtimeTypeOK
<1> QED BY <1>1, RemainingTyped, TaskAssigned

LEMMA MovedInv ==
  ASSUME RealtimeInv, NEW t \in Tasks, Moved(t),
         UNCHANGED <<store, fixes, horizon>>,
         \A u \in Tasks \ {t} : check'[u] = check[u],
         RealtimeTypeOK', NothingSentAfterRevocation'
  PROVE  RealtimeInv'
<1>1. TaskInv(t)'
  BY DEF RealtimeInv, TaskInv, Moved
<1> QED BY <1>1, QuietStep DEF Moved

-----------------------------------------------------------------------------
(* The actions of the handlers.                                             *)

LEMMA LocationKeyInv ==
  ASSUME RealtimeInv, NEW t \in Tasks,
         ReadPrevious(t) \/ setCurrentLocation(t) \/ deleteCurrentLocation(t)
  PROVE  RealtimeInv'
<1> USE DEF RealtimeInv
<1>1. Moved(t)
  BY Ended, Advanced DEF ReadPrevious, setCurrentLocation, deleteCurrentLocation
<1>2. /\ UNCHANGED <<store, check, stopped, clientVars, fixes, boundVars, historyVars>>
      /\ loc' \in {loc, task[t].fix, 0}
  BY DEF ReadPrevious, setCurrentLocation, deleteCurrentLocation
<1>3. loc' \in 0..MaxFixes
  BY <1>2, BoundsAssumption DEF RealtimeTypeOK, TaskRecords
<1>4. RealtimeTypeOK'
  BY <1>1, <1>2, <1>3
  DEF Moved, RealtimeTypeOK, StoreTypeOK, CheckTypeOK, store, clientVars, boundVars,
      historyVars
<1>5. NothingSentAfterRevocation'
  BY <1>2, SilentStep DEF clientVars, historyVars
<1> QED BY <1>1, <1>2, <1>4, <1>5, MovedInv DEF historyVars

LEMMA ReadFriendsInv ==
  ASSUME RealtimeInv, NEW t \in Tasks, ReadFriends(t)
  PROVE  RealtimeInv'
<1> USE DEF RealtimeInv
<1>1. getFriendIds(Owner) \in SUBSET Viewers
  BY DEF getFriendIds, Viewers
<1>2. Moved(t)
  BY <1>1, LoopGoesOn DEF ReadFriends
<1>3. UNCHANGED <<store, check, loc, stopped, online, marker, fixes, boundVars,
                  historyVars>>
  BY DEF ReadFriends
<1>4. inbox' \in [Viewers -> Seq(Events)] /\ NothingSentAfterRevocation'
  <2>1. CASE task[t].kind = "modeChanged"
    <3> DEFINE e == SharingChanged(task[t].mode)
    <3>1. task[t].mode \in Modes
      BY DEF RealtimeTypeOK, TaskRecords
    <3>2. e \in Events /\ e.event = "sharing:changed"
      BY <3>1 DEF SharingChanged, Events
    <3>3. EmitTo(getFriendIds(Owner), e) /\ UNCHANGED <<marker, horizon>>
      BY <2>1, <1>3 DEF ReadFriends, historyVars
    <3> HIDE DEF e
    <3> QED BY <1>1, <3>2, <3>3, Emitted
  <2>2. CASE task[t].kind # "modeChanged"
    <3>1. UNCHANGED inbox
      BY <2>2 DEF ReadFriends
    <3> QED BY <3>1, <1>3, SilentStep DEF historyVars, RealtimeTypeOK
  <2> QED BY <2>1, <2>2
<1>5. RealtimeTypeOK'
  BY <1>2, <1>3, <1>4
  DEF Moved, RealtimeTypeOK, StoreTypeOK, CheckTypeOK, store, boundVars, historyVars
<1> QED BY <1>2, <1>3, <1>4, <1>5, MovedInv DEF historyVars

\* A viewer's turn starts: the call has read nothing, so nothing is promised.
LEMMA TakeViewerInv ==
  ASSUME RealtimeInv, NEW t \in Tasks, NEW v \in Viewers, TakeViewer(t, v)
  PROVE  RealtimeInv'
<1> USE DEF RealtimeInv
<1>1. UNCHANGED <<store, loc, stopped, clientVars, fixes, boundVars, historyVars>>
  BY DEF TakeViewer, Ask
<1>2. /\ check' \in [Calls -> CheckRecords]
      /\ \A u \in Tasks \ {t} : check'[u] = check[u]
      /\ check'[t].pc = "friendship" /\ check'[t].viewer = v /\ check'[t].owner = Owner
  <2> DEFINE r == [pc |-> "friendship", viewer |-> v, owner |-> Owner,
                   mode |-> "GHOST", result |-> FALSE]
  <2>1. check' = [check EXCEPT ![t] = r]
    BY DEF TakeViewer, Ask
  <2>2. r \in CheckRecords
    BY OwnerAssumption DEF CheckRecords, Steps, Modes, Viewers
  <2> QED BY <2>1, <2>2 DEF RealtimeTypeOK, CheckTypeOK, Tasks
<1>3. /\ task' \in [Tasks -> TaskRecords]
      /\ \A u \in Tasks \ {t} : task'[u] = task[u]
      /\ task'[t].kind = task[t].kind /\ task'[t].fix = task[t].fix
  <2> DEFINE stop == IF task[t].kind = "update" THEN "unread" ELSE "no"
             r == [task[t] EXCEPT !.pc = "check", !.todo = @ \ {v}, !.stop = stop]
  <2>1. task[t] \in TaskRecords
    BY DEF RealtimeTypeOK
  <2>2. r \in TaskRecords /\ r.kind = task[t].kind /\ r.fix = task[t].fix
    BY <2>1 DEF TaskRecords
  <2>3. task' = [task EXCEPT ![t] = r]
    BY DEF TakeViewer, RealtimeTypeOK
  <2> HIDE DEF r
  <2> QED BY <2>2, <2>3 DEF RealtimeTypeOK
<1>4. RealtimeTypeOK'
  BY <1>1, <1>2, <1>3
  DEF RealtimeTypeOK, StoreTypeOK, CheckTypeOK, store, clientVars, boundVars, historyVars
<1>5. TaskInv(t)'
  BY <1>1, <1>2, <1>3 DEF TaskInv, Verdict
<1>6. NothingSentAfterRevocation'
  BY <1>1, SilentStep DEF clientVars, historyVars
<1> QED BY <1>1, <1>2, <1>3, <1>4, <1>5, <1>6, QuietStep DEF historyVars

\* A query of the call: where the answer is yes, the viewer either has that
\* right now or had it when the location came.
LEMMA CheckViewerInv ==
  ASSUME RealtimeInv, NEW t \in Tasks, CheckViewer(t)
  PROVE  RealtimeInv'
<1> USE DEF RealtimeInv
<1> DEFINE v == check[t].viewer
           f == task[t].fix
           m == check[t].mode
<1>1. /\ UNCHANGED <<store, loc, stopped, task, clientVars, fixes, boundVars,
                     historyVars>>
      /\ task[t].pc = "check" /\ v \in Viewers /\ check[t].owner = Owner
  BY DEF CheckViewer, ReadFriendship, ReadMode, ReadList, TaskInv
<1>2. getModeForUser(Owner) \in Modes
  BY OwnerAssumption DEF getModeForUser, RealtimeTypeOK, StoreTypeOK, Modes
<1>3. /\ check' \in [Calls -> CheckRecords]
      /\ \A u \in Tasks \ {t} : check'[u] = check[u]
      /\ check'[t].viewer = v /\ check'[t].owner = Owner
  <2> USE CallUpdated DEF Steps, Modes, Tasks, RealtimeTypeOK
  <2>1. CASE ReadFriendship(t)
    BY <1>1, <2>1 DEF ReadFriendship, Return
  <2>2. CASE ReadMode(t)
    BY <1>1, <1>2, <2>2 DEF ReadMode, Return, ListModes
  <2>3. CASE ReadList(t)
    <3>1. ModeAllows(check[t].mode, check[t].owner, v) \in BOOLEAN
      BY DEF ModeAllows
    <3> QED BY <1>1, <2>3, <3>1 DEF ReadList, Return
  <2> QED BY <2>1, <2>2, <2>3 DEF CheckViewer
<1>4. RealtimeTypeOK'
  BY <1>1, <1>3
  DEF RealtimeTypeOK, StoreTypeOK, CheckTypeOK, store, clientVars, boundVars, historyVars
<1>5. /\ areFriends(v, Owner)' = areFriends(v, Owner)
      /\ \A n : ModeAllows(n, Owner, v)' = ModeAllows(n, Owner, v)
  BY <1>1, <1>3, StoreKept DEF store
<1>6. /\ fixes' = fixes /\ horizon'[v] = horizon[v] /\ task'[t] = task[t]
      /\ CanSee(v, Owner) => horizon[v] = fixes
      /\ v # Owner
  BY <1>1 DEF HorizonInv, historyVars, Viewers
<1>7. ASSUME task[t].kind = "update"
      PROVE  Verdict(t)'
  <2>1. Verdict(t) /\ f <= fixes
    BY <1>1, <1>7 DEF TaskInv
  <2>2. CASE ReadFriendship(t)
    <3>1. CASE areFriends(v, Owner)
      <4>1. check'[t].pc = "mode"
        BY <1>1, <2>2, <3>1 DEF ReadFriendship, RealtimeTypeOK, CheckTypeOK,
                                CheckRecords, Tasks
      <4> QED BY <1>3, <1>5, <3>1, <4>1 DEF Verdict
    <3>2. CASE ~areFriends(v, Owner)
      <4>1. check'[t].pc = "done" /\ check'[t].result = FALSE
        BY <1>1, <2>2, <3>2 DEF ReadFriendship, Return, RealtimeTypeOK, CheckTypeOK,
                                CheckRecords, Tasks
      <4> QED BY <4>1 DEF Verdict
    <3> QED BY <3>1, <3>2
  <2>3. CASE ReadMode(t)
    <3> DEFINE mode == getModeForUser(Owner)
    <3>1. areFriends(v, Owner) \/ f <= horizon[v]
      BY <2>1, <2>3 DEF ReadMode, Verdict
    <3>2. ModeAllows(mode, Owner, v) => f <= horizon[v]
      BY <1>6, <2>1, <3>1 DEF CanSee
    <3>3. CASE mode \in ListModes
      <4>1. check'[t].pc = "list" /\ check'[t].mode = mode
        BY <1>1, <2>3, <3>3 DEF ReadMode, RealtimeTypeOK, CheckTypeOK,
                                CheckRecords, Tasks
      <4> QED BY <1>3, <1>5, <1>6, <3>1, <3>2, <3>3, <4>1 DEF Verdict
    <3>4. CASE mode \notin ListModes
      <4>1. check'[t].pc = "done" /\ check'[t].result = (mode = "EVERYONE")
        BY <1>1, <2>3, <3>4 DEF ReadMode, Return, RealtimeTypeOK, CheckTypeOK,
                                CheckRecords, Tasks
      <4>2. check'[t].result => f <= horizon[v]
        BY <3>2, <4>1 DEF ModeAllows
      <4> QED BY <1>3, <1>6, <4>1, <4>2 DEF Verdict
    <3> QED BY <3>3, <3>4
  <2>4. CASE ReadList(t)
    <3>1. check'[t].pc = "done" /\ check'[t].result = ModeAllows(m, Owner, v)
      BY <1>1, <2>4 DEF ReadList, Return, RealtimeTypeOK, CheckTypeOK,
                        CheckRecords, Tasks
    <3>2. ModeAllows(m, Owner, v) => f <= horizon[v]
      BY <2>1, <2>4 DEF ReadList, Verdict
    <3> QED BY <1>3, <1>6, <3>1, <3>2 DEF Verdict
  <2> QED BY <2>2, <2>3, <2>4 DEF CheckViewer
<1>8. TaskInv(t)'
  BY <1>1, <1>3, <1>7 DEF TaskInv
<1>9. NothingSentAfterRevocation'
  BY <1>1, SilentStep DEF clientVars, historyVars
<1> QED BY <1>1, <1>3, <1>4, <1>8, <1>9, QuietStep DEF historyVars

LEMMA ViewingStoppedInv ==
  ASSUME RealtimeInv, NEW t \in Tasks, isViewingStopped(t)
  PROVE  RealtimeInv'
<1> USE DEF RealtimeInv
<1>1. UNCHANGED <<store, check, loc, stopped, clientVars, fixes, boundVars, historyVars>>
  BY DEF isViewingStopped
<1>2. /\ task' \in [Tasks -> TaskRecords]
      /\ \A u \in Tasks \ {t} : task'[u] = task[u]
      /\ task'[t].kind = task[t].kind /\ task'[t].fix = task[t].fix
      /\ task'[t].pc = task[t].pc
  <2> DEFINE stop == IF check[t].viewer \in stopped THEN "yes" ELSE "no"
             r == [task[t] EXCEPT !.stop = stop]
  <2>1. task[t] \in TaskRecords
    BY DEF RealtimeTypeOK
  <2>2. /\ r \in TaskRecords /\ r.kind = task[t].kind /\ r.fix = task[t].fix
        /\ r.pc = task[t].pc
    BY <2>1 DEF TaskRecords
  <2>3. task' = [task EXCEPT ![t] = r]
    BY DEF isViewingStopped, RealtimeTypeOK
  <2> HIDE DEF r
  <2> QED BY <2>2, <2>3 DEF RealtimeTypeOK
<1>3. RealtimeTypeOK'
  BY <1>1, <1>2
  DEF RealtimeTypeOK, StoreTypeOK, CheckTypeOK, store, clientVars, boundVars, historyVars
<1>4. TaskInv(t)'
  <2>1. check' = check /\ fixes' = fixes /\ TaskInv(t)
    BY <1>1
  <2>2. Verdict(t) => Verdict(t)'
    <3>1. UNCHANGED store /\ horizon' = horizon
      BY <1>1 DEF historyVars
    <3> QED BY <1>2, <2>1, <3>1, StoreKept DEF Verdict
  <2> QED BY <1>2, <2>1, <2>2 DEF TaskInv
<1>5. NothingSentAfterRevocation'
  BY <1>1, SilentStep DEF clientVars, historyVars
<1> QED BY <1>1, <1>2, <1>3, <1>4, <1>5, QuietStep DEF historyVars

-----------------------------------------------------------------------------
(* The end of a turn: what is emitted rests on the verdict.                  *)

LEMMA EndTurnInv ==
  ASSUME RealtimeInv, NEW t \in Tasks, EndTurn(t), excused' \subseteq Viewers,
         inbox' \in [Viewers -> Seq(Events)], NothingSentAfterRevocation'
  PROVE  RealtimeInv'
<1> USE DEF RealtimeInv
<1>1. UNCHANGED <<store, loc, stopped, online, marker, fixes, boundVars, horizon>>
  BY DEF EndTurn
<1>2. Moved(t)
  <2>1. task[t].todo \in SUBSET Viewers
    BY DEF RealtimeTypeOK, TaskRecords
  <2>2. task' = [task EXCEPT ![t] = Remaining(task[t], task[t].todo)]
    BY DEF EndTurn, RealtimeTypeOK
  <2> QED BY <2>1, <2>2, LoopGoesOn
<1>3. /\ check' \in [Calls -> CheckRecords]
      /\ \A u \in Tasks \ {t} : check'[u] = check[u]
  BY IdleCheckTyped DEF EndTurn, RealtimeTypeOK, CheckTypeOK, Tasks
<1>4. RealtimeTypeOK'
  BY <1>1, <1>2, <1>3
  DEF Moved, RealtimeTypeOK, StoreTypeOK, CheckTypeOK, store, boundVars
<1> QED BY <1>1, <1>2, <1>3, <1>4, MovedInv

LEMMA Hidden ==
  ASSUME RealtimeInv, NEW v \in Viewers, Hide(v), UNCHANGED <<marker, horizon>>
  PROVE  /\ inbox' \in [Viewers -> Seq(Events)]
         /\ NothingSentAfterRevocation'
         /\ excused' \subseteq Viewers
<1>1. LocationHidden \in Events /\ LocationHidden.event # "location:updated"
  BY DEF LocationHidden, Events
<1>2. EmitTo({v}, LocationHidden) /\ {v} \in SUBSET Viewers
  BY DEF Hide
<1>3. excused' \subseteq Viewers
  BY DEF Hide, HideLost, RealtimeInv, RealtimeTypeOK
<1> QED BY <1>1, <1>2, <1>3, Emitted DEF RealtimeInv

LEMMA BroadcastInv ==
  ASSUME RealtimeInv, NEW t \in Tasks, BroadcastTo(t)
  PROVE  RealtimeInv'
<1> USE DEF RealtimeInv
<1> DEFINE v == check[t].viewer
           e == LocationUpdated(task[t].fix)
<1>1. /\ EndTurn(t) /\ UNCHANGED <<store, fixes, marker, horizon, excused>>
      /\ task[t].kind = "update" /\ task[t].fix # 0 /\ v \in Viewers
      /\ check[t].result => task[t].fix <= horizon[v]
  BY DEF BroadcastTo, EndTurn, Done, TaskInv, Verdict
<1>2. inbox' \in [Viewers -> Seq(Events)] /\ NothingSentAfterRevocation'
  <2>1. CASE check[t].result /\ task[t].stop = "no"
    <3>1. e \in Events /\ e.fix = task[t].fix
      BY <1>1, BoundsAssumption
      DEF RealtimeTypeOK, TaskRecords, LocationUpdated, Events, Fixes
    <3>2. EmitTo({v}, e) /\ {v} \in SUBSET Viewers
      BY <1>1, <2>1 DEF BroadcastTo
    <3> HIDE DEF e
    <3> QED BY <1>1, <2>1, <3>1, <3>2, Emitted
  <2>2. CASE ~(check[t].result /\ task[t].stop = "no")
    <3>1. UNCHANGED inbox
      BY <2>2 DEF BroadcastTo
    <3> QED BY <1>1, <3>1, SilentStep DEF RealtimeTypeOK
  <2> QED BY <2>1, <2>2
<1> QED BY <1>1, <1>2, EndTurnInv DEF RealtimeTypeOK

LEMMA NotifyModeInv ==
  ASSUME RealtimeInv, NEW t \in Tasks, NotifyModeTo(t)
  PROVE  RealtimeInv'
<1>1. EndTurn(t) /\ UNCHANGED <<store, fixes, marker, horizon>>
      /\ check[t].viewer \in Viewers
  BY DEF NotifyModeTo, EndTurn, RealtimeInv, TaskInv
<1>2. CASE check[t].result
  <2>1. UNCHANGED <<inbox, excused>>
    BY <1>2 DEF NotifyModeTo
  <2>2. NothingSentAfterRevocation'
    BY <1>1, <2>1, SilentStep
  <2> QED BY <1>1, <2>1, <2>2, EndTurnInv DEF RealtimeInv, RealtimeTypeOK
<1>3. CASE ~check[t].result
  <2>1. Hide(check[t].viewer)
    BY <1>3 DEF NotifyModeTo
  <2> QED BY <1>1, <2>1, Hidden, EndTurnInv
<1> QED BY <1>2, <1>3

LEMMA NotifyListInv ==
  ASSUME RealtimeInv, NEW t \in Tasks, NotifyListTo(t)
  PROVE  RealtimeInv'
<1> DEFINE v == check[t].viewer
           e == SharingChanged(task[t].mode)
<1>1. EndTurn(t) /\ UNCHANGED <<store, fixes, marker, horizon>>
      /\ v \in Viewers /\ task[t].mode \in Modes
  BY DEF NotifyListTo, EndTurn, RealtimeInv, TaskInv, RealtimeTypeOK, TaskRecords
<1>2. CASE check[t].result
  <2>1. e \in Events /\ e.event = "sharing:changed"
    BY <1>1 DEF SharingChanged, Events
  <2>2. EmitTo({v}, e) /\ excused' = excused /\ {v} \in SUBSET Viewers
    BY <1>1, <1>2 DEF NotifyListTo
  <2> HIDE DEF e
  <2>3. inbox' \in [Viewers -> Seq(Events)] /\ NothingSentAfterRevocation'
    BY <1>1, <2>1, <2>2, Emitted DEF RealtimeInv
  <2> QED BY <1>1, <2>2, <2>3, EndTurnInv DEF RealtimeInv, RealtimeTypeOK
<1>3. CASE ~check[t].result
  <2>1. Hide(v)
    BY <1>3 DEF NotifyListTo
  <2> QED BY <1>1, <2>1, Hidden, EndTurnInv
<1> QED BY <1>2, <1>3

LEMMA FailInv ==
  ASSUME RealtimeInv, NEW t \in Tasks, Fail(t)
  PROVE  RealtimeInv'
<1> USE DEF RealtimeInv
<1>1. UNCHANGED <<store, loc, stopped, clientVars, fixes, changes, drops, horizon>>
  BY DEF Fail
<1>2. Moved(t)
  BY Ended DEF Fail
<1>3. /\ check' \in [Calls -> CheckRecords]
      /\ \A u \in Tasks \ {t} : check'[u] = check[u]
  BY IdleCheckTyped DEF Fail, RealtimeTypeOK, CheckTypeOK, Tasks
<1>4. failures' \in 0..MaxFailures
  BY BoundsAssumption DEF Fail, RealtimeTypeOK
<1>5. excused' \subseteq Viewers
  BY DEF Fail, HideLost, RealtimeTypeOK, TaskRecords
<1>6. RealtimeTypeOK'
  BY <1>1, <1>2, <1>3, <1>4, <1>5
  DEF Moved, RealtimeTypeOK, StoreTypeOK, CheckTypeOK, store, clientVars
<1>7. NothingSentAfterRevocation'
  BY <1>1, SilentStep DEF clientVars
<1> QED BY <1>1, <1>2, <1>3, <1>6, <1>7, MovedInv

LEMMA HandlerStepInv ==
  ASSUME RealtimeInv, NEW t \in Tasks, HandlerStep(t)
  PROVE  RealtimeInv'
BY LocationKeyInv, ReadFriendsInv, TakeViewerInv, CheckViewerInv, ViewingStoppedInv,
   BroadcastInv, NotifyModeInv, NotifyListInv
DEF HandlerStep

-----------------------------------------------------------------------------
(* The viewers' side: no handler moves.                                     *)

LEMMA ViewerStep ==
  ASSUME RealtimeInv, UNCHANGED <<store, check, loc, task, fixes, horizon>>,
         stopped' \subseteq Viewers, online' \subseteq Viewers,
         excused' \subseteq Viewers, changes' \in 0..MaxChanges,
         drops' \in 0..MaxDrops, failures' = failures,
         inbox' \in [Viewers -> Seq(Events)], marker' \in [Viewers -> 0..MaxFixes],
         NothingSentAfterRevocation'
  PROVE  RealtimeInv'
<1>1. RealtimeTypeOK'
  BY DEF RealtimeInv, RealtimeTypeOK, StoreTypeOK, CheckTypeOK, store
<1> QED BY <1>1, QuietStep

\* What is delivered was under the horizon already.
LEMMA DeliverInv ==
  ASSUME RealtimeInv, NEW v \in Viewers, Deliver(v)
  PROVE  RealtimeInv'
<1> USE DEF RealtimeInv
<1> DEFINE s == inbox[v]
           shown == Apply(Head(s), marker[v])
<1>1. UNCHANGED <<store, check, loc, stopped, task, online, fixes, boundVars,
                  historyVars>>
  BY DEF Deliver
<1>2. /\ s \in Seq(Events) /\ s # <<>>
      /\ Head(s) \in Events /\ Head(s) = s[1] /\ 1 \in DOMAIN s
      /\ Tail(s) \in Seq(Events)
      /\ \A i \in DOMAIN Tail(s) : i + 1 \in DOMAIN s /\ Tail(s)[i] = s[i + 1]
  <2>1. s \in Seq(Events) /\ s # <<>>
    BY DEF RealtimeTypeOK, Deliver
  <2>2. /\ Head(s) \in Events /\ Tail(s) \in Seq(Events) /\ Len(s) \in Nat \ {0}
        /\ Len(Tail(s)) = Len(s) - 1
        /\ \A i \in 1..(Len(s) - 1) : Tail(s)[i] = s[i + 1]
    BY <2>1, HeadTailProperties, EmptySeq, LenProperties
  <2>3. DOMAIN s = 1..Len(s) /\ DOMAIN Tail(s) = 1..(Len(s) - 1)
    BY <2>1, <2>2, LenProperties
  <2> QED BY <2>1, <2>2, <2>3
<1>3. \A i \in DOMAIN s : s[i].event = "location:updated" => s[i].fix <= horizon[v]
  BY DEF NothingSentAfterRevocation
<1>4. marker[v] \in 0..MaxFixes /\ marker[v] <= horizon[v] /\ horizon[v] \in Nat
  BY BoundsAssumption DEF RealtimeTypeOK, NothingSentAfterRevocation
<1>5. shown \in 0..MaxFixes /\ shown <= horizon[v]
  <2>1. CASE Head(s).event = "location:updated"
    <3>1. Head(s).fix \in Fixes
      BY <1>2, <2>1 DEF Events, LocationUpdated, LocationHidden, SharingChanged
    <3>2. shown = Head(s).fix
      <4>1. LocationHidden.event # "location:updated"
            /\ SharingChanged("GHOST").event # "location:updated"
        BY DEF LocationHidden, SharingChanged
      <4> QED BY <2>1, <4>1 DEF Apply
    <3>3. Head(s).fix <= horizon[v]
      BY <1>2, <1>3, <2>1
    <3> QED BY <3>1, <3>2, <3>3, BoundsAssumption DEF Fixes
  <2>2. CASE Head(s).event # "location:updated"
    <3>1. shown \in {0, marker[v]}
      BY <2>2 DEF Apply
    <3> QED BY <1>4, <3>1, BoundsAssumption
  <2> QED BY <2>1, <2>2
<1>6. /\ marker' = [marker EXCEPT ![v] = shown]
      /\ inbox' = [inbox EXCEPT ![v] = Tail(s)]
  BY DEF Deliver, RealtimeTypeOK
<1> HIDE DEF shown
<1>7. /\ inbox' \in [Viewers -> Seq(Events)]
      /\ marker' \in [Viewers -> 0..MaxFixes]
  BY <1>2, <1>5, <1>6 DEF RealtimeTypeOK
<1>8. NothingSentAfterRevocation'
  <2>1. ASSUME NEW w \in Viewers
        PROVE  /\ marker'[w] <= horizon[w]
               /\ \A i \in DOMAIN inbox'[w] :
                    inbox'[w][i].event = "location:updated" =>
                      inbox'[w][i].fix <= horizon[w]
    <3>1. CASE w = v
      <4>1. marker'[w] = shown /\ inbox'[w] = Tail(s)
        BY <1>6, <3>1 DEF RealtimeTypeOK
      <4> QED BY <1>2, <1>3, <1>5, <3>1, <4>1
    <3>2. CASE w # v
      <4>1. marker'[w] = marker[w] /\ inbox'[w] = inbox[w]
        BY <1>6, <3>2 DEF RealtimeTypeOK
      <4> QED BY <4>1 DEF NothingSentAfterRevocation
    <3> QED BY <3>1, <3>2
  <2> QED BY <1>1, <2>1 DEF NothingSentAfterRevocation, historyVars
<1> QED
  BY <1>1, <1>7, <1>8, ViewerStep
  DEF RealtimeTypeOK, boundVars, historyVars

LEMMA DropInv ==
  ASSUME RealtimeInv, NEW v \in Viewers, Drop(v)
  PROVE  RealtimeInv'
<1> USE DEF RealtimeInv
<1>1. UNCHANGED <<store, check, loc, task, marker, fixes, changes, failures, horizon>>
      /\ online' = online \ {v} /\ stopped' = stopped \ {v}
      /\ inbox' = [inbox EXCEPT ![v] = <<>>]
  BY DEF Drop
<1>2. drops' \in 0..MaxDrops
  BY BoundsAssumption DEF Drop, RealtimeTypeOK
<1>3. excused' \subseteq Viewers
  BY DEF Drop, HideLost, RealtimeTypeOK
<1>4. <<>> \in Seq(Events) /\ DOMAIN <<>> = {}
  BY EmptySeq
<1>5. inbox' \in [Viewers -> Seq(Events)]
  BY <1>1, <1>4 DEF RealtimeTypeOK
<1>6. NothingSentAfterRevocation'
  <2>1. ASSUME NEW w \in Viewers
        PROVE  inbox'[w] = inbox[w] \/ DOMAIN inbox'[w] = {}
    BY <1>1, <1>4 DEF RealtimeTypeOK
  <2> QED BY <1>1, <2>1 DEF NothingSentAfterRevocation
<1> QED BY <1>1, <1>2, <1>3, <1>5, <1>6, ViewerStep DEF RealtimeTypeOK

LEMMA ReconnectInv ==
  ASSUME RealtimeInv, NEW v \in Viewers, Reconnect(v) \/ handleStartViewing(v)
  PROVE  RealtimeInv'
<1> USE DEF RealtimeInv
<1>1. /\ UNCHANGED <<store, check, loc, task, inbox, marker, fixes, boundVars,
                     historyVars>>
      /\ online' \in {online, online \cup {v}} /\ stopped' \in {stopped, stopped \ {v}}
  BY DEF Reconnect, handleStartViewing, clientVars
<1>2. NothingSentAfterRevocation'
  BY <1>1, SilentStep DEF historyVars
<1> QED
  BY <1>1, <1>2, ViewerStep DEF RealtimeTypeOK, boundVars, historyVars

LEMMA StopViewingInv ==
  ASSUME RealtimeInv, NEW v \in Viewers, handleStopViewing(v)
  PROVE  RealtimeInv'
<1> USE DEF RealtimeInv
<1>1. LocationHidden \in Events /\ LocationHidden.event # "location:updated"
  BY DEF LocationHidden, Events
<1>2. /\ UNCHANGED <<store, check, loc, task, online, marker, fixes, drops, failures,
                     horizon, excused>>
      /\ EmitTo({v}, LocationHidden) /\ {v} \in SUBSET Viewers
      /\ stopped' = stopped \cup {v}
  BY DEF handleStopViewing, historyVars
<1>3. changes' \in 0..MaxChanges
  BY ChangeBounded DEF handleStopViewing
<1>4. inbox' \in [Viewers -> Seq(Events)] /\ NothingSentAfterRevocation'
  BY <1>1, <1>2, Emitted
<1> QED BY <1>2, <1>3, <1>4, ViewerStep DEF RealtimeTypeOK

-----------------------------------------------------------------------------
(* The invariant.                                                           *)

LEMMA RealtimeInitInv ==
  ASSUME RealtimeInit
  PROVE  RealtimeInv
<1>1. StoreTypeOK
  <2>1. \A v \in Viewers : normalizeFriendPair(v, Owner) \in Pairs
    <3> TAKE v \in Viewers
    <3>1. <<v, Owner>> \in {r \in Users \X Users : r[1] # r[2]}
      BY OwnerAssumption DEF Viewers
    <3> QED BY <3>1 DEF Pairs
  <2> QED BY <2>1 DEF RealtimeInit, StoreTypeOK, Viewers
<1>2. CheckTypeOK
  BY IdleCheckTyped DEF RealtimeInit, CheckInit, CheckTypeOK
<1>3. task \in [Tasks -> TaskRecords]
  BY IdleTaskTyped DEF RealtimeInit
<1>4. inbox \in [Viewers -> Seq(Events)] /\ \A v \in Viewers : DOMAIN inbox[v] = {}
  <2>1. <<>> \in Seq(Events) /\ DOMAIN <<>> = {}
    BY EmptySeq
  <2> QED BY <2>1 DEF RealtimeInit
<1>5. RealtimeTypeOK
  BY <1>1, <1>2, <1>3, <1>4, BoundsAssumption DEF RealtimeInit, RealtimeTypeOK
<1>6. HorizonInv
  BY DEF RealtimeInit, HorizonInv
<1>7. \A t \in Tasks : TaskInv(t)
  BY IdleTaskTyped DEF RealtimeInit, TaskInv
<1>8. NothingSentAfterRevocation
  BY <1>4 DEF RealtimeInit, NothingSentAfterRevocation
<1> QED BY <1>5, <1>6, <1>7, <1>8 DEF RealtimeInv

LEMMA RealtimeStepInv ==
  ASSUME RealtimeInv, [RealtimeNext]_realtimeVars
  PROVE  RealtimeInv'
<1>1. CASE RealtimeNext
  BY <1>1, ReceiveFixInv, UpdateModeInv, UpdateListInv, HandlerStepInv, FailInv,
     FriendshipInv, DeliverInv, DropInv, ReconnectInv, StopViewingInv
  DEF RealtimeNext
<1>2. CASE UNCHANGED realtimeVars
  <2>1. UNCHANGED <<store, check, loc, stopped, task, online, inbox, marker, fixes,
                    changes, drops, failures, horizon, excused>>
    BY <1>2 DEF realtimeVars, clientVars, boundVars, historyVars
  <2>2. NothingSentAfterRevocation'
    BY <2>1, SilentStep
  <2> QED BY <2>1, <2>2, ViewerStep DEF RealtimeInv, RealtimeTypeOK
<1> QED BY <1>1, <1>2

LEMMA RealtimeInvariant == RealtimeSpec => []RealtimeInv
BY RealtimeInitInv, RealtimeStepInv, PTL DEF RealtimeSpec

\* Every variable keeps its type, the bounded counters their bounds.
THEOREM RealtimeTypeCorrect == RealtimeSpec => []RealtimeTypeOK
<1>1. RealtimeInv => RealtimeTypeOK
  BY DEF RealtimeInv
<1> QED BY <1>1, RealtimeInvariant, PTL

\* broadcastToAuthorizedViewers never lets a viewer have a location that the
\* owner sent after the viewer's last right to see the owner, however the reads
\* of canViewerSeeOwner interleave with the commits that change the policy.
THEOREM NothingSentTooLate == RealtimeSpec => []NothingSentAfterRevocation
<1>1. RealtimeInv => NothingSentAfterRevocation
  BY DEF RealtimeInv
<1> QED BY <1>1, RealtimeInvariant, PTL

-----------------------------------------------------------------------------
(* Stale markers.  A viewer without the right to see the owner, and outside   *)
(* the four cases, is denied by every broadcast that is in the viewer's turn; *)
(* and a marker that the viewer is left with is still to be hidden by a        *)
(* notification: one that has not read the friends yet, has the viewer on its  *)
(* list, or is in the viewer's turn with reads that end in a denial.           *)

\* What the check of t has read ends in a denial, if no commit comes between.
Denies(t) ==
  /\ check[t].pc = "friendship" => ~CanSee(check[t].viewer, Owner)
  /\ check[t].pc = "mode" => /\ areFriends(check[t].viewer, Owner)
                             /\ ~ModeAllows(getModeForUser(Owner), Owner, check[t].viewer)
  /\ check[t].pc = "list" => /\ areFriends(check[t].viewer, Owner)
                             /\ ~ModeAllows(check[t].mode, Owner, check[t].viewer)
  /\ check[t].pc = "done" => ~check[t].result

\* A marker is left when the inbox has been delivered, not counting on changes
\* to GHOST.
StillShown(v) ==
  \/ marker[v] # 0 /\ \A i \in DOMAIN inbox[v] : inbox[v][i] # LocationHidden
  \/ \E i \in DOMAIN inbox[v] :
       /\ inbox[v][i].event = "location:updated"
       /\ \A j \in DOMAIN inbox[v] : j > i => inbox[v][j] # LocationHidden

WillHide(t, v) ==
  /\ task[t].kind \in {"modeChanged", "listChanged"}
  /\ \/ task[t].pc = "friends"
     \/ task[t].pc \in {"turn", "check"} /\ v \in task[t].todo
     \/ task[t].pc = "check" /\ check[t].viewer = v /\ Denies(t)

BroadcastsDeny(v) ==
  \A t \in Tasks :
    task[t].kind = "update" /\ task[t].pc = "check" /\ check[t].viewer = v => Denies(t)

StaleInv ==
  \A v \in Viewers : ~CanSee(v, Owner) /\ v \notin excused =>
    /\ StillShown(v) => areFriends(v, Owner) /\ \E t \in Tasks : WillHide(t, v)
    /\ BroadcastsDeny(v)

LEMMA StaleInit == RealtimeInit => StaleInv
<1> SUFFICES ASSUME RealtimeInit
             PROVE  StaleInv
  OBVIOUS
<1>1. \A v \in Viewers : ~StillShown(v)
  <2>1. DOMAIN <<>> = {}
    BY EmptySeq
  <2> QED BY <2>1 DEF RealtimeInit, StillShown
<1>2. \A v \in Viewers : BroadcastsDeny(v)
  BY IdleTaskTyped DEF RealtimeInit, BroadcastsDeny
<1> QED BY <1>1, <1>2 DEF StaleInv

\* The right, and what a check of it has read, do not change with the store.
LEMMA DenialsKept ==
  ASSUME UNCHANGED store
  PROVE  /\ \A v : CanSee(v, Owner)' <=> CanSee(v, Owner)
         /\ \A v : areFriends(v, Owner)' <=> areFriends(v, Owner)
         /\ \A t \in Tasks : check'[t] = check[t] /\ Denies(t) => Denies(t)'
         /\ \A t \in Tasks, v \in Viewers :
              check'[t] = check[t] /\ task'[t] = task[t] /\ WillHide(t, v) => WillHide(t, v)'
<1>1. \A v : CanSee(v, Owner)' = CanSee(v, Owner) /\ areFriends(v, Owner)' = areFriends(v, Owner)
  BY StoreKept
<1>2. \A v, m : ModeAllows(m, Owner, v)' = ModeAllows(m, Owner, v)
  BY StoreKept
<1>3. getModeForUser(Owner)' = getModeForUser(Owner)
  BY DEF store, getModeForUser
<1>4. \A t \in Tasks : check'[t] = check[t] /\ Denies(t) => Denies(t)'
  BY <1>1, <1>2, <1>3 DEF Denies
<1>5. \A t \in Tasks, v \in Viewers :
        check'[t] = check[t] /\ task'[t] = task[t] /\ WillHide(t, v) => WillHide(t, v)'
  BY <1>4 DEF WillHide
<1> QED BY <1>1, <1>4, <1>5

\* A step of one handler, or of a viewer, that leaves the store alone: no marker
\* comes up where it may not be, the handler hides what it was to hide, and a
\* broadcast that takes its turn denies.
LEMMA StaleKept ==
  ASSUME StaleInv, UNCHANGED store, excused \subseteq excused', NEW t \in Tasks,
         \A u \in Tasks \ {t} : task'[u] = task[u] /\ check'[u] = check[u],
         \A v \in Viewers : ~CanSee(v, Owner) /\ v \notin excused' =>
           /\ StillShown(v)' => StillShown(v)
           /\ StillShown(v)' /\ areFriends(v, Owner) /\ WillHide(t, v) => WillHide(t, v)'
           /\ task'[t].kind = "update" /\ task'[t].pc = "check" /\ check'[t].viewer = v
                => Denies(t)'
  PROVE  StaleInv'
<1> SUFFICES ASSUME NEW v \in Viewers, ~CanSee(v, Owner)', v \notin excused'
             PROVE  /\ StillShown(v)' => areFriends(v, Owner)' /\ \E u \in Tasks : WillHide(u, v)'
                    /\ BroadcastsDeny(v)'
  BY DEF StaleInv
<1>1. /\ ~CanSee(v, Owner) /\ v \notin excused /\ areFriends(v, Owner)' = areFriends(v, Owner)
      /\ \A u \in Tasks : check'[u] = check[u] /\ Denies(u) => Denies(u)'
      /\ \A u \in Tasks : check'[u] = check[u] /\ task'[u] = task[u] /\ WillHide(u, v)
                            => WillHide(u, v)'
  BY DenialsKept DEF areFriends
<1>2. /\ StillShown(v) => areFriends(v, Owner) /\ \E u \in Tasks : WillHide(u, v)
      /\ BroadcastsDeny(v)
  BY <1>1 DEF StaleInv
<1>3. ASSUME StillShown(v)'
      PROVE  areFriends(v, Owner)' /\ \E u \in Tasks : WillHide(u, v)'
  <2>1. StillShown(v)
    BY <1>1, <1>3
  <2>2. PICK u \in Tasks : WillHide(u, v)
    BY <1>2, <2>1
  <2>3. areFriends(v, Owner)
    BY <1>2, <2>1
  <2>4. WillHide(u, v)'
    BY <1>1, <1>3, <2>2, <2>3
  <2> QED BY <1>1, <2>3, <2>4
<1>4. BroadcastsDeny(v)'
  BY <1>1, <1>2 DEF BroadcastsDeny
<1> QED BY <1>3, <1>4

\* An event at the end of an inbox.
LEMMA ShownAfter ==
  ASSUME RealtimeTypeOK, NEW vs, NEW e, EmitTo(vs, e), UNCHANGED marker, NEW v \in Viewers
  PROVE  /\ v \notin vs \/ e.event # "location:updated" => (StillShown(v)' => StillShown(v))
         /\ v \in vs \cap online /\ e = LocationHidden => ~StillShown(v)'
<1>1. CASE v \notin vs \cap online
  <2>1. inbox'[v] = inbox[v]
    BY <1>1 DEF EmitTo
  <2> QED BY <1>1, <2>1 DEF StillShown
<1>2. CASE v \in vs \cap online
  <2> DEFINE n == Len(inbox[v])
  <2>1. /\ inbox[v] \in Seq(Events) /\ n \in Nat /\ DOMAIN inbox[v] = 1..n
    BY LenProperties DEF RealtimeTypeOK
  <2>2. inbox'[v] = Append(inbox[v], e)
    BY <1>2 DEF EmitTo
  <2>3. /\ DOMAIN inbox'[v] = 1..(n + 1) /\ inbox'[v][n + 1] = e
        /\ \A i \in 1..n : inbox'[v][i] = inbox[v][i]
    BY <2>1, <2>2
  <2>4. LocationHidden.event # "location:updated"
    BY DEF LocationHidden
  <2>5. ASSUME e = LocationHidden
        PROVE  ~StillShown(v)'
    <3>1. n + 1 \in DOMAIN inbox'[v] /\ \A i \in DOMAIN inbox'[v] : i = n + 1 \/ n + 1 > i
      BY <2>1, <2>3
    <3> QED BY <2>3, <2>4, <2>5, <3>1 DEF StillShown
  <2>6. ASSUME e.event # "location:updated", StillShown(v)'
        PROVE  StillShown(v)
    <3>1. \A i \in DOMAIN inbox[v] : i \in DOMAIN inbox'[v] /\ inbox'[v][i] = inbox[v][i]
      BY <2>1, <2>3
    <3>2. \A i \in DOMAIN inbox'[v] : i \in DOMAIN inbox[v] \/ inbox'[v][i] = e
      BY <2>1, <2>3
    <3> QED BY <2>6, <3>1, <3>2 DEF StillShown
  <2> QED BY <1>2, <2>5, <2>6
<1> QED BY <1>1, <1>2

\* Steps of a handler that has nothing to hide and sends nothing.
LEMMA PlainTaskStale ==
  ASSUME RealtimeInv, StaleInv, NEW t \in Tasks,
         ReceiveFix(t) \/ ReadPrevious(t) \/ setCurrentLocation(t) \/ deleteCurrentLocation(t)
  PROVE  StaleInv'
<1>1. /\ UNCHANGED <<store, check, inbox, marker, excused>>
      /\ \A v \in Viewers : ~WillHide(t, v)
  BY DEF ReceiveFix, Start, ReadPrevious, setCurrentLocation, deleteCurrentLocation, WillHide,
         clientVars, historyVars
<1>2. (\A u \in Tasks \ {t} : task'[u] = task[u]) /\ task'[t].pc # "check"
  <2>1. CASE ReceiveFix(t)
    <3>1. task' = [task EXCEPT ![t] = NewTask("update", "previous", fixes + 1, "GHOST")]
      BY <2>1 DEF ReceiveFix, Start
    <3>2. NewTask("update", "previous", fixes + 1, "GHOST").pc = "previous"
      BY DEF NewTask
    <3> QED BY <3>1, <3>2 DEF RealtimeInv, RealtimeTypeOK
  <2>2. CASE ~ReceiveFix(t)
    <3>1. Moved(t)
      BY <2>2, Ended, Advanced
      DEF ReadPrevious, setCurrentLocation, deleteCurrentLocation, RealtimeInv
    <3> QED BY <3>1 DEF Moved
  <2> QED BY <2>1, <2>2
<1>3. \A v \in Viewers : StillShown(v)' <=> StillShown(v)
  BY <1>1 DEF StillShown
<1> QED BY <1>1, <1>2, <1>3, StaleKept

\* The loop goes on with whoever is left.
LEMMA LoopHides ==
  ASSUME RealtimeInv, NEW t \in Tasks, NEW todo \in SUBSET Viewers, NEW v \in todo,
         task[t].kind \in {"modeChanged", "listChanged"},
         task' = [task EXCEPT ![t] = Remaining(task[t], todo)]
  PROVE  WillHide(t, v)'
<1> DEFINE r == [task[t] EXCEPT !.pc = "turn", !.todo = todo]
<1>1. task[t] \in TaskRecords
  BY DEF RealtimeInv, RealtimeTypeOK
<1>2. r.kind = task[t].kind /\ r.pc = "turn" /\ r.todo = todo
  BY <1>1 DEF TaskRecords
<1>3. Remaining(task[t], todo) = r
  BY DEF Remaining
<1> HIDE DEF r
<1>4. task'[t] = r
  BY <1>3 DEF RealtimeInv, RealtimeTypeOK
<1> QED BY <1>2, <1>4 DEF WillHide

LEMMA ReadFriendsStale ==
  ASSUME RealtimeInv, StaleInv, NEW t \in Tasks, ReadFriends(t)
  PROVE  StaleInv'
<1>1. getFriendIds(Owner) \in SUBSET Viewers
  BY DEF getFriendIds, Viewers
<1>2. /\ UNCHANGED <<store, check, marker, excused>> /\ task[t].pc = "friends"
      /\ task' = [task EXCEPT ![t] = Remaining(task[t], getFriendIds(Owner))]
  BY DEF ReadFriends, historyVars, RealtimeInv, RealtimeTypeOK
<1>3. (\A u \in Tasks \ {t} : task'[u] = task[u]) /\ task'[t].pc # "check"
  <2>1. Moved(t)
    BY <1>1, <1>2, LoopGoesOn DEF RealtimeInv
  <2> QED BY <2>1 DEF Moved
<1>4. ASSUME NEW v \in Viewers
      PROVE  StillShown(v)' => StillShown(v)
  <2>1. CASE task[t].kind = "modeChanged"
    <3> DEFINE e == SharingChanged(task[t].mode)
    <3>1. EmitTo(getFriendIds(Owner), e)
      BY <2>1 DEF ReadFriends
    <3>2. e.event # "location:updated"
      BY DEF SharingChanged
    <3> HIDE DEF e
    <3> QED BY <1>2, <3>1, <3>2, ShownAfter DEF RealtimeInv
  <2>2. CASE task[t].kind # "modeChanged"
    BY <1>2, <2>2 DEF ReadFriends, StillShown
  <2> QED BY <2>1, <2>2
<1>5. ASSUME NEW v \in Viewers, areFriends(v, Owner), WillHide(t, v)
      PROVE  WillHide(t, v)'
  <2>1. v \in getFriendIds(Owner)
    BY <1>5 DEF getFriendIds, Viewers, areFriends, normalizeFriendPair
  <2> QED BY <1>1, <1>2, <1>5, <2>1, LoopHides DEF WillHide
<1> QED BY <1>2, <1>3, <1>4, <1>5, StaleKept

LEMMA TakeViewerStale ==
  ASSUME RealtimeInv, StaleInv, NEW t \in Tasks, NEW w \in Viewers, TakeViewer(t, w)
  PROVE  StaleInv'
<1>1. UNCHANGED <<store, inbox, marker, excused>> /\ task[t].pc = "turn"
  BY DEF TakeViewer, Ask, clientVars, historyVars
<1>2. /\ \A u \in Tasks \ {t} : check'[u] = check[u]
      /\ check'[t].pc = "friendship" /\ check'[t].viewer = w
  BY DEF TakeViewer, Ask, RealtimeInv, RealtimeTypeOK, CheckTypeOK, Tasks
<1>3. /\ \A u \in Tasks \ {t} : task'[u] = task[u]
      /\ task'[t].kind = task[t].kind /\ task'[t].pc = "check"
      /\ task'[t].todo = task[t].todo \ {w}
  <2> DEFINE stop == IF task[t].kind = "update" THEN "unread" ELSE "no"
             r == [task[t] EXCEPT !.pc = "check", !.todo = @ \ {w}, !.stop = stop]
  <2>1. task[t] \in TaskRecords
    BY DEF RealtimeInv, RealtimeTypeOK
  <2>2. r.kind = task[t].kind /\ r.pc = "check" /\ r.todo = task[t].todo \ {w}
    BY <2>1 DEF TaskRecords
  <2>3. task' = [task EXCEPT ![t] = r]
    BY DEF TakeViewer, RealtimeInv, RealtimeTypeOK
  <2> HIDE DEF r
  <2> QED BY <2>2, <2>3 DEF RealtimeInv, RealtimeTypeOK
<1>4. \A v \in Viewers : StillShown(v)' <=> StillShown(v)
  BY <1>1 DEF StillShown
<1>5. ~CanSee(w, Owner) => Denies(t)'
  <2>1. CanSee(w, Owner)' <=> CanSee(w, Owner)
    BY <1>1, DenialsKept
  <2> QED BY <1>2, <2>1 DEF Denies
<1>6. ASSUME NEW v \in Viewers, ~CanSee(v, Owner)
      PROVE  /\ WillHide(t, v) => WillHide(t, v)'
             /\ check'[t].viewer = v => Denies(t)'
  BY <1>1, <1>2, <1>3, <1>5, <1>6 DEF WillHide
<1> QED BY <1>1, <1>2, <1>3, <1>4, <1>6, StaleKept

\* A read of a call that is to end in a denial leaves it so.
LEMMA ReadDenies ==
  ASSUME RealtimeInv, NEW t \in Tasks, CheckViewer(t), Denies(t),
         ~CanSee(check[t].viewer, Owner)
  PROVE  Denies(t)' /\ check'[t].viewer = check[t].viewer
<1> DEFINE c == check[t]
<1>0. PICK v \in Viewers : v = check[t].viewer
  BY DEF CheckViewer, RealtimeInv, TaskInv
<1> USE <1>0
<1>1. /\ c.owner = Owner /\ UNCHANGED store
      /\ check \in [Calls -> CheckRecords] /\ t \in Calls
  BY DEF CheckViewer, RealtimeInv, TaskInv, ReadFriendship, ReadMode, ReadList, RealtimeTypeOK,
         CheckTypeOK, Tasks
<1>2. /\ areFriends(v, Owner)' <=> areFriends(v, Owner)
      /\ \A m : ModeAllows(m, Owner, v)' <=> ModeAllows(m, Owner, v)
      /\ getModeForUser(Owner)' = getModeForUser(Owner)
  <2>1. getModeForUser(Owner)' = getModeForUser(Owner)
    BY <1>1 DEF store, getModeForUser
  <2> QED BY <1>1, <2>1, StoreKept
<1>3. CASE ReadFriendship(t)
  <2>1. CASE areFriends(v, Owner)
    <3>1. check' = [check EXCEPT ![t].pc = "mode"]
      BY <1>1, <1>3, <2>1 DEF ReadFriendship
    <3>2. check'[t].pc = "mode" /\ check'[t].viewer = v
      BY <1>1, <3>1 DEF CheckRecords
    <3>3. ~ModeAllows(getModeForUser(Owner), Owner, v)
      BY <1>1, <2>1 DEF CanSee, Viewers
    <3> QED BY <1>2, <2>1, <3>2, <3>3 DEF Denies
  <2>2. CASE ~areFriends(v, Owner)
    <3>1. check' = [check EXCEPT ![t].pc = "done", ![t].result = FALSE]
      BY <1>1, <1>3, <2>2 DEF ReadFriendship, Return
    <3>2. check'[t].pc = "done" /\ check'[t].viewer = v /\ check'[t].result = FALSE
      BY <1>1, <3>1 DEF CheckRecords
    <3> QED BY <3>2 DEF Denies
  <2> QED BY <2>1, <2>2
<1>4. CASE ReadMode(t)
  <2> DEFINE mode == getModeForUser(Owner)
  <2>1. areFriends(v, Owner) /\ ~ModeAllows(mode, Owner, v)
    BY <1>4 DEF ReadMode, Denies
  <2>2. CASE mode \in ListModes
    <3>1. check' = [check EXCEPT ![t].pc = "list", ![t].mode = mode]
      BY <1>1, <1>4, <2>2 DEF ReadMode
    <3> HIDE DEF mode
    <3>2. check'[t].pc = "list" /\ check'[t].viewer = v /\ check'[t].mode = mode
      BY <1>1, <3>1 DEF CheckRecords
    <3> QED BY <1>2, <2>1, <3>2 DEF Denies
  <2>3. CASE mode \notin ListModes
    <3>1. check' = [check EXCEPT ![t].pc = "done", ![t].result = (mode = "EVERYONE")]
      BY <1>1, <1>4, <2>3 DEF ReadMode, Return
    <3>2. ~(mode = "EVERYONE")
      BY <2>1 DEF ModeAllows
    <3>3. check' = [check EXCEPT ![t].pc = "done", ![t].result = FALSE]
      BY <3>1, <3>2
    <3>4. check'[t].pc = "done" /\ check'[t].viewer = v /\ check'[t].result = FALSE
      BY <1>1, <3>3 DEF CheckRecords
    <3> QED BY <3>4 DEF Denies
  <2> QED BY <2>2, <2>3
<1>5. CASE ReadList(t)
  <2> DEFINE verdict == ModeAllows(c.mode, Owner, v)
  <2>1. ~verdict /\ verdict \in BOOLEAN
    BY <1>5 DEF ReadList, Denies, ModeAllows
  <2>2. check' = [check EXCEPT ![t].pc = "done", ![t].result = verdict]
    BY <1>1, <1>5 DEF ReadList, Return
  <2> HIDE DEF verdict
  <2>3. check'[t].pc = "done" /\ check'[t].viewer = v /\ check'[t].result = verdict
    BY <1>1, <2>2 DEF CheckRecords
  <2> QED BY <2>1, <2>3 DEF Denies
<1> QED BY <1>3, <1>4, <1>5 DEF CheckViewer

LEMMA CheckViewerStale ==
  ASSUME RealtimeInv, StaleInv, NEW t \in Tasks, CheckViewer(t)
  PROVE  StaleInv'
<1>1. UNCHANGED <<store, task, inbox, marker, excused>> /\ task[t].pc = "check"
  BY DEF CheckViewer, ReadFriendship, ReadMode, ReadList, clientVars, historyVars
<1>2. /\ \A u \in Tasks \ {t} : check'[u] = check[u]
      /\ check'[t].viewer = check[t].viewer
  BY DEF CheckViewer, ReadFriendship, ReadMode, ReadList, Return, RealtimeInv, RealtimeTypeOK,
         CheckTypeOK, CheckRecords, Tasks
<1>3. \A v \in Viewers : StillShown(v)' <=> StillShown(v)
  BY <1>1 DEF StillShown
<1>4. ASSUME NEW v \in Viewers, ~CanSee(v, Owner), v \notin excused
      PROVE  /\ WillHide(t, v) => WillHide(t, v)'
             /\ task[t].kind = "update" /\ check'[t].viewer = v => Denies(t)'
  <2>1. check[t].viewer = v /\ Denies(t) => Denies(t)'
    BY <1>4, ReadDenies
  <2>2. task[t].kind = "update" /\ check[t].viewer = v => Denies(t)
    BY <1>1, <1>4 DEF StaleInv, BroadcastsDeny
  <2> QED BY <1>1, <1>2, <2>1, <2>2 DEF WillHide
<1> QED BY <1>1, <1>2, <1>3, <1>4, StaleKept

LEMMA ViewingStoppedStale ==
  ASSUME RealtimeInv, StaleInv, NEW t \in Tasks, isViewingStopped(t)
  PROVE  StaleInv'
<1>1. UNCHANGED <<store, check, inbox, marker, excused>> /\ task[t].pc = "check"
  BY DEF isViewingStopped, clientVars, historyVars
<1>2. /\ \A u \in Tasks \ {t} : task'[u] = task[u]
      /\ task'[t].kind = task[t].kind /\ task'[t].pc = task[t].pc
      /\ task'[t].todo = task[t].todo
  <2> DEFINE stop == IF check[t].viewer \in stopped THEN "yes" ELSE "no"
             r == [task[t] EXCEPT !.stop = stop]
  <2>1. task[t] \in TaskRecords
    BY DEF RealtimeInv, RealtimeTypeOK
  <2>2. r.kind = task[t].kind /\ r.pc = task[t].pc /\ r.todo = task[t].todo
    BY <2>1 DEF TaskRecords
  <2>3. task' = [task EXCEPT ![t] = r]
    BY DEF isViewingStopped, RealtimeInv, RealtimeTypeOK
  <2> HIDE DEF r
  <2> QED BY <2>2, <2>3 DEF RealtimeInv, RealtimeTypeOK
<1>3. \A v \in Viewers : StillShown(v)' <=> StillShown(v)
  BY <1>1 DEF StillShown
<1>4. Denies(t) => Denies(t)'
  BY <1>1, DenialsKept
<1>5. ASSUME NEW v \in Viewers, ~CanSee(v, Owner), v \notin excused
      PROVE  /\ WillHide(t, v) => WillHide(t, v)'
             /\ task[t].kind = "update" /\ check'[t].viewer = v => Denies(t)'
  <2>1. task[t].kind = "update" /\ check[t].viewer = v => Denies(t)
    BY <1>1, <1>5 DEF StaleInv, BroadcastsDeny
  <2> QED BY <1>1, <1>2, <1>4, <2>1 DEF WillHide
<1> QED BY <1>1, <1>2, <1>3, <1>5, StaleKept

-----------------------------------------------------------------------------
(* The end of a turn.                                                        *)

\* What a handler that ends the turn of w was to do besides, it is still to do.
LEMMA TurnEnds ==
  ASSUME RealtimeInv, NEW t \in Tasks, EndTurn(t)
  PROVE  /\ \A u \in Tasks \ {t} : task'[u] = task[u] /\ check'[u] = check[u]
         /\ task'[t].pc # "check"
         /\ UNCHANGED <<store, online, marker>>
         /\ check[t].viewer \in Viewers
         /\ Denies(t) => ~check[t].result
         /\ \A v \in Viewers :
              WillHide(t, v) => \/ WillHide(t, v)'
                                \/ v = check[t].viewer /\ ~check[t].result
<1>1. task[t].todo \in SUBSET Viewers /\ task[t].pc = "check" /\ check[t].pc = "done"
  BY DEF EndTurn, Done, RealtimeInv, RealtimeTypeOK, TaskRecords
<1>2. task' = [task EXCEPT ![t] = Remaining(task[t], task[t].todo)]
  BY DEF EndTurn, RealtimeInv, RealtimeTypeOK
<1>3. (\A u \in Tasks \ {t} : task'[u] = task[u]) /\ task'[t].pc # "check"
  <2>1. Moved(t)
    BY <1>1, <1>2, LoopGoesOn DEF RealtimeInv
  <2> QED BY <2>1 DEF Moved
<1>4. (\A u \in Tasks \ {t} : check'[u] = check[u]) /\ UNCHANGED <<store, online, marker>>
  BY DEF EndTurn, RealtimeInv, RealtimeTypeOK, CheckTypeOK, Tasks
<1>5. check[t].viewer \in Viewers /\ (Denies(t) => ~check[t].result)
  BY <1>1 DEF RealtimeInv, TaskInv, Denies
<1>6. ASSUME NEW v \in Viewers, WillHide(t, v)
      PROVE  WillHide(t, v)' \/ (v = check[t].viewer /\ ~check[t].result)
  <2>1. CASE v \in task[t].todo
    <3>1. task[t].kind \in {"modeChanged", "listChanged"}
      BY <1>6 DEF WillHide
    <3>2. PICK todo \in SUBSET Viewers : todo = task[t].todo
      BY <1>1
    <3>3. v \in todo /\ task' = [task EXCEPT ![t] = Remaining(task[t], todo)]
      BY <1>2, <2>1, <3>2
    <3> QED BY <3>1, <3>3, LoopHides
  <2>2. CASE v \notin task[t].todo
    BY <1>1, <1>5, <1>6, <2>2 DEF WillHide
  <2> QED BY <2>1, <2>2
<1> QED BY <1>3, <1>4, <1>5, <1>6

\* The broadcast is silent towards whoever it denies.
LEMMA BroadcastStale ==
  ASSUME RealtimeInv, StaleInv, NEW t \in Tasks, BroadcastTo(t)
  PROVE  StaleInv'
<1>1. /\ EndTurn(t) /\ UNCHANGED <<excused, store, marker>>
      /\ task[t].kind = "update" /\ task[t].pc = "check"
  BY DEF BroadcastTo, EndTurn
<1>2. ASSUME NEW v \in Viewers, ~CanSee(v, Owner), v \notin excused
      PROVE  StillShown(v)' => StillShown(v)
  <2>1. v = check[t].viewer => ~check[t].result
    BY <1>1, <1>2, TurnEnds DEF StaleInv, BroadcastsDeny
  <2>2. CASE check[t].result /\ task[t].stop = "no"
    <3> DEFINE e == LocationUpdated(task[t].fix)
    <3>1. EmitTo({check[t].viewer}, e) /\ v \notin {check[t].viewer}
      BY <2>1, <2>2 DEF BroadcastTo
    <3> HIDE DEF e
    <3> QED BY <1>1, <3>1, ShownAfter DEF RealtimeInv
  <2>3. CASE ~(check[t].result /\ task[t].stop = "no")
    BY <1>1, <2>3 DEF BroadcastTo, StillShown
  <2> QED BY <2>2, <2>3
<1>3. \A v \in Viewers : ~WillHide(t, v)
  BY <1>1 DEF WillHide
<1> QED BY <1>1, <1>2, <1>3, TurnEnds, StaleKept

\* The notification hides whoever it denies.
LEMMA HideStale ==
  ASSUME RealtimeInv, StaleInv, NEW t \in Tasks, EndTurn(t), ~check[t].result,
         Hide(check[t].viewer)
  PROVE  StaleInv'
<1>0. PICK w \in Viewers : w = check[t].viewer
  BY TurnEnds
<1>1. /\ EmitTo({w}, LocationHidden) /\ excused \subseteq excused' /\ UNCHANGED marker
      /\ LocationHidden.event # "location:updated"
  BY <1>0, TurnEnds DEF Hide, HideLost, LocationHidden
<1>2. \A v \in Viewers : StillShown(v)' => StillShown(v)
  BY <1>1, ShownAfter DEF RealtimeInv
<1>3. ~CanSee(w, Owner) /\ w \notin excused' => ~StillShown(w)'
  <2>1. w \in online => ~StillShown(w)'
    BY <1>1, ShownAfter DEF RealtimeInv
  <2>2. w \notin online /\ ~CanSee(w, Owner) => w \in excused'
    BY <1>0 DEF Hide, HideLost
  <2> QED BY <2>1, <2>2
<1>4. ASSUME NEW v \in Viewers, ~CanSee(v, Owner), v \notin excused', StillShown(v)',
             WillHide(t, v)
      PROVE  WillHide(t, v)'
  <2>1. v # w
    BY <1>3, <1>4
  <2> QED BY <1>0, <1>4, <2>1, TurnEnds
<1> QED BY <1>1, <1>2, <1>4, TurnEnds, StaleKept

LEMMA NotifyStale ==
  ASSUME RealtimeInv, StaleInv, NEW t \in Tasks, NotifyModeTo(t) \/ NotifyListTo(t)
  PROVE  StaleInv'
<1>1. EndTurn(t)
  BY DEF NotifyModeTo, NotifyListTo
<1>2. CASE ~check[t].result
  BY <1>1, <1>2, HideStale DEF NotifyModeTo, NotifyListTo
<1>3. CASE check[t].result
  <2>1. UNCHANGED <<marker, excused, store>>
    BY <1>1, <1>3, TurnEnds DEF NotifyModeTo, NotifyListTo
  <2>2. ASSUME NEW v \in Viewers
        PROVE  StillShown(v)' => StillShown(v)
    <3>1. CASE UNCHANGED inbox
      BY <2>1, <3>1 DEF StillShown
    <3>2. CASE EmitTo({check[t].viewer}, SharingChanged(task[t].mode))
      <4> DEFINE e == SharingChanged(task[t].mode)
      <4>1. e.event # "location:updated"
        BY DEF SharingChanged
      <4>2. EmitTo({check[t].viewer}, e)
        BY <3>2
      <4> HIDE DEF e
      <4> QED BY <2>1, <4>1, <4>2, ShownAfter DEF RealtimeInv
    <3> QED BY <1>3, <3>1, <3>2 DEF NotifyModeTo, NotifyListTo
  <2> QED BY <1>1, <1>3, <2>1, <2>2, TurnEnds, StaleKept
<1> QED BY <1>2, <1>3

\* What a handler that fails does not hide any more is excused.
LEMMA FailStale ==
  ASSUME RealtimeInv, StaleInv, NEW t \in Tasks, Fail(t)
  PROVE  StaleInv'
<1>1. UNCHANGED <<store, inbox, marker>> /\ excused \subseteq excused'
  BY DEF Fail, clientVars, HideLost
<1>2. /\ \A u \in Tasks \ {t} : task'[u] = task[u] /\ check'[u] = check[u]
      /\ task'[t].pc # "check"
  <2>1. Moved(t)
    BY Ended DEF Fail, RealtimeInv
  <2>2. task' = [task EXCEPT ![t] = IdleTask] /\ check' = [check EXCEPT ![t] = IdleCheck]
    BY DEF Fail, End
  <2> QED BY <2>2, IdleTaskTyped DEF RealtimeInv, RealtimeTypeOK, CheckTypeOK, Tasks
<1>3. \A v \in Viewers : StillShown(v)' <=> StillShown(v)
  BY <1>1 DEF StillShown
<1>4. ASSUME NEW v \in Viewers, ~CanSee(v, Owner), WillHide(t, v)
      PROVE  v \in excused'
  <2>1. task[t].kind # "update"
    BY <1>4 DEF WillHide
  <2>2. CASE task[t].pc = "friends"
    BY <1>4, <2>1, <2>2 DEF Fail, HideLost
  <2>3. CASE task[t].pc # "friends"
    <3>1. v \in (task[t].todo \cup {check[t].viewer}) \cap Viewers
      BY <1>4, <2>3 DEF WillHide
    <3>2. HideLost((task[t].todo \cup {check[t].viewer}) \cap Viewers)
      BY <2>1, <2>3 DEF Fail
    <3> QED BY <1>4, <3>1, <3>2 DEF HideLost
  <2> QED BY <2>2, <2>3
<1> QED BY <1>1, <1>2, <1>3, <1>4, StaleKept

LEMMA HandlerStepStale ==
  ASSUME RealtimeInv, StaleInv, NEW t \in Tasks, HandlerStep(t)
  PROVE  StaleInv'
BY PlainTaskStale, ReadFriendsStale, TakeViewerStale, CheckViewerStale, ViewingStoppedStale,
   BroadcastStale, NotifyStale
DEF HandlerStep

-----------------------------------------------------------------------------
(* The viewers' side.                                                        *)

LEMMA ViewerStale ==
  ASSUME StaleInv, UNCHANGED <<store, check, task>>, excused \subseteq excused',
         \A v \in Viewers : ~CanSee(v, Owner) /\ v \notin excused' =>
           (StillShown(v)' => StillShown(v))
  PROVE  StaleInv'
<1> SUFFICES ASSUME NEW v \in Viewers, ~CanSee(v, Owner)', v \notin excused'
             PROVE  /\ StillShown(v)' => areFriends(v, Owner)' /\ \E u \in Tasks : WillHide(u, v)'
                    /\ BroadcastsDeny(v)'
  BY DEF StaleInv
<1>1. /\ ~CanSee(v, Owner) /\ v \notin excused /\ areFriends(v, Owner)' = areFriends(v, Owner)
      /\ \A u \in Tasks : Denies(u) => Denies(u)'
      /\ \A u \in Tasks : WillHide(u, v) => WillHide(u, v)'
  BY DenialsKept DEF areFriends
<1>2. /\ StillShown(v) => areFriends(v, Owner) /\ \E u \in Tasks : WillHide(u, v)
      /\ BroadcastsDeny(v)
  BY <1>1 DEF StaleInv
<1>3. StillShown(v)' => StillShown(v)
  BY <1>1
<1>4. BroadcastsDeny(v)'
  BY <1>1, <1>2 DEF BroadcastsDeny
<1> QED BY <1>1, <1>2, <1>3, <1>4

\* What is shown after a delivery was shown, or on its way, before.
LEMMA DeliverStale ==
  ASSUME RealtimeInv, StaleInv, NEW v \in Viewers, Deliver(v)
  PROVE  StaleInv'
<1> DEFINE s == inbox[v]
           shown == Apply(Head(s), marker[v])
<1>1. UNCHANGED <<store, check, task, excused>>
  BY DEF Deliver, historyVars
<1>2. /\ Head(s) = s[1] /\ 1 \in DOMAIN s
      /\ \A i \in DOMAIN Tail(s) : i + 1 \in DOMAIN s /\ Tail(s)[i] = s[i + 1]
      /\ \A i, j \in DOMAIN Tail(s) : j > i <=> j + 1 > i + 1
      /\ \A j \in DOMAIN s : j = 1 \/ \E i \in DOMAIN Tail(s) : j = i + 1
      /\ \A j \in DOMAIN s : j = 1 \/ j > 1
      /\ \A i \in DOMAIN Tail(s) : i + 1 > 1
  <2>1. s \in Seq(Events) /\ s # <<>>
    BY DEF Deliver, RealtimeInv, RealtimeTypeOK
  <2>2. /\ Len(s) \in Nat \ {0} /\ Len(Tail(s)) = Len(s) - 1 /\ Tail(s) \in Seq(Events)
        /\ Head(s) = s[1] /\ \A i \in 1..(Len(s) - 1) : Tail(s)[i] = s[i + 1]
    BY <2>1, HeadTailProperties, EmptySeq, LenProperties
  <2>3. DOMAIN s = 1..Len(s) /\ DOMAIN Tail(s) = 1..(Len(s) - 1)
    BY <2>1, <2>2, LenProperties
  <2>4. \A j \in DOMAIN s : j = 1 \/ (j - 1 \in DOMAIN Tail(s) /\ j = (j - 1) + 1)
    BY <2>2, <2>3
  <2>5. \A j \in DOMAIN s : j = 1 \/ \E i \in DOMAIN Tail(s) : j = i + 1
    BY <2>4
  <2> QED BY <2>2, <2>3, <2>5
<1>3. /\ marker' = [marker EXCEPT ![v] = shown]
      /\ inbox' = [inbox EXCEPT ![v] = Tail(s)]
      /\ marker \in [Viewers -> 0..MaxFixes] /\ inbox \in [Viewers -> Seq(Events)]
  BY DEF Deliver, RealtimeInv, RealtimeTypeOK
<1>4. \/ Head(s).event = "location:updated"
      \/ Head(s) # LocationHidden /\ shown \in {0, marker[v]}
      \/ shown = 0
  BY DEF Apply
<1> HIDE DEF shown
<1>5. ASSUME NEW w \in Viewers, StillShown(w)'
      PROVE  StillShown(w)
  <2>1. CASE w # v
    <3>1. marker'[w] = marker[w] /\ inbox'[w] = inbox[w]
      BY <1>3, <2>1
    <3> QED BY <1>5, <3>1 DEF StillShown
  <2>2. CASE w = v
    <3>1. marker'[v] = shown /\ inbox'[v] = Tail(s)
      BY <1>3
    <3>2. CASE \E i \in DOMAIN Tail(s) :
                 /\ Tail(s)[i].event = "location:updated"
                 /\ \A j \in DOMAIN Tail(s) : j > i => Tail(s)[j] # LocationHidden
      <4>1. PICK i \in DOMAIN Tail(s) :
                   /\ Tail(s)[i].event = "location:updated"
                   /\ \A j \in DOMAIN Tail(s) : j > i => Tail(s)[j] # LocationHidden
        BY <3>2
      <4>2. i + 1 \in DOMAIN s /\ s[i + 1].event = "location:updated"
        BY <1>2, <4>1
      <4>3. ASSUME NEW j \in DOMAIN s, j > i + 1
            PROVE  s[j] # LocationHidden
        <5>1. j # 1
          <6>1. s \in Seq(Events)
            BY <1>3
          <6>2. i \in Nat
            BY <1>2, <6>1, LenProperties
          <6> QED BY <4>3, <6>2
        <5>2. PICK k \in DOMAIN Tail(s) : j = k + 1
          BY <1>2, <5>1
        <5> QED BY <1>2, <4>1, <4>3, <5>2
      <4> QED BY <2>2, <4>2, <4>3 DEF StillShown
    <3>3. CASE /\ shown # 0
               /\ \A i \in DOMAIN Tail(s) : Tail(s)[i] # LocationHidden
      <4>1. \A j \in DOMAIN s : j # 1 => s[j] # LocationHidden
        BY <1>2, <3>3
      <4>2. CASE s[1].event = "location:updated"
        <5>1. \A j \in DOMAIN s : j > 1 => s[j] # LocationHidden
          BY <4>1
        <5> QED BY <1>2, <2>2, <4>2, <5>1 DEF StillShown
      <4>3. CASE s[1].event # "location:updated"
        BY <1>2, <1>4, <2>2, <3>3, <4>1, <4>3 DEF StillShown
      <4> QED BY <4>2, <4>3
    <3> QED BY <1>5, <2>2, <3>1, <3>2, <3>3 DEF StillShown
  <2> QED BY <2>1, <2>2
<1> QED BY <1>1, <1>5, ViewerStale

\* A connection that is lost with a location:hidden excuses.
LEMMA DropStale ==
  ASSUME RealtimeInv, StaleInv, NEW v \in Viewers, Drop(v)
  PROVE  StaleInv'
<1>1. /\ UNCHANGED <<store, check, task, marker>> /\ excused \subseteq excused'
      /\ inbox' = [inbox EXCEPT ![v] = <<>>]
      /\ (\E i \in DOMAIN inbox[v] : inbox[v][i] = LocationHidden) => HideLost({v})
  BY DEF Drop, HideLost
<1>2. DOMAIN <<>> = {}
  BY EmptySeq
<1>3. ASSUME NEW w \in Viewers, ~CanSee(w, Owner), w \notin excused', StillShown(w)'
      PROVE  StillShown(w)
  <2>1. CASE w # v
    <3>1. inbox'[w] = inbox[w]
      BY <1>1, <2>1 DEF RealtimeInv, RealtimeTypeOK
    <3> QED BY <1>1, <1>3, <3>1 DEF StillShown
  <2>2. CASE w = v
    <3>1. inbox'[w] = <<>>
      BY <1>1, <2>2 DEF RealtimeInv, RealtimeTypeOK
    <3>2. marker[w] # 0
      BY <1>1, <1>2, <1>3, <3>1 DEF StillShown
    <3>3. \A i \in DOMAIN inbox[w] : inbox[w][i] # LocationHidden
      BY <1>1, <1>3, <2>2 DEF HideLost
    <3> QED BY <3>2, <3>3 DEF StillShown
  <2> QED BY <2>1, <2>2
<1> QED BY <1>1, <1>3, ViewerStale

LEMMA SocketStale ==
  ASSUME RealtimeInv, StaleInv, NEW v \in Viewers,
         Reconnect(v) \/ handleStartViewing(v) \/ handleStopViewing(v)
  PROVE  StaleInv'
<1>1. UNCHANGED <<store, check, task, marker, excused>>
  BY DEF Reconnect, handleStartViewing, handleStopViewing, clientVars, historyVars
<1>2. ASSUME NEW w \in Viewers
      PROVE  StillShown(w)' => StillShown(w)
  <2>1. CASE UNCHANGED inbox
    BY <1>1, <2>1 DEF StillShown
  <2>2. CASE EmitTo({v}, LocationHidden)
    <3>1. LocationHidden.event # "location:updated"
      BY DEF LocationHidden
    <3> QED BY <1>1, <2>2, <3>1, ShownAfter DEF RealtimeInv
  <2> QED BY <2>1, <2>2 DEF Reconnect, handleStartViewing, handleStopViewing, clientVars
<1> QED BY <1>1, <1>2, ViewerStale

-----------------------------------------------------------------------------
(* The owner's commits.                                                      *)

\* A denial survives a commit that leaves the viewer without the right.
LEMMA DenialSurvives ==
  ASSUME NEW t \in Tasks, NEW v \in Viewers, check'[t] = check[t], check[t].viewer = v,
         ~CanSee(v, Owner)', areFriends(v, Owner) => areFriends(v, Owner)',
         check[t].pc = "list" /\ ModeAllows(check[t].mode, Owner, v)' =>
           ModeAllows(check[t].mode, Owner, v) \/ getModeForUser(Owner)' = check[t].mode,
         Denies(t)
  PROVE  Denies(t)'
<1>1. PICK m : m = check[t].mode
  OBVIOUS
<1>2. areFriends(v, Owner)' => ~ModeAllows(getModeForUser(Owner), Owner, v)'
  BY DEF CanSee, Viewers
<1>3. check[t].pc = "list" => areFriends(v, Owner)' /\ ~ModeAllows(m, Owner, v)'
  BY <1>1, <1>2 DEF Denies
<1>4. check[t].pc = "mode" =>
        areFriends(v, Owner)' /\ ~ModeAllows(getModeForUser(Owner), Owner, v)'
  BY <1>2 DEF Denies
<1> QED BY <1>1, <1>3, <1>4 DEF Denies

\* A change of the policy starts a notification that will hide from every friend;
\* whoever it takes the right from had no broadcast in turn, or is excused.
LEMMA PolicyStale ==
  ASSUME RealtimeInv, StaleInv, NEW t \in Tasks, ObserveRights({}),
         UNCHANGED <<check, inbox, marker, friendships>>,
         task'[t].pc = "friends", task'[t].kind \in {"modeChanged", "listChanged"},
         \A u \in Tasks \ {t} : task'[u] = task[u],
         \A v \in Viewers, m \in ListModes :
           ModeAllows(m, Owner, v)' =>
             ModeAllows(m, Owner, v) \/ getModeForUser(Owner)' = m
  PROVE  StaleInv'
<1> SUFFICES ASSUME NEW v \in Viewers, ~CanSee(v, Owner)', v \notin excused'
             PROVE  /\ StillShown(v)' => areFriends(v, Owner)' /\ \E u \in Tasks : WillHide(u, v)'
                    /\ BroadcastsDeny(v)'
  BY DEF StaleInv
<1>1. /\ areFriends(v, Owner)' <=> areFriends(v, Owner)
      /\ StillShown(v)' => StillShown(v)
      /\ v \notin excused
      /\ ~(CanSee(v, Owner) /\ BroadcastUnderWay(v))
  BY DEF areFriends, StillShown, ObserveRights
<1>2. StillShown(v) => areFriends(v, Owner)
  BY <1>1 DEF StaleInv, CanSee
<1>3. WillHide(t, v)'
  BY DEF WillHide
<1>4. ASSUME NEW u \in Tasks, task'[u].kind = "update", task'[u].pc = "check",
             check'[u].viewer = v
      PROVE  Denies(u)'
  <2>1. task'[u] = task[u] /\ check'[u] = check[u]
    BY <1>4
  <2>2. ~CanSee(v, Owner)
    BY <1>1, <1>4, <2>1 DEF BroadcastUnderWay
  <2>3. Denies(u)
    BY <1>1, <1>4, <2>1, <2>2 DEF StaleInv, BroadcastsDeny
  <2>4. check[u].pc = "list" => check[u].mode \in ListModes
    BY <1>4, <2>1 DEF RealtimeInv, TaskInv, Verdict
  <2> QED BY <1>1, <1>4, <2>1, <2>3, <2>4, DenialSurvives
<1> QED BY <1>1, <1>2, <1>3, <1>4 DEF BroadcastsDeny

LEMMA UpdateStale ==
  ASSUME RealtimeInv, StaleInv, NEW t \in Tasks, NEW mode \in Modes, NEW ids,
         updateMode(t, mode) \/ (mode \in ListModes /\ updateList(t, mode, ids))
  PROVE  StaleInv'
<1>1. PICK k \in {"modeChanged", "listChanged"} : Start(t, NewTask(k, "friends", 0, mode))
  BY DEF updateMode, updateList
<1>2. /\ task'[t].pc = "friends" /\ task'[t].kind \in {"modeChanged", "listChanged"}
      /\ \A u \in Tasks \ {t} : task'[u] = task[u]
  <2> DEFINE local == NewTask(k, "friends", 0, mode)
  <2>1. local.pc = "friends" /\ local.kind = k
    BY DEF NewTask
  <2>2. task' = [task EXCEPT ![t] = local]
    BY <1>1 DEF Start
  <2> HIDE DEF local
  <2> QED BY <2>1, <2>2 DEF RealtimeInv, RealtimeTypeOK
<1>3. ObserveRights({}) /\ UNCHANGED <<check, inbox, marker, friendships>>
  BY DEF updateMode, updateList, UpsertMode, ReplaceList, clientVars
<1>4. \A v \in Viewers, m \in ListModes :
        ModeAllows(m, Owner, v)' => ModeAllows(m, Owner, v) \/ getModeForUser(Owner)' = m
  <2>1. CASE updateMode(t, mode)
    BY <2>1 DEF updateMode, UpsertMode, ModeAllows, isSelectedFriend, isExceptFriend
  <2>2. CASE mode \in ListModes /\ updateList(t, mode, ids)
    <3>1. getModeForUser(Owner)' = mode
      BY <2>2, OwnerAssumption
      DEF updateList, ReplaceList, getModeForUser, ListModes, NoRow, RealtimeInv,
          RealtimeTypeOK, StoreTypeOK
    <3>2. \A v \in Viewers, m \in ListModes :
            m # mode => ModeAllows(m, Owner, v)' = ModeAllows(m, Owner, v)
      BY <2>2, OwnerAssumption
      DEF updateList, ReplaceList, ModeAllows, isSelectedFriend, isExceptFriend,
          ListModes, RealtimeInv, RealtimeTypeOK, StoreTypeOK
    <3> QED BY <3>1, <3>2
  <2> QED BY <2>1, <2>2
<1> QED BY <1>2, <1>3, <1>4, PolicyStale

\* A new friend had no marker, or was a friend before; who is removed is excused.
LEMMA FriendshipStale ==
  ASSUME RealtimeInv, StaleInv, NEW w \in Viewers, Befriend(w) \/ Unfriend(w)
  PROVE  StaleInv'
<1> SUFFICES ASSUME NEW v \in Viewers, ~CanSee(v, Owner)', v \notin excused'
             PROVE  /\ StillShown(v)' => areFriends(v, Owner)' /\ \E u \in Tasks : WillHide(u, v)'
                    /\ BroadcastsDeny(v)'
  BY DEF StaleInv
<1>1. /\ UNCHANGED <<task, check, inbox, marker>>
      /\ UNCHANGED <<settings, selectedFriends, exceptFriends>>
  BY DEF Befriend, Unfriend, createFriendship, removeFriendship, clientVars
<1>2. /\ \A m : ModeAllows(m, Owner, v)' <=> ModeAllows(m, Owner, v)
      /\ getModeForUser(Owner)' = getModeForUser(Owner)
  BY <1>1 DEF ModeAllows, isSelectedFriend, isExceptFriend, getModeForUser
<1>3. areFriends(v, Owner) => areFriends(v, Owner)'
  <2>1. CASE Befriend(w)
    BY <2>1 DEF Befriend, createFriendship, areFriends
  <2>2. CASE Unfriend(w)
    <3>1. v # w
      BY <2>2 DEF Unfriend, ObserveRights
    <3> QED BY <2>2, <3>1 DEF Unfriend, removeFriendship, areFriends, normalizeFriendPair
  <2> QED BY <2>1, <2>2
<1>4. ~CanSee(v, Owner)
  BY <1>2, <1>3 DEF CanSee
<1>5. v \notin excused
  BY DEF Befriend, Unfriend, ObserveRights
<1>6. ASSUME NEW u \in Tasks, check[u].viewer = v, Denies(u)
      PROVE  Denies(u)'
  BY <1>1, <1>2, <1>3, <1>6, DenialSurvives
<1>7. ASSUME StillShown(v)'
      PROVE  areFriends(v, Owner)' /\ \E u \in Tasks : WillHide(u, v)'
  <2>1. StillShown(v)
    BY <1>1, <1>7 DEF StillShown
  <2>2. areFriends(v, Owner) /\ \E u \in Tasks : WillHide(u, v)
    BY <1>4, <1>5, <2>1 DEF StaleInv
  <2>3. PICK u \in Tasks : WillHide(u, v)
    BY <2>2
  <2>4. WillHide(u, v)'
    BY <1>1, <1>6, <2>3 DEF WillHide
  <2> QED BY <1>3, <2>2, <2>4
<1>8. BroadcastsDeny(v)'
  BY <1>1, <1>4, <1>5, <1>6 DEF StaleInv, BroadcastsDeny
<1> QED BY <1>7, <1>8

-----------------------------------------------------------------------------
(* The invariant.                                                            *)

LEMMA StaleStep ==
  ASSUME RealtimeInv, StaleInv, [RealtimeNext]_realtimeVars
  PROVE  StaleInv'
<1>1. CASE RealtimeNext
  <2>1. ASSUME NEW t \in Tasks, NEW mode \in ListModes, NEW ids, updateList(t, mode, ids)
        PROVE  StaleInv'
    <3>1. mode \in Modes
      BY DEF ListModes, Modes
    <3> QED BY <2>1, <3>1, UpdateStale
  <2>2. ASSUME NEW t \in Tasks, NEW mode \in Modes, updateMode(t, mode)
        PROVE  StaleInv'
    BY <2>2, UpdateStale
  <2> QED
    BY <1>1, <2>1, <2>2, PlainTaskStale, HandlerStepStale, FailStale, FriendshipStale,
       DeliverStale, DropStale, SocketStale
    DEF RealtimeNext
<1>2. CASE UNCHANGED realtimeVars
  <2>1. UNCHANGED <<store, check, task, inbox, marker, excused>>
    BY <1>2 DEF realtimeVars, clientVars, historyVars
  <2>2. \A v \in Viewers : StillShown(v)' => StillShown(v)
    BY <2>1 DEF StillShown
  <2> QED BY <2>1, <2>2, ViewerStale
<1> QED BY <1>1, <1>2

\* A marker that is left when notifySharingModeChanged, notifySharingListChanged
\* and every broadcast have ended, at a viewer whom canViewerSeeOwner would deny,
\* is left for one of the four reasons: a broadcast in the viewer's turn, a removed
\* friendship, a lost location:hidden or a failed notification.
THEOREM StaleMarkersAreExplained == RealtimeSpec => []StaleMarkerExplained
<1>1. RealtimeInv /\ StaleInv => StaleMarkerExplained
  <2> SUFFICES ASSUME RealtimeInv, StaleInv, NEW v \in Viewers, Settled(v),
                      ~CanSee(v, Owner), marker[v] # 0
               PROVE  v \in excused
    BY DEF StaleMarkerExplained
  <2>1. DOMAIN <<>> = {}
    BY EmptySeq
  <2>2. StillShown(v)
    BY <2>1 DEF Settled, StillShown
  <2>3. \A t \in Tasks : ~WillHide(t, v)
    BY DEF Settled, WillHide
  <2> QED BY <2>2, <2>3 DEF StaleInv
<1>2. RealtimeInit => StaleInv
  BY StaleInit
<1>3. RealtimeInv /\ StaleInv /\ [RealtimeNext]_realtimeVars => StaleInv'
  BY StaleStep
<1> QED BY <1>1, <1>2, <1>3, RealtimeInvariant, PTL DEF RealtimeSpec
=============================================================================
