---------------------------- MODULE MapViewProofs ----------------------------
(***************************************************************************)
(* The map page for any number of friends, of onMounted calls under way and *)
(* of events: its store agrees with the server, its markers with the store, *)
(* and what the viewer stopped or left stays off, each up to the overlaps    *)
(* that the properties name.                                                *)
(***************************************************************************)
EXTENDS MapView, SequenceTheorems, TLAPS

MarkerRecords == [at : Times, stale : BOOLEAN, is : BOOLEAN]

(* A list of markers at time n, when the flags were renewed at time l: each   *)
(* flag was right then, and one that is set still is; where there is no      *)
(* marker there is no location.                                             *)
TrueList(list, n, l) ==
  /\ list \in [Friends -> MarkerRecords]
  /\ \A f \in Friends :
       /\ ~list[f].is => list[f].at = 0
       /\ list[f].is /\ list[f].stale => n - list[f].at > Threshold
       /\ list[f].is /\ ~list[f].stale => l - list[f].at <= Threshold

(* A call of onMounted that has not come to its end belongs to the view that  *)
(* is there, or its view was left before it had started.                    *)
OpeningInv ==
  \A s \in Slots :
    /\ mount[s].pc \in {"ask", "read", "reply"} => mount[s].of \in Friends
    /\ mount[s].pc # "idle" => IF mount[s].here THEN mounted ELSE leftEarly

(* The first thing that the hydration draws brings the layer in step with   *)
(* the store; from then on every change of the one is drawn on the other.    *)
InStep ==
  \A f \in Friends \ stopViewingOwners :
    layer[f] = IF markers[f].is THEN markers[f].at ELSE Nothing
Waiting(s) == mount[s].pc = "list" /\ mount[s].here
LayerInv == mounted => InStep \/ \E s \in Slots : Waiting(s)

(* What the server has been told to stop, or is going to be, is what a view  *)
(* has stopped: this one, which draws nothing of it, or an earlier one.      *)
StopInv ==
  /\ stopped \subseteq stopViewingOwners \cup returned
  /\ \A i \in DOMAIN commands : commands[i] \in stopViewingOwners \cup returned
  /\ \A f \in stopViewingOwners \ returned : layer[f] = Nothing

(* The last event of a friend on its way says what the server told last.     *)
Says(e) == IF e.kind = "updated" THEN e.at ELSE 0
Pending(f) == \E i \in DOMAIN queue : queue[i].of = f
QueueInv ==
  /\ ~connected => queue = <<>>
  /\ \A i \in DOMAIN queue :
       (\A j \in DOMAIN queue : j > i => queue[j].of # queue[i].of) =>
         Says(queue[i]) = told[queue[i].of]

(* So does an answer that is still the newest; nothing is told beside it.    *)
Newest(s) == mount[s].pc = "reply" /\ mount[s].fresh
FreshInv ==
  \A s \in Slots : Newest(s) =>
    /\ mount[s].at # 0 /\ mount[s].at = told[mount[s].of]
    /\ ~Pending(mount[s].of)

(* A friend of whom no event is on its way is shown as told last, or the     *)
(* answer that says it is.                                                  *)
ToldInv ==
  \A f \in Friends \ excused : ~Pending(f) =>
    \/ markers[f].at = told[f]
    \/ \E s \in Slots : Newest(s) /\ mount[s].of = f

MapInv ==
  /\ MapTypeOK /\ TrueList(markers, now, lastTickMs)
  /\ OpeningInv /\ (leaked > 0 => leftEarly)
  /\ (watching => mounted)
  /\ LayerInv /\ StopInv
  /\ QueueInv /\ FreshInv /\ ToldInv

-----------------------------------------------------------------------------
(* Lists of markers.                                                        *)

LEMMA Entry ==
  ASSUME MapTypeOK, NEW t \in Times
  PROVE  /\ Marker(t) \in MarkerRecords /\ Marker(t).at = t /\ Marker(t).is
         /\ Marker(t).stale => now - t > Threshold
         /\ ~Marker(t).stale => lastTickMs - t <= Threshold
<1> DEFINE old == now - t > Threshold
<1>1. old \in BOOLEAN /\ (~old => lastTickMs - t <= Threshold)
  BY MapViewAssumption DEF MapTypeOK, Times
<1>2. Marker(t) = [at |-> t, stale |-> old, is |-> TRUE]
  BY DEF Marker
<1>3. Marker(t).stale = old
  BY <1>2
<1>4. old => now - t > Threshold
  OBVIOUS
<1> HIDE DEF old
<1> QED BY <1>1, <1>2, <1>3, <1>4 DEF MarkerRecords

LEMMA UpdatedList ==
  ASSUME MapTypeOK, TrueList(markers, now, lastTickMs), NEW f \in Friends, NEW t \in Times
  PROVE  /\ TrueList(applyLocationUpdate(f, t), now, lastTickMs)
         /\ applyLocationUpdate(f, t)[f].at = t
         /\ \A g \in Friends \ {f} : applyLocationUpdate(f, t)[g].at = markers[g].at
<1>1. PICK m : m = Marker(t)
  OBVIOUS
<1>2. /\ m \in MarkerRecords /\ m.at = t /\ m.is
      /\ m.stale => now - t > Threshold
      /\ ~m.stale => lastTickMs - t <= Threshold
  BY <1>1, Entry
<1>3. applyLocationUpdate(f, t) = [markers EXCEPT ![f] = m]
  BY <1>1 DEF applyLocationUpdate
<1> QED BY <1>2, <1>3 DEF TrueList

LEMMA HiddenList ==
  ASSUME MapTypeOK, TrueList(markers, now, lastTickMs), NEW f \in Friends
  PROVE  /\ TrueList(applyLocationHidden(f), now, lastTickMs)
         /\ applyLocationHidden(f)[f].at = 0
         /\ \A g \in Friends \ {f} : applyLocationHidden(f)[g].at = markers[g].at
<1>1. NoMarker \in MarkerRecords /\ NoMarker.at = 0 /\ ~NoMarker.is
  BY MapViewAssumption DEF NoMarker, MarkerRecords, Times
<1> QED BY <1>1 DEF TrueList, applyLocationHidden

LEMMA MetaList ==
  ASSUME MapTypeOK, NEW list, TrueList(list, now, lastTickMs), NEW f \in Friends
  PROVE  /\ TrueList(setFriendMeta(f, list), now, lastTickMs)
         /\ \A g \in Friends : setFriendMeta(f, list)[g].at = list[g].at
<1>1. PICK t : t = IF list[f].is THEN list[f].at ELSE 0
  OBVIOUS
<1>2. list[f] \in MarkerRecords
  BY DEF TrueList
<1>3. t \in Times /\ t = list[f].at
  BY <1>1, <1>2, MapViewAssumption DEF TrueList, MarkerRecords, Times
<1>4. PICK m : m = Marker(t)
  OBVIOUS
<1>5. /\ m \in MarkerRecords /\ m.at = t /\ m.is
      /\ m.stale => now - t > Threshold
      /\ ~m.stale => lastTickMs - t <= Threshold
  BY <1>3, <1>4, Entry
<1>6. setFriendMeta(f, list) = [list EXCEPT ![f] = m]
  BY <1>1, <1>4 DEF setFriendMeta
<1> QED BY <1>3, <1>5, <1>6 DEF TrueList

LEMMA FlaggedList ==
  ASSUME MapTypeOK, TrueList(markers, now, lastTickMs)
  PROVE  /\ updateStaleFlags(markers) \in [Friends -> MarkerRecords]
         /\ \A f \in Friends :
              /\ updateStaleFlags(markers)[f].at = markers[f].at
              /\ updateStaleFlags(markers)[f].is = markers[f].is
         /\ TrueList(updateStaleFlags(markers), now, now)
<1> DEFINE flag(f) == markers[f].is /\ now - markers[f].at > Threshold
           entry(f) == [markers[f] EXCEPT !.stale = flag(f)]
<1>1. ASSUME NEW f \in Friends
      PROVE  /\ entry(f) \in MarkerRecords /\ entry(f).at = markers[f].at
             /\ entry(f).is = markers[f].is
             /\ ~entry(f).is => entry(f).at = 0
             /\ entry(f).is /\ entry(f).stale => now - markers[f].at > Threshold
             /\ entry(f).is /\ ~entry(f).stale => now - markers[f].at <= Threshold
  <2>1. markers[f] \in MarkerRecords /\ (~markers[f].is => markers[f].at = 0)
    BY DEF TrueList
  <2>2. markers[f].is \in BOOLEAN /\ markers[f].at \in Times
    BY <2>1 DEF MarkerRecords
  <2>3. flag(f) \in BOOLEAN
    OBVIOUS
  <2>4. /\ flag(f) => now - markers[f].at > Threshold
        /\ markers[f].is /\ ~flag(f) => now - markers[f].at <= Threshold
    BY <2>2, MapViewAssumption DEF MapTypeOK, Times
  <2> HIDE DEF flag
  <2> QED BY <2>1, <2>3, <2>4 DEF MarkerRecords
<1>2. updateStaleFlags(markers) = [f \in Friends |-> entry(f)]
  BY DEF updateStaleFlags
<1> HIDE DEF entry
<1> QED BY <1>1, <1>2 DEF TrueList

LEMMA CheckedList ==
  ASSUME MapTypeOK, TrueList(markers, now, lastTickMs), NEW list,
         list = [f \in Friends |->
                   IF layer[f] = Nothing THEN markers[f] ELSE updateStaleFlags(markers)[f]]
  PROVE  /\ TrueList(list, now, lastTickMs)
         /\ \A f \in Friends : list[f].at = markers[f].at
<1>1. PICK flagged : flagged = updateStaleFlags(markers)
  OBVIOUS
<1>2. /\ flagged \in [Friends -> MarkerRecords] /\ TrueList(flagged, now, now)
      /\ \A f \in Friends : flagged[f].at = markers[f].at /\ flagged[f].is = markers[f].is
  BY <1>1, FlaggedList
<1>3. ASSUME NEW f \in Friends
      PROVE  now - flagged[f].at <= Threshold => lastTickMs - flagged[f].at <= Threshold
  <2>1. flagged[f].at \in Times
    BY <1>2 DEF MarkerRecords
  <2> QED BY <2>1, MapViewAssumption DEF MapTypeOK, Times
<1>4. ASSUME NEW f \in Friends
      PROVE  list[f] = markers[f] \/ list[f] = flagged[f]
  BY <1>1
<1>5. list \in [Friends -> MarkerRecords]
  BY <1>1, <1>2 DEF TrueList
<1> QED BY <1>2, <1>3, <1>4, <1>5 DEF TrueList

-----------------------------------------------------------------------------
(* The layer.                                                               *)

LEMMA StoreDraws ==
  ASSUME MapTypeOK, StopInv, NEW list \in [Friends -> MarkerRecords], Store(list),
         UNCHANGED <<mounted, stopViewingOwners>>
  PROVE  /\ markers' = list
         /\ layer' \in [Friends -> Times \cup {Nothing}]
         /\ mounted => InStep'
         /\ \A f \in stopViewingOwners \ returned : layer'[f] = Nothing
<1>1. ASSUME NEW f \in Friends
      PROVE  list[f].at \in Times /\ layer[f] \in Times \cup {Nothing}
  BY DEF MapTypeOK, MarkerRecords
<1>2. layer' = [f \in Friends |-> CASE ~mounted \/ ~list[f].is -> Nothing
                                    [] f \in stopViewingOwners -> layer[f]
                                    [] OTHER -> list[f].at]
  BY DEF Store, updateAllMarkers
<1>3. stopViewingOwners \subseteq Friends
  BY DEF MapTypeOK
<1>4. markers' = list
  BY DEF Store
<1>5. layer' \in [Friends -> Times \cup {Nothing}]
  BY <1>1, <1>2
<1>6. mounted => InStep'
  BY <1>2, <1>4 DEF InStep
<1>7. \A f \in stopViewingOwners \ returned : layer'[f] = Nothing
  BY <1>2, <1>3 DEF StopInv
<1> QED BY <1>4, <1>5, <1>6, <1>7

-----------------------------------------------------------------------------
(* A step that changes neither what was told nor the answers that are the    *)
(* newest keeps what relates the two.                                       *)

LEMMA AnswersKept ==
  ASSUME QueueInv, FreshInv, ToldInv, UNCHANGED <<queue, told, excused>>,
         connected => connected',
         \A f \in Friends : markers'[f].at = markers[f].at,
         \A s \in Slots : /\ Newest(s)' = Newest(s)
                          /\ Newest(s) => /\ mount'[s].at = mount[s].at
                                          /\ mount'[s].of = mount[s].of
  PROVE  QueueInv' /\ FreshInv' /\ ToldInv'
<1>1. \A f : Pending(f)' = Pending(f)
  BY DEF Pending
<1>2. QueueInv'
  BY DEF QueueInv
<1>3. FreshInv'
  BY <1>1 DEF FreshInv
<1>4. ToldInv'
  BY <1>1 DEF ToldInv
<1> QED BY <1>2, <1>3, <1>4

LEMMA QueuedEvents ==
  ASSUME MapTypeOK
  PROVE  /\ DOMAIN queue = 1..Len(queue) /\ Len(queue) \in Nat
         /\ \A i \in DOMAIN queue : queue[i] \in Events /\ queue[i].of \in Friends
<1>1. queue \in Seq(Events)
  BY DEF MapTypeOK
<1>2. DOMAIN queue = 1..Len(queue) /\ Len(queue) \in Nat
  BY <1>1
<1>3. \A i \in DOMAIN queue : queue[i] \in Events
  BY <1>1, <1>2
<1> QED BY <1>2, <1>3 DEF Events

LEMMA IdleMount == Idle \in Mounts /\ Idle.pc = "idle" /\ Idle.here
<1>1. 0 \in Times
  BY MapViewAssumption DEF Times
<1> QED BY <1>1 DEF Idle, Mounts

LEMMA MapInitInv == MapInit => MapInv
<1> SUFFICES ASSUME MapInit
             PROVE  MapInv
  OBVIOUS
<1> USE MapViewAssumption DEF MapInit
<1>1. 0 \in Times /\ Start \in Times
  BY DEF Times
<1>2. NoMarker \in MarkerRecords /\ NoMarker.at = 0 /\ ~NoMarker.is
  BY <1>1 DEF NoMarker, MarkerRecords
<1>3. Idle \in Mounts /\ Idle.pc = "idle"
  BY IdleMount
<1>4. queue \in Seq(Events) /\ commands \in Seq(Friends)
  BY EmptySeq
<1>5. MapTypeOK
  <2>1. markers \in [Friends -> [at : Times, stale : BOOLEAN, is : BOOLEAN]]
    BY <1>2 DEF MarkerRecords
  <2>2. mount \in [Slots -> Mounts] /\ \A s \in Slots : mount[s].pc # "ask"
    BY <1>3
  <2>3. current \in [Friends -> Times] /\ told \in [Friends -> Times]
    BY <1>1
  <2>4. /\ now \in Start..MaxTime /\ lastTickMs \in Start..now
        /\ clicks \in 0..MaxClicks /\ events \in 0..MaxEvents
    OBVIOUS
  <2> QED BY <1>4, <2>1, <2>2, <2>3, <2>4 DEF MapTypeOK
<1>6. TrueList(markers, now, lastTickMs)
  BY <1>2 DEF TrueList
<1>7. OpeningInv /\ FreshInv
  BY <1>3 DEF OpeningInv, FreshInv, Newest
<1>8. LayerInv /\ StopInv /\ QueueInv
  BY EmptySeq DEF LayerInv, StopInv, QueueInv
<1>9. ToldInv
  BY <1>2 DEF ToldInv
<1> QED BY <1>5, <1>6, <1>7, <1>8, <1>9 DEF MapInv

-----------------------------------------------------------------------------
(* The steps of the view and of its timers.                                 *)

LEMMA passInv ==
  ASSUME MapInv, pass
  PROVE  MapInv'
<1> USE DEF MapInv, pass, serverVars, socketVars, viewVars, counterVars, historyVars
<1>1. now' \in Start..MaxTime /\ lastTickMs' \in Start..now'
  BY MapViewAssumption DEF MapTypeOK
<1>2. MapTypeOK'
  BY <1>1 DEF MapTypeOK
<1>3. TrueList(markers', now', lastTickMs')
  <2> SUFFICES ASSUME NEW f \in Friends, now - markers[f].at > Threshold
               PROVE  now' - markers[f].at > Threshold
    BY DEF TrueList
  <2>1. markers[f].at \in Times
    BY DEF TrueList, MarkerRecords
  <2> QED BY <2>1, MapViewAssumption DEF MapTypeOK, Times
<1>4. QueueInv' /\ FreshInv' /\ ToldInv'
  BY AnswersKept DEF Newest
<1>5. OpeningInv' /\ LayerInv' /\ StopInv'
  BY DEF OpeningInv, LayerInv, InStep, StopInv, Waiting
<1> QED BY <1>2, <1>3, <1>4, <1>5

LEMMA tickInv ==
  ASSUME MapInv, tick
  PROVE  MapInv'
<1> USE DEF MapInv, tick, serverVars, socketVars, counterVars, historyVars
<1>1. PICK list : list = updateStaleFlags(markers)
  OBVIOUS
<1>2. /\ TrueList(list, now, now) /\ list \in [Friends -> MarkerRecords]
      /\ \A f \in Friends : list[f].at = markers[f].at
  BY <1>1, FlaggedList
<1>3. Store(list)
  BY <1>1
<1>4. /\ markers' = list /\ layer' \in [Friends -> Times \cup {Nothing}]
      /\ mounted => InStep'
      /\ \A f \in stopViewingOwners \ returned : layer'[f] = Nothing
  BY <1>2, <1>3, StoreDraws
<1>5. now' \in Start..MaxTime /\ lastTickMs' \in Start..now'
  BY MapViewAssumption DEF MapTypeOK
<1>6. MapTypeOK'
  BY <1>2, <1>4, <1>5 DEF MapTypeOK, MarkerRecords
<1>7. QueueInv' /\ FreshInv' /\ ToldInv'
  BY <1>2, <1>4, AnswersKept DEF Newest
<1>8. TrueList(markers', now', lastTickMs')
  BY <1>2, <1>4
<1>9. OpeningInv' /\ LayerInv' /\ StopInv'
  BY <1>4 DEF OpeningInv, LayerInv, StopInv
<1> QED BY <1>6, <1>7, <1>8, <1>9

LEMMA staleCheckTickInv ==
  ASSUME MapInv, staleCheckTick
  PROVE  MapInv'
<1> USE DEF MapInv, staleCheckTick, clockVars, serverVars, socketVars, counterVars,
            historyVars
<1>1. PICK list : list = [f \in Friends |-> IF layer[f] = Nothing THEN markers[f]
                                            ELSE updateStaleFlags(markers)[f]]
  OBVIOUS
<1>2. /\ TrueList(list, now, lastTickMs) /\ list \in [Friends -> MarkerRecords]
      /\ \A f \in Friends : list[f].at = markers[f].at
  BY <1>1, CheckedList DEF TrueList
<1>3. Store(list)
  BY <1>1
<1>4. /\ markers' = list /\ layer' \in [Friends -> Times \cup {Nothing}]
      /\ mounted => InStep'
      /\ \A f \in stopViewingOwners \ returned : layer'[f] = Nothing
  BY <1>2, <1>3, StoreDraws
<1>5. MapTypeOK'
  BY <1>2, <1>4 DEF MapTypeOK, MarkerRecords
<1>6. QueueInv' /\ FreshInv' /\ ToldInv'
  BY <1>2, <1>4, AnswersKept DEF Newest
<1>7. TrueList(markers', now', lastTickMs')
  BY <1>2, <1>4
<1>8. OpeningInv' /\ LayerInv' /\ StopInv'
  BY <1>4 DEF OpeningInv, LayerInv, StopInv
<1> QED BY <1>5, <1>6, <1>7, <1>8

LEMMA openInv ==
  ASSUME MapInv, NEW s \in Slots, open(s)
  PROVE  MapInv'
<1> USE DEF MapInv, open, clockVars, serverVars, socketVars, counterVars, historyVars, Click
<1>1. PICK m : m = [Idle EXCEPT !.pc = "list"]
  OBVIOUS
<1>2. m \in Mounts /\ m.pc = "list" /\ m.here
  <2>1. Idle \in Mounts /\ Idle.here
    BY IdleMount
  <2> QED BY <1>1, <2>1 DEF Mounts
<1>3. mount' = [mount EXCEPT ![s] = m]
  BY <1>1
<1>4. /\ mount' \in [Slots -> Mounts] /\ mount'[s] = m
      /\ \A r \in Slots \ {s} : mount'[r] = mount[r]
  BY <1>2, <1>3 DEF MapTypeOK
<1>5. clicks' \in 0..MaxClicks
  BY MapViewAssumption DEF MapTypeOK
<1>6. returned' \subseteq Friends
  BY DEF MapTypeOK
<1>7. MapTypeOK'
  BY <1>2, <1>4, <1>5, <1>6 DEF MapTypeOK
<1>8. QueueInv' /\ FreshInv' /\ ToldInv'
  BY <1>2, <1>4, AnswersKept DEF Newest
<1>9. OpeningInv'
  BY <1>2, <1>4 DEF OpeningInv
<1>10. LayerInv' /\ StopInv'
  BY <1>2, <1>4 DEF LayerInv, StopInv, Waiting
<1> QED BY <1>7, <1>8, <1>9, <1>10 DEF TrueList

LEMMA leaveInv ==
  ASSUME MapInv, leave
  PROVE  MapInv'
<1> USE DEF MapInv, leave, clockVars, serverVars, socketVars, counterVars, historyVars,
            Click
<1> DEFINE idle(s) == mount[s].pc = "idle"
           m(s) == [mount[s] EXCEPT !.here = idle(s)]
<1>1. ASSUME NEW s \in Slots
      PROVE  /\ m(s) \in Mounts /\ m(s).here = idle(s)
             /\ m(s).pc = mount[s].pc /\ m(s).of = mount[s].of /\ m(s).at = mount[s].at
             /\ m(s).fresh = mount[s].fresh /\ m(s).todo = mount[s].todo
  <2>1. mount[s] \in Mounts /\ idle(s) \in BOOLEAN
    BY DEF MapTypeOK
  <2> HIDE DEF idle
  <2> QED BY <2>1 DEF Mounts
<1>2. mount' = [s \in Slots |-> m(s)]
  OBVIOUS
<1> HIDE DEF m
<1>3. mount' \in [Slots -> Mounts]
  BY <1>1, <1>2
<1>4. \A s \in Slots : /\ mount'[s].here = (mount[s].pc = "idle")
                        /\ mount'[s].pc = mount[s].pc /\ mount'[s].of = mount[s].of
                        /\ mount'[s].at = mount[s].at /\ mount'[s].fresh = mount[s].fresh
                        /\ mount'[s].todo = mount[s].todo
  BY <1>1, <1>2
<1>5. clicks' \in 0..MaxClicks
  BY MapViewAssumption DEF MapTypeOK
<1>6. leftEarly' \in BOOLEAN /\ (leftEarly => leftEarly') /\ (Opening => leftEarly')
  BY DEF MapTypeOK, Opening
<1>7. layer' \in [Friends -> Times \cup {Nothing}]
  OBVIOUS
<1>8. MapTypeOK'
  BY <1>3, <1>4, <1>5, <1>6, <1>7 DEF MapTypeOK
<1>9. QueueInv' /\ FreshInv' /\ ToldInv'
  <2>1. \A s \in Slots : Newest(s)' = Newest(s)
    BY <1>4 DEF Newest
  <2> QED BY <1>4, <2>1, AnswersKept
<1>10. OpeningInv'
  BY <1>4, <1>6 DEF OpeningInv, Opening
<1>11. LayerInv' /\ StopInv' /\ (leaked' > 0 => leftEarly')
  BY <1>6 DEF LayerInv, StopInv, MapTypeOK
<1> QED BY <1>8, <1>9, <1>10, <1>11 DEF TrueList

-----------------------------------------------------------------------------
(* The hydration.                                                           *)

\* What hydrateNext makes of one call.
Hydrating(s, todo) ==
  /\ mount' \in [Slots -> Mounts]
  /\ \A r \in Slots \ {s} : mount'[r] = mount[r]
  /\ mount'[s].here = mount[s].here /\ mount'[s].pc \in {"ask", "mine"}
  /\ mount'[s].pc = "ask" => /\ mount'[s].of \in Friends
                             /\ mount'[s].of \notin mount'[s].todo

LEMMA HydrateNext ==
  ASSUME MapTypeOK, StopInv, NEW s \in Slots, NEW todo \in SUBSET Friends,
         NEW list, TrueList(list, now, lastTickMs), hydrateNext(s, todo, list),
         UNCHANGED <<clockVars, mounted, stopViewingOwners>>
  PROVE  /\ TrueList(markers', now, lastTickMs)
         /\ \A f \in Friends : markers'[f].at = list[f].at
         /\ layer' \in [Friends -> Times \cup {Nothing}]
         /\ \A f \in stopViewingOwners \ returned : layer'[f] = Nothing
         /\ mounted => InStep' \/ (UNCHANGED <<markers, layer>> /\ ~mount[s].here)
         /\ Hydrating(s, todo)
<1>1. mount[s] \in Mounts
  BY DEF MapTypeOK
<1>2. CASE todo = {}
  <2>1. PICK m : m = [mount[s] EXCEPT !.pc = "mine", !.todo = {}]
    OBVIOUS
  <2>2. m \in Mounts /\ m.pc = "mine" /\ m.here = mount[s].here
    BY <1>1, <2>1 DEF Mounts
  <2>3. mount' = [mount EXCEPT ![s] = m]
    BY <1>2, <2>1 DEF hydrateNext, MapTypeOK
  <2>4. Hydrating(s, todo)
    BY <2>2, <2>3 DEF Hydrating, MapTypeOK
  <2>5. CASE list # markers \/ mount[s].here
    <3>1. Store(list) /\ list \in [Friends -> MarkerRecords]
      BY <1>2, <2>5 DEF hydrateNext, TrueList
    <3> QED BY <2>4, <3>1, StoreDraws
  <2>6. CASE ~(list # markers \/ mount[s].here)
    <3>1. UNCHANGED <<markers, layer>> /\ list = markers
      BY <1>2, <2>6 DEF hydrateNext
    <3> QED BY <2>4, <2>6, <3>1 DEF StopInv, MapTypeOK
  <2> QED BY <2>5, <2>6
<1>3. CASE todo # {}
  <2>1. PICK f \in todo :
          /\ Store(setFriendMeta(f, list))
          /\ mount' = [mount EXCEPT ![s].pc = "ask", ![s].of = f, ![s].todo = todo \ {f}]
    BY <1>3 DEF hydrateNext
  <2>2. PICK m : m = [mount[s] EXCEPT !.pc = "ask", !.of = f, !.todo = todo \ {f}]
    OBVIOUS
  <2>3. m \in Mounts /\ m.pc = "ask" /\ m.here = mount[s].here /\ m.of = f /\ f \notin m.todo
    BY <1>1, <2>2 DEF Mounts
  <2>4. mount' = [mount EXCEPT ![s] = m]
    BY <2>1, <2>2 DEF MapTypeOK
  <2>5. Hydrating(s, todo)
    BY <2>3, <2>4 DEF Hydrating, MapTypeOK
  <2>6. PICK new : new = setFriendMeta(f, list)
    OBVIOUS
  <2>7. TrueList(new, now, lastTickMs) /\ \A g \in Friends : new[g].at = list[g].at
    BY <2>6, MetaList
  <2>8. Store(new) /\ new \in [Friends -> MarkerRecords]
    BY <2>1, <2>6, <2>7 DEF TrueList
  <2> QED BY <2>5, <2>7, <2>8, StoreDraws
<1> QED BY <1>2, <1>3

\* A call that waited for the friends draws first and goes on.
LEMMA HydratingInv ==
  ASSUME MapInv, NEW s \in Slots, NEW todo, mount[s].pc \in {"list", "reply"},
         UNCHANGED <<clockVars, mounted, leftEarly, leaked, watching, stopped, commands,
                     stopViewingOwners, returned>>,
         TrueList(markers', now, lastTickMs),
         \A f \in stopViewingOwners \ returned : layer'[f] = Nothing,
         mounted => InStep' \/ (UNCHANGED <<markers, layer>> /\ ~mount[s].here),
         Hydrating(s, todo)
  PROVE  /\ OpeningInv' /\ LayerInv' /\ StopInv' /\ TrueList(markers', now', lastTickMs')
         /\ (leaked' > 0 => leftEarly') /\ (watching' => mounted')
         /\ \A r \in Slots : mount'[r].pc = "ask" => mount'[r].of \notin mount'[r].todo
<1>1. OpeningInv'
  BY DEF MapInv, OpeningInv, Hydrating
<1>2. LayerInv'
  <2>1. ASSUME mounted, UNCHANGED <<markers, layer>>, ~mount[s].here
        PROVE  LayerInv'
    <3>1. \A r \in Slots : Waiting(r) => Waiting(r)'
      BY <2>1 DEF Waiting, Hydrating
    <3> QED BY <2>1, <3>1 DEF MapInv, LayerInv, InStep
  <2> QED BY <2>1 DEF LayerInv
<1>3. StopInv'
  BY DEF MapInv, StopInv
<1>4. \A r \in Slots : mount'[r].pc = "ask" => mount'[r].of \notin mount'[r].todo
  BY DEF MapInv, MapTypeOK, Hydrating
<1>5. TrueList(markers', now', lastTickMs')
  BY DEF clockVars
<1> QED BY <1>1, <1>2, <1>3, <1>4, <1>5 DEF MapInv

LEMMA hydrateFriendMetaInv ==
  ASSUME MapInv, NEW s \in Slots, NEW ok \in BOOLEAN, hydrateFriendMeta(s, ok)
  PROVE  MapInv'
<1> USE DEF MapInv, hydrateFriendMeta, clockVars, serverVars, socketVars, counterVars,
            historyVars
<1>1. PICK todo \in SUBSET Friends : todo = IF ok THEN Friends ELSE {}
  OBVIOUS
<1>2. hydrateNext(s, todo, markers)
  BY <1>1
<1>3. /\ TrueList(markers', now, lastTickMs)
      /\ \A f \in Friends : markers'[f].at = markers[f].at
      /\ layer' \in [Friends -> Times \cup {Nothing}]
      /\ \A f \in stopViewingOwners \ returned : layer'[f] = Nothing
      /\ mounted => InStep' \/ (UNCHANGED <<markers, layer>> /\ ~mount[s].here)
      /\ Hydrating(s, todo)
  BY <1>2, HydrateNext
<1>4. /\ OpeningInv' /\ LayerInv' /\ StopInv' /\ TrueList(markers', now', lastTickMs')
      /\ (leaked' > 0 => leftEarly') /\ (watching' => mounted')
      /\ \A r \in Slots : mount'[r].pc = "ask" => mount'[r].of \notin mount'[r].todo
  BY <1>3, HydratingInv
<1>5. clicks' \in 0..MaxClicks /\ events' \in 0..MaxEvents
  BY MapViewAssumption DEF MapTypeOK, Event
<1>6. MapTypeOK'
  BY <1>3, <1>4, <1>5 DEF MapTypeOK, TrueList, MarkerRecords, Hydrating
<1>7. QueueInv' /\ FreshInv' /\ ToldInv'
  <2>1. \A r \in Slots : /\ Newest(r)' = Newest(r)
                         /\ Newest(r) => /\ mount'[r].at = mount[r].at
                                         /\ mount'[r].of = mount[r].of
    BY <1>3 DEF Newest, Hydrating
  <2> QED BY <1>3, <2>1, AnswersKept
<1> QED BY <1>4, <1>6, <1>7

LEMMA canViewerSeeOwnerInv ==
  ASSUME MapInv, NEW s \in Slots, canViewerSeeOwner(s)
  PROVE  MapInv'
<1> USE DEF MapInv, canViewerSeeOwner, clockVars, serverVars, socketVars, viewVars,
            counterVars,
            historyVars
<1>1. PICK pc \in {"read", "reply"} : pc = IF mount[s].of \in visible THEN "read" ELSE "reply"
  OBVIOUS
<1>2. PICK m : m = [mount[s] EXCEPT !.pc = pc, !.at = 0, !.fresh = FALSE]
  OBVIOUS
<1>3. mount[s] \in Mounts /\ 0 \in Times
  BY MapViewAssumption DEF MapTypeOK, Times
<1>4. m \in Mounts /\ m.pc = pc /\ ~m.fresh /\ m.here = mount[s].here /\ m.of = mount[s].of
  BY <1>2, <1>3 DEF Mounts
<1>5. mount' = [mount EXCEPT ![s] = m]
  BY <1>1, <1>2 DEF MapTypeOK
<1>6. /\ mount' \in [Slots -> Mounts] /\ mount'[s] = m
      /\ \A r \in Slots \ {s} : mount'[r] = mount[r]
  BY <1>4, <1>5 DEF MapTypeOK
<1>7. MapTypeOK'
  BY <1>4, <1>6 DEF MapTypeOK
<1>8. QueueInv' /\ FreshInv' /\ ToldInv'
  BY <1>4, <1>6, AnswersKept DEF Newest
<1>9. OpeningInv'
  BY <1>4, <1>6 DEF OpeningInv
<1>10. LayerInv' /\ StopInv'
  <2>1. \A r \in Slots : Waiting(r) => Waiting(r)'
    BY <1>6 DEF Waiting
  <2> QED BY <2>1 DEF LayerInv, InStep, StopInv
<1> QED BY <1>7, <1>8, <1>9, <1>10 DEF TrueList

LEMMA getCurrentLocationInv ==
  ASSUME MapInv, NEW s \in Slots, getCurrentLocation(s)
  PROVE  MapInv'
<1> USE DEF MapInv, serverVars, clockVars, socketVars, viewVars, counterVars
<1>1. PICK f : f = mount[s].of
  OBVIOUS
<1>2. mount[s].pc = "read" /\ f \in Friends
  BY <1>1 DEF getCurrentLocation, OpeningInv
<1>3. PICK newest \in BOOLEAN : newest = (current[f] # 0 /\ ~Pending(f))
  OBVIOUS
<1>4. newest = (current[f] # 0 /\ \A i \in DOMAIN queue : queue[i].of # f)
  BY <1>3 DEF Pending
<1> DEFINE m == [mount[s] EXCEPT !.pc = "reply", !.at = current[f], !.fresh = newest]
           late(r) == newest /\ mount[r].of = f
           still(r) == mount[r].fresh /\ ~late(r)
           other(r) == [mount[r] EXCEPT !.fresh = still(r)]
<1>5. /\ mount' = [r \in Slots |-> IF r = s THEN m
                                  ELSE [mount[r] EXCEPT !.fresh = @ /\ ~(newest /\ mount[r].of = f)]]
      /\ told' = IF newest THEN [told EXCEPT ![f] = current[f]] ELSE told
      /\ UNCHANGED <<clockVars, serverVars, socketVars, markers, viewVars, leaked,
                     counterVars,
                     excused, returned, leftEarly>>
  BY <1>1, <1>4 DEF getCurrentLocation
<1>6. mount' = [r \in Slots |-> IF r = s THEN m ELSE other(r)]
  BY <1>5
<1>7. /\ m \in Mounts /\ m.pc = "reply" /\ m.at = current[f] /\ m.fresh = newest
      /\ m.here = mount[s].here /\ m.of = f
  <2>1. mount[s] \in Mounts /\ current[f] \in Times
    BY <1>2 DEF MapTypeOK
  <2> QED BY <1>1, <2>1 DEF Mounts
<1>8. ASSUME NEW r \in Slots
      PROVE  /\ other(r) \in Mounts /\ other(r).pc = mount[r].pc /\ other(r).at = mount[r].at
             /\ other(r).here = mount[r].here /\ other(r).of = mount[r].of
             /\ other(r).todo = mount[r].todo /\ other(r).fresh = still(r)
  <2>1. mount[r] \in Mounts
    BY DEF MapTypeOK
  <2>2. still(r) \in BOOLEAN
    BY <2>1 DEF Mounts
  <2> HIDE DEF still
  <2> QED BY <2>1, <2>2 DEF Mounts
<1> HIDE DEF m, other
<1>9. /\ mount' \in [Slots -> Mounts] /\ mount'[s] = m
      /\ \A r \in Slots \ {s} : mount'[r] = other(r)
  BY <1>6, <1>7, <1>8
<1>10. told' \in [Friends -> Times] /\ told' = IF newest THEN [told EXCEPT ![f] = current[f]] ELSE told
  BY <1>2, <1>5 DEF MapTypeOK
<1>11. MapTypeOK'
  BY <1>5, <1>7, <1>8, <1>9, <1>10 DEF MapTypeOK
<1>12. OpeningInv'
  BY <1>2, <1>5, <1>7, <1>8, <1>9 DEF OpeningInv
<1>13. LayerInv' /\ StopInv'
  <2>1. \A r \in Slots : Waiting(r) => Waiting(r)'
    BY <1>2, <1>8, <1>9 DEF Waiting
  <2> QED BY <1>5, <2>1 DEF LayerInv, InStep, StopInv
<1>14. \A g : Pending(g)' = Pending(g)
  BY <1>5 DEF Pending
<1>15. QueueInv'
  <2>1. \A i \in DOMAIN queue : newest => queue[i].of # f
    BY <1>4
  <2>2. \A i \in DOMAIN queue : queue[i].of \in Friends
    BY QueuedEvents
  <2>3. \A i \in DOMAIN queue : told'[queue[i].of] = told[queue[i].of]
    BY <1>10, <2>1, <2>2 DEF MapTypeOK
  <2> QED BY <1>5, <2>3 DEF QueueInv
<1>16. FreshInv'
  <2> SUFFICES ASSUME NEW r \in Slots, Newest(r)'
               PROVE  /\ mount'[r].at # 0 /\ mount'[r].at = told'[mount'[r].of]
                      /\ ~Pending(mount'[r].of)
    BY <1>14 DEF FreshInv
  <2>1. CASE r = s
    BY <1>2, <1>3, <1>7, <1>9, <1>10, <2>1 DEF Newest, MapTypeOK
  <2>2. CASE r # s
    <3>1. Newest(r) /\ ~late(r) /\ mount'[r].at = mount[r].at /\ mount'[r].of = mount[r].of
      BY <1>8, <1>9, <2>2 DEF Newest
    <3>2. mount[r].of \in Friends
      BY <3>1 DEF Newest, OpeningInv
    <3>3. told'[mount[r].of] = told[mount[r].of]
      BY <1>10, <3>1, <3>2 DEF MapTypeOK
    <3> QED BY <3>1, <3>3 DEF FreshInv
  <2> QED BY <2>1, <2>2
<1>17. ToldInv'
  <2> SUFFICES ASSUME NEW g \in Friends \ excused, ~Pending(g)
               PROVE  \/ markers[g].at = told'[g]
                      \/ \E r \in Slots : Newest(r)' /\ mount'[r].of = g
    BY <1>5, <1>14 DEF ToldInv
  <2>1. CASE newest /\ g = f
    BY <1>7, <1>9, <2>1 DEF Newest
  <2>2. CASE ~(newest /\ g = f)
    <3>1. told'[g] = told[g]
      BY <1>10, <2>2 DEF MapTypeOK
    <3>2. ASSUME NEW r \in Slots, Newest(r), mount[r].of = g
          PROVE  Newest(r)' /\ mount'[r].of = g
      <4>1. r # s /\ ~late(r)
        BY <1>2, <2>2, <3>2 DEF Newest
      <4> QED BY <1>8, <1>9, <3>2, <4>1 DEF Newest
    <3> QED BY <3>1, <3>2 DEF ToldInv
  <2> QED BY <2>1, <2>2
<1> QED BY <1>5, <1>11, <1>12, <1>13, <1>15, <1>16, <1>17 DEF TrueList

LEMMA hydratedInv ==
  ASSUME MapInv, NEW s \in Slots, NEW ok \in BOOLEAN, hydrated(s, ok)
  PROVE  MapInv'
<1> USE DEF MapInv, serverVars, clockVars, socketVars, counterVars
<1>1. PICK f, t : f = mount[s].of /\ t = mount[s].at
  OBVIOUS
<1>2. mount[s].pc = "reply" /\ f \in Friends /\ t \in Times
  BY <1>1 DEF hydrated, OpeningInv, MapTypeOK, Mounts
<1>3. PICK todo \in SUBSET Friends : todo = mount[s].todo
  BY DEF MapTypeOK, Mounts
<1>4. PICK list : list = IF ok /\ t # 0 THEN applyLocationUpdate(f, t) ELSE markers
  OBVIOUS
<1>5. /\ hydrateNext(s, todo, list)
      /\ excused' = IF t = 0 THEN excused
                    ELSE IF ok /\ mount[s].fresh THEN excused \ {f} ELSE excused \cup {f}
      /\ IF ok THEN UNCHANGED counterVars ELSE Event
      /\ UNCHANGED <<clockVars, serverVars, socketVars, mounted, stopViewingOwners,
                     watching,
                     leaked, told, returned, leftEarly>>
  BY <1>1, <1>3, <1>4 DEF hydrated
<1>6. /\ TrueList(list, now, lastTickMs)
      /\ \A g \in Friends \ {f} : list[g].at = markers[g].at
      /\ list[f].at = IF ok /\ t # 0 THEN t ELSE markers[f].at
  BY <1>2, <1>4, UpdatedList
<1>7. /\ TrueList(markers', now, lastTickMs)
      /\ \A g \in Friends : markers'[g].at = list[g].at
      /\ layer' \in [Friends -> Times \cup {Nothing}]
      /\ \A g \in stopViewingOwners \ returned : layer'[g] = Nothing
      /\ mounted => InStep' \/ (UNCHANGED <<markers, layer>> /\ ~mount[s].here)
      /\ Hydrating(s, todo)
  BY <1>5, <1>6, HydrateNext
<1>8. /\ OpeningInv' /\ LayerInv' /\ StopInv' /\ TrueList(markers', now', lastTickMs')
      /\ (leaked' > 0 => leftEarly') /\ (watching' => mounted')
      /\ \A r \in Slots : mount'[r].pc = "ask" => mount'[r].of \notin mount'[r].todo
  BY <1>2, <1>5, <1>7, HydratingInv
<1>9. clicks' \in 0..MaxClicks /\ events' \in 0..MaxEvents /\ excused' \subseteq Friends
  BY <1>2, <1>5, MapViewAssumption DEF MapTypeOK, Event
<1>10. MapTypeOK'
  BY <1>5, <1>7, <1>8, <1>9 DEF MapTypeOK, TrueList, MarkerRecords, Hydrating
<1>11. \A g : Pending(g)' = Pending(g)
  BY <1>5 DEF Pending
<1>12. \A r \in Slots : Newest(r)' => Newest(r) /\ r # s
  BY <1>7 DEF Newest, Hydrating
<1>13. QueueInv' /\ FreshInv'
  BY <1>5, <1>7, <1>11, <1>12 DEF QueueInv, FreshInv, Hydrating
<1>14. ToldInv'
  <2> SUFFICES ASSUME NEW g \in Friends \ excused', ~Pending(g)
               PROVE  \/ markers'[g].at = told[g]
                      \/ \E r \in Slots : Newest(r)' /\ mount'[r].of = g
    BY <1>5, <1>11 DEF ToldInv
  <2>1. Newest(s) = mount[s].fresh
    BY <1>2 DEF Newest, MapTypeOK, Mounts
  <2>2. Newest(s) => t # 0 /\ t = told[f]
    BY <1>1 DEF FreshInv
  <2>3. CASE g = f /\ Newest(s)
    <3>1. ok
      BY <1>5, <2>1, <2>2, <2>3
    <3> QED BY <1>6, <1>7, <2>2, <2>3, <3>1
  <2>4. CASE ~(g = f /\ Newest(s))
    <3>1. g = f => t = 0
      BY <1>5, <2>1, <2>4
    <3>2. g \notin excused /\ markers'[g].at = markers[g].at
      BY <1>5, <1>6, <1>7, <3>1
    <3>3. ASSUME NEW r \in Slots, Newest(r), mount[r].of = g
          PROVE  Newest(r)' /\ mount'[r].of = g
      BY <1>1, <1>7, <2>4, <3>3 DEF Newest, Hydrating
    <3> QED BY <3>2, <3>3 DEF ToldInv
  <2> QED BY <2>3, <2>4
<1> QED BY <1>8, <1>10, <1>13, <1>14

LEMMA startGeolocationInv ==
  ASSUME MapInv, NEW s \in Slots, NEW ok \in BOOLEAN, startGeolocation(s, ok)
  PROVE  MapInv'
<1> USE DEF MapInv, startGeolocation, clockVars, serverVars, socketVars, counterVars,
            historyVars
<1>1. /\ mount' \in [Slots -> Mounts] /\ mount'[s] = Idle
      /\ \A r \in Slots \ {s} : mount'[r] = mount[r]
  BY IdleMount DEF MapTypeOK
<1>2. mount[s].here \in BOOLEAN /\ watching \in BOOLEAN /\ leaked \in Nat
  BY DEF MapTypeOK, Mounts
<1>3. watching' \in BOOLEAN /\ leaked' \in Nat
  BY <1>2
<1>4. (watching' => mounted') /\ (leaked' > 0 => leftEarly')
  BY <1>2 DEF OpeningInv
<1>5. clicks' \in 0..MaxClicks /\ events' \in 0..MaxEvents
  BY MapViewAssumption DEF MapTypeOK, Event
<1>6. MapTypeOK'
  BY <1>1, <1>3, <1>5, IdleMount DEF MapTypeOK
<1>7. QueueInv' /\ FreshInv' /\ ToldInv'
  BY <1>1, IdleMount, AnswersKept DEF Newest
<1>8. OpeningInv'
  BY <1>1, IdleMount DEF OpeningInv
<1>9. LayerInv' /\ StopInv'
  <2>1. \A r \in Slots : Waiting(r) => Waiting(r)'
    BY <1>1 DEF Waiting
  <2> QED BY <2>1 DEF LayerInv, InStep, StopInv
<1> QED BY <1>4, <1>6, <1>7, <1>8, <1>9 DEF TrueList

LEMMA handleStopViewingInv ==
  ASSUME MapInv, NEW f \in Friends, handleStopViewing(f)
  PROVE  MapInv'
<1> USE DEF MapInv, handleStopViewing, clockVars, serverVars, historyVars, Click
<1>1. clicks' \in 0..MaxClicks
  BY MapViewAssumption DEF MapTypeOK
<1>2. /\ commands' \in Seq(Friends) /\ DOMAIN commands' = 1..(Len(commands) + 1)
      /\ commands'[Len(commands) + 1] = f
      /\ \A i \in 1..Len(commands) : commands'[i] = commands[i]
  BY AppendProperties DEF MapTypeOK
<1>3. DOMAIN commands = 1..Len(commands) /\ Len(commands) \in Nat
  BY DEF MapTypeOK
<1>4. layer' \in [Friends -> Times \cup {Nothing}]
  BY DEF MapTypeOK
<1>5. MapTypeOK'
  BY <1>1, <1>2, <1>4 DEF MapTypeOK
<1>6. QueueInv' /\ FreshInv' /\ ToldInv'
  BY AnswersKept DEF Newest
<1>7. OpeningInv'
  BY DEF OpeningInv
<1>8. LayerInv'
  <2>1. InStep => InStep'
    BY DEF InStep, MapTypeOK
  <2> QED BY <2>1 DEF LayerInv, Waiting
<1>9. StopInv'
  <2>1. stopped' \subseteq stopViewingOwners' \cup returned'
    BY DEF StopInv
  <2>2. \A i \in DOMAIN commands' : commands'[i] \in stopViewingOwners' \cup returned'
    BY <1>2, <1>3 DEF StopInv
  <2>3. \A g \in stopViewingOwners' \ returned' : layer'[g] = Nothing
    BY DEF StopInv, MapTypeOK
  <2> QED BY <2>1, <2>2, <2>3 DEF StopInv
<1> QED BY <1>5, <1>6, <1>7, <1>8, <1>9 DEF TrueList

-----------------------------------------------------------------------------
(* The server and the socket.                                               *)

\* The new event says what is told, and every answer about f is an old one now.
LEMMA EmitInv ==
  ASSUME MapInv, NEW f \in Friends, NEW kind \in {"updated", "hidden", "ghost"},
         NEW t \in Times, t = IF kind = "updated" THEN now ELSE 0,
         Emit(f, kind, t), UNCHANGED <<clockVars, connected, markers, mounted, leftEarly>>
  PROVE  /\ queue' \in Seq(Events) /\ told' \in [Friends -> Times]
         /\ excused' \subseteq Friends
         /\ mount' \in [Slots -> Mounts]
         /\ \A s \in Slots : mount'[s].pc = "ask" => mount'[s].of \notin mount'[s].todo
         /\ OpeningInv' /\ QueueInv' /\ FreshInv' /\ ToldInv'
         /\ \A s \in Slots : Waiting(s) => Waiting(s)'
<1> USE DEF MapInv, clockVars
<1> DEFINE still(s) == mount[s].fresh /\ mount[s].of # f
           m(s) == [mount[s] EXCEPT !.fresh = still(s)]
<1>1. ASSUME NEW s \in Slots
      PROVE  /\ m(s) \in Mounts /\ m(s).pc = mount[s].pc /\ m(s).at = mount[s].at
             /\ m(s).here = mount[s].here /\ m(s).of = mount[s].of
             /\ m(s).todo = mount[s].todo /\ m(s).fresh = still(s)
  <2>1. mount[s] \in Mounts
    BY DEF MapTypeOK
  <2>2. still(s) \in BOOLEAN
    BY <2>1 DEF Mounts
  <2> HIDE DEF still
  <2> QED BY <2>1, <2>2 DEF Mounts
<1>2. mount' = [s \in Slots |-> m(s)]
  BY DEF Emit
<1> HIDE DEF m
<1>3. /\ mount' \in [Slots -> Mounts]
      /\ \A s \in Slots : /\ mount'[s].pc = mount[s].pc /\ mount'[s].at = mount[s].at
                          /\ mount'[s].here = mount[s].here /\ mount'[s].of = mount[s].of
                          /\ mount'[s].todo = mount[s].todo /\ mount'[s].fresh = still(s)
  BY <1>1, <1>2
<1>4. told' = [told EXCEPT ![f] = t] /\ told' \in [Friends -> Times]
  BY DEF Emit, MapTypeOK
<1>5. \A s \in Slots : mount'[s].pc = "ask" => mount'[s].of \notin mount'[s].todo
  BY <1>3 DEF MapTypeOK
<1>6. OpeningInv'
  BY <1>3 DEF OpeningInv
<1>7. \A s \in Slots : Waiting(s) => Waiting(s)'
  BY <1>3 DEF Waiting
<1>8. \A s \in Slots : Newest(s)' <=> Newest(s) /\ mount[s].of # f
  BY <1>3 DEF Newest
<1>9. ASSUME NEW g \in Friends, g # f
      PROVE  told'[g] = told[g]
  BY <1>4, <1>9 DEF MapTypeOK
<1>10. told'[f] = t
  BY <1>4 DEF MapTypeOK
<1>11. CASE connected
  <2>1. PICK e : e = [kind |-> kind, of |-> f, at |-> now]
    OBVIOUS
  <2>2. queue' = Append(queue, e) /\ UNCHANGED excused
    BY <1>11, <2>1 DEF Emit
  <2>3. e \in Events /\ e.of = f /\ Says(e) = t
    <3>1. now \in Times
      BY MapViewAssumption DEF MapTypeOK, Times
    <3> QED BY <2>1, <3>1 DEF Events, Says
  <2>4. queue \in Seq(Events)
    BY DEF MapTypeOK
  <2>5. /\ queue' \in Seq(Events) /\ DOMAIN queue' = 1..(Len(queue) + 1)
        /\ queue'[Len(queue) + 1] = e
        /\ \A i \in 1..Len(queue) : queue'[i] = queue[i]
    BY <2>2, <2>3, <2>4, AppendProperties
  <2>6. DOMAIN queue = 1..Len(queue) /\ Len(queue) \in Nat
    BY QueuedEvents
  <2>7. Pending(f)' /\ \A g : g # f => Pending(g)' = Pending(g)
    BY <2>3, <2>5, <2>6 DEF Pending
  <2>8. QueueInv'
    <3> SUFFICES ASSUME NEW i \in DOMAIN queue',
                        \A j \in DOMAIN queue' : j > i => queue'[j].of # queue'[i].of
                 PROVE  Says(queue'[i]) = told'[queue'[i].of]
      BY <1>11 DEF QueueInv
    <3>1. CASE i = Len(queue) + 1
      BY <1>10, <2>3, <2>5, <3>1
    <3>2. CASE i \in DOMAIN queue
      <4>1. queue'[i] = queue[i] /\ queue[i].of # f
        BY <2>3, <2>5, <2>6, <3>2
      <4>2. \A j \in DOMAIN queue : j > i => queue[j].of # queue[i].of
        BY <2>5, <2>6, <3>2
      <4>3. queue[i].of \in Friends
        BY <3>2, QueuedEvents
      <4> QED BY <1>9, <3>2, <4>1, <4>2, <4>3 DEF QueueInv
    <3> QED BY <2>5, <2>6, <3>1, <3>2
  <2>9. FreshInv'
    <3> SUFFICES ASSUME NEW s \in Slots, Newest(s)'
                 PROVE  /\ mount'[s].at # 0 /\ mount'[s].at = told'[mount'[s].of]
                        /\ ~Pending(mount[s].of)'
      BY <1>3 DEF FreshInv
    <3>1. Newest(s) /\ mount[s].of # f /\ mount[s].of \in Friends
      BY <1>8 DEF Newest, OpeningInv
    <3> QED BY <1>3, <1>9, <2>7, <3>1 DEF FreshInv
  <2>10. ToldInv'
    BY <1>3, <1>8, <1>9, <2>2, <2>7 DEF ToldInv
  <2> QED BY <1>3, <1>4, <1>5, <1>6, <1>7, <2>2, <2>5, <2>8, <2>9, <2>10 DEF MapTypeOK
<1>12. CASE ~connected
  <2>1. UNCHANGED queue /\ excused' = excused \cup {f} /\ queue = <<>>
    BY <1>12 DEF Emit, QueueInv
  <2>2. \A g : ~Pending(g) /\ ~Pending(g)'
    BY <2>1, EmptySeq DEF Pending
  <2>3. QueueInv'
    BY <2>1, EmptySeq DEF QueueInv
  <2>4. FreshInv'
    <3> SUFFICES ASSUME NEW s \in Slots, Newest(s)'
                 PROVE  mount'[s].at # 0 /\ mount'[s].at = told'[mount'[s].of]
      BY <2>2 DEF FreshInv
    <3>1. Newest(s) /\ mount[s].of # f /\ mount[s].of \in Friends
      BY <1>8 DEF Newest, OpeningInv
    <3> QED BY <1>3, <1>9, <3>1 DEF FreshInv
  <2>5. ToldInv'
    BY <1>3, <1>8, <1>9, <2>1, <2>2 DEF ToldInv
  <2> QED BY <1>3, <1>4, <1>5, <1>6, <1>7, <2>1, <2>3, <2>4, <2>5 DEF MapTypeOK
<1> QED BY <1>11, <1>12

LEMMA fixInv ==
  ASSUME MapInv, NEW f \in Friends, fix(f)
  PROVE  MapInv'
<1> USE DEF MapInv, fix, clockVars, viewVars
<1>1. events' \in 0..MaxEvents /\ clicks' \in 0..MaxClicks
  BY MapViewAssumption DEF MapTypeOK, Event
<1>2. now \in Times /\ current' \in [Friends -> Times]
  BY MapViewAssumption DEF MapTypeOK, Times
<1>3. CASE f \in visible \ stopped
  <2>1. Emit(f, "updated", now)
    BY <1>3
  <2>2. /\ queue' \in Seq(Events) /\ told' \in [Friends -> Times]
        /\ excused' \subseteq Friends
        /\ mount' \in [Slots -> Mounts]
        /\ \A s \in Slots : mount'[s].pc = "ask" => mount'[s].of \notin mount'[s].todo
        /\ OpeningInv' /\ QueueInv' /\ FreshInv' /\ ToldInv'
        /\ \A s \in Slots : Waiting(s) => Waiting(s)'
    BY <1>2, <2>1, EmitInv
  <2>3. MapTypeOK'
    BY <1>1, <1>2, <2>2 DEF MapTypeOK
  <2>4. LayerInv' /\ StopInv'
    BY <2>2 DEF LayerInv, InStep, StopInv
  <2> QED BY <2>2, <2>3, <2>4 DEF TrueList
<1>4. CASE ~(f \in visible \ stopped)
  <2>1. UNCHANGED <<queue, excused, told, mount>>
    BY <1>4
  <2>2. MapTypeOK'
    BY <1>1, <1>2, <2>1 DEF MapTypeOK
  <2>3. QueueInv' /\ FreshInv' /\ ToldInv'
    BY <2>1, AnswersKept DEF Newest
  <2>4. OpeningInv' /\ LayerInv' /\ StopInv'
    BY <2>1 DEF OpeningInv, LayerInv, InStep, StopInv, Waiting
  <2> QED BY <2>2, <2>3, <2>4 DEF TrueList
<1> QED BY <1>3, <1>4

LEMMA hideInv ==
  ASSUME MapInv, NEW f \in Friends, hide(f)
  PROVE  MapInv'
<1> USE DEF MapInv, hide, clockVars, viewVars
<1>1. events' \in 0..MaxEvents /\ clicks' \in 0..MaxClicks
  BY MapViewAssumption DEF MapTypeOK, Event
<1>2. PICK kind \in {"hidden", "ghost"} : Emit(f, kind, 0)
  OBVIOUS
<1>3. 0 \in Times
  BY MapViewAssumption DEF Times
<1>4. /\ queue' \in Seq(Events) /\ told' \in [Friends -> Times]
      /\ excused' \subseteq Friends
      /\ mount' \in [Slots -> Mounts]
      /\ \A s \in Slots : mount'[s].pc = "ask" => mount'[s].of \notin mount'[s].todo
      /\ OpeningInv' /\ QueueInv' /\ FreshInv' /\ ToldInv'
      /\ \A s \in Slots : Waiting(s) => Waiting(s)'
  BY <1>2, <1>3, EmitInv
<1>5. MapTypeOK'
  <2>1. current' \in [Friends -> Times]
    BY <1>3 DEF MapTypeOK
  <2> QED BY <1>1, <1>4, <2>1 DEF MapTypeOK
<1>6. LayerInv' /\ StopInv'
  BY <1>4 DEF LayerInv, InStep, StopInv
<1> QED BY <1>4, <1>5, <1>6 DEF TrueList

LEMMA stopViewingInv ==
  ASSUME MapInv, stopViewing
  PROVE  MapInv'
<1> USE DEF MapInv, stopViewing, clockVars, viewVars, counterVars
<1>1. commands \in Seq(Friends) /\ commands # <<>>
  BY DEF MapTypeOK
<1>2. PICK f : f = Head(commands)
  OBVIOUS
<1>3. f \in Friends /\ f = commands[1] /\ 1 \in DOMAIN commands
  BY <1>1, <1>2, HeadTailProperties
<1>4. /\ commands' \in Seq(Friends)
      /\ \A i \in DOMAIN commands' : i + 1 \in DOMAIN commands /\ commands'[i] = commands[i + 1]
  BY <1>1, HeadTailProperties
<1>5. 0 \in Times /\ Emit(f, "hidden", 0)
  BY <1>2, MapViewAssumption DEF Times
<1>6. /\ queue' \in Seq(Events) /\ told' \in [Friends -> Times]
      /\ excused' \subseteq Friends
      /\ mount' \in [Slots -> Mounts]
      /\ \A s \in Slots : mount'[s].pc = "ask" => mount'[s].of \notin mount'[s].todo
      /\ OpeningInv' /\ QueueInv' /\ FreshInv' /\ ToldInv'
      /\ \A s \in Slots : Waiting(s) => Waiting(s)'
  BY <1>3, <1>5, EmitInv
<1>7. MapTypeOK'
  BY <1>2, <1>3, <1>4, <1>6 DEF MapTypeOK
<1>8. LayerInv'
  BY <1>6 DEF LayerInv, InStep
<1>9. StopInv'
  BY <1>2, <1>3, <1>4 DEF StopInv
<1> QED BY <1>6, <1>7, <1>8, <1>9 DEF TrueList

LEMMA deliverInv ==
  ASSUME MapInv, deliver
  PROVE  MapInv'
<1> USE DEF MapInv, serverVars, clockVars, counterVars
<1>1. queue \in Seq(Events) /\ queue # <<>>
  BY DEF MapTypeOK, deliver
<1>2. PICK e : e = Head(queue)
  OBVIOUS
<1>3. e \in Events /\ e = queue[1] /\ 1 \in DOMAIN queue
  BY <1>1, <1>2, HeadTailProperties
<1>4. PICK f : f = e.of
  OBVIOUS
<1>5. f \in Friends /\ e.at \in Times
  BY <1>3, <1>4 DEF Events
<1>6. PICK list : list = IF e.kind = "updated" THEN applyLocationUpdate(f, e.at)
                         ELSE applyLocationHidden(f)
  OBVIOUS
<1>7. /\ queue' = Tail(queue) /\ Store(list) /\ excused' = excused \ {f}
      /\ UNCHANGED <<clockVars, serverVars, connected, commands, mounted, stopViewingOwners,
                     watching, mount, leaked, counterVars, told, returned, leftEarly>>
  BY <1>2, <1>4, <1>6 DEF deliver
<1>8. /\ queue' \in Seq(Events)
      /\ DOMAIN queue = 1..Len(queue) /\ Len(queue) \in Nat
      /\ DOMAIN queue' = 1..(Len(queue) - 1)
      /\ \A i \in DOMAIN queue' : queue'[i] = queue[i + 1]
  BY <1>1, <1>7, HeadTailProperties
<1>9. /\ TrueList(list, now, lastTickMs) /\ list[f].at = Says(e)
      /\ \A g \in Friends \ {f} : list[g].at = markers[g].at
  BY <1>5, <1>6, UpdatedList, HiddenList DEF Says
<1>10. list \in [Friends -> MarkerRecords]
  BY <1>9 DEF TrueList
<1>11. /\ markers' = list
       /\ layer' \in [Friends -> Times \cup {Nothing}]
       /\ mounted => InStep'
       /\ \A g \in stopViewingOwners \ returned : layer'[g] = Nothing
  BY <1>7, <1>10, StoreDraws
<1>12. MapTypeOK'
  BY <1>7, <1>8, <1>10, <1>11 DEF MapTypeOK, MarkerRecords
<1>13. OpeningInv' /\ LayerInv' /\ StopInv'
  BY <1>7, <1>11 DEF OpeningInv, LayerInv, StopInv
<1>14. \A g : Pending(g)' => Pending(g)
  BY <1>8 DEF Pending
<1>15. \A g : g # f /\ Pending(g) => Pending(g)'
  <2> SUFFICES ASSUME NEW g, g # f, NEW i \in DOMAIN queue, queue[i].of = g
               PROVE  Pending(g)'
    BY DEF Pending
  <2>1. i # 1
    BY <1>3, <1>4
  <2>2. i - 1 \in DOMAIN queue' /\ queue'[i - 1] = queue[i]
    BY <1>8, <2>1
  <2> QED BY <2>2 DEF Pending
<1>16. QueueInv'
  <2>1. connected
    BY <1>1 DEF QueueInv
  <2> SUFFICES ASSUME NEW i \in DOMAIN queue',
                      \A j \in DOMAIN queue' : j > i => queue'[j].of # queue'[i].of
               PROVE  Says(queue'[i]) = told[queue'[i].of]
    BY <1>7, <2>1 DEF QueueInv
  <2>2. i + 1 \in DOMAIN queue /\ queue'[i] = queue[i + 1]
    BY <1>8
  <2>3. ASSUME NEW j \in DOMAIN queue, j > i + 1
        PROVE  queue[j].of # queue[i + 1].of
    <3>1. j - 1 \in DOMAIN queue' /\ j - 1 > i /\ queue'[j - 1] = queue[j]
      BY <1>8, <2>3
    <3> QED BY <2>2, <3>1
  <2> QED BY <2>2, <2>3 DEF QueueInv
<1>17. FreshInv'
  BY <1>7, <1>14 DEF FreshInv, Newest
<1>18. ToldInv'
  <2> SUFFICES ASSUME NEW g \in Friends \ excused', ~Pending(g)'
               PROVE  \/ list[g].at = told[g]
                      \/ \E s \in Slots : Newest(s) /\ mount[s].of = g
    BY <1>7, <1>11 DEF ToldInv, Newest
  <2>1. CASE g = f
    <3>1. ASSUME NEW j \in DOMAIN queue, j > 1
          PROVE  queue[j].of # queue[1].of
      <4>1. j - 1 \in DOMAIN queue' /\ queue'[j - 1] = queue[j]
        BY <1>8, <3>1
      <4> QED BY <1>3, <1>4, <2>1, <4>1 DEF Pending
    <3>2. Says(queue[1]) = told[queue[1].of]
      BY <1>3, <3>1 DEF QueueInv
    <3> QED BY <1>3, <1>4, <1>9, <2>1, <3>2
  <2>2. CASE g # f
    BY <1>7, <1>9, <1>15, <2>2 DEF ToldInv
  <2> QED BY <2>1, <2>2
<1> QED BY <1>7, <1>9, <1>11, <1>12, <1>13, <1>16, <1>17, <1>18

LEMMA disconnectInv ==
  ASSUME MapInv, disconnect
  PROVE  MapInv'
<1> USE DEF MapInv, disconnect, clockVars, viewVars
<1>1. events' \in 0..MaxEvents /\ clicks' \in 0..MaxClicks
  BY MapViewAssumption DEF MapTypeOK, Event
<1>2. queue' \in Seq(Events) /\ DOMAIN queue' = {}
  BY EmptySeq
<1>3. \A i \in DOMAIN queue : queue[i].of \in Friends
  BY QueuedEvents
<1>4. excused' \subseteq Friends
  BY <1>3 DEF MapTypeOK
<1>5. MapTypeOK'
  BY <1>1, <1>2, <1>4 DEF MapTypeOK
<1>6. OpeningInv' /\ LayerInv' /\ StopInv'
  BY DEF OpeningInv, LayerInv, InStep, StopInv, Waiting
<1>7. \A g : ~Pending(g)'
  BY <1>2 DEF Pending
<1>8. QueueInv' /\ FreshInv'
  BY <1>2, <1>7 DEF QueueInv, FreshInv, Newest
<1>9. \A g : g \notin excused' => g \notin excused /\ ~Pending(g)
  BY DEF Pending
<1>10. ToldInv'
  BY <1>9 DEF ToldInv, Newest
<1> QED BY <1>5, <1>6, <1>8, <1>10 DEF TrueList

LEMMA OtherStepsInv ==
  ASSUME MapInv,
         \/ reconnect \/ (\E f \in Friends : show(f))
         \/ UNCHANGED mapVars
  PROVE  MapInv'
<1> USE DEF MapInv, reconnect, clockVars, show, mapVars, serverVars, socketVars, viewVars,
            counterVars, historyVars
<1>1. events' \in 0..MaxEvents /\ clicks' \in 0..MaxClicks
  BY MapViewAssumption DEF MapTypeOK, Event
<1>2. visible' \subseteq Friends /\ connected' \in BOOLEAN
  BY DEF MapTypeOK
<1>3. UNCHANGED <<clockVars, current, stopped, queue, commands, markers, viewVars, mount,
                  leaked,
                  historyVars>>
  OBVIOUS
<1>4. connected => connected'
  OBVIOUS
<1>5. MapTypeOK'
  BY <1>1, <1>2, <1>3 DEF MapTypeOK
<1>6. QueueInv' /\ FreshInv' /\ ToldInv'
  BY <1>3, <1>4, AnswersKept DEF Newest
<1>7. OpeningInv' /\ LayerInv' /\ StopInv'
  BY <1>3 DEF OpeningInv, LayerInv, InStep, StopInv, Waiting
<1> QED BY <1>3, <1>5, <1>6, <1>7 DEF TrueList

LEMMA MapInvariant == MapSpec => []MapInv
<1>1. MapInv /\ [MapNext]_mapVars => MapInv'
  BY passInv, tickInv, staleCheckTickInv, leaveInv, stopViewingInv, deliverInv,
     disconnectInv, openInv, canViewerSeeOwnerInv, getCurrentLocationInv, hydrateFriendMetaInv, hydratedInv,
     startGeolocationInv, handleStopViewingInv, fixInv, hideInv, OtherStepsInv
  DEF MapNext
<1> QED BY <1>1, MapInitInv, PTL DEF MapSpec

-----------------------------------------------------------------------------

\* The variables of the page keep their types, for any friends and bounds.
THEOREM MapTypeCorrect == MapSpec => []MapTypeOK
<1>1. MapInv => MapTypeOK
  BY DEF MapInv
<1> QED BY <1>1, MapInvariant, PTL

\* The store says what the server told last about every friend, once nothing is on
\* its way, unless that event was lost or an older answer was applied over it: the
\* answers of the hydration and the events of the socket may come in any order.
THEOREM StoreFollowsServer == MapSpec => []MapAgrees
<1>1. MapInv => MapAgrees
  <2> SUFFICES ASSUME MapInv, queue = <<>>,
                      \A s \in Slots : mount[s].pc \notin {"read", "reply"},
                      NEW f \in Friends \ excused
               PROVE  markers[f].at = told[f]
    BY DEF MapAgrees
  <2>1. ~Pending(f)
    BY EmptySeq DEF Pending
  <2> QED BY <2>1 DEF MapInv, ToldInv, Newest
<1> QED BY <1>1, MapInvariant, PTL

\* A view that has started draws the store's markers and no other, in whatever order
\* the answers and the events change the store (updateAllMarkers).
THEOREM LayersFollowTheStore == MapSpec => []LayerFollowsStore
<1>1. MapInv => LayerFollowsStore
  BY DEF MapInv, LayerInv, LayerFollowsStore, Waiting, Opening, InStep
<1> QED BY <1>1, MapInvariant, PTL

\* Neither a late answer nor an event that was on its way draws a friend again whom
\* the viewer has stopped; only a view opened afterwards does.
THEOREM StoppedAreNotDrawn == MapSpec => []StoppedStaysOff
<1>1. MapInv => StoppedStaysOff
  BY DEF MapInv, StopInv, StoppedStaysOff
<1> QED BY <1>1, MapInvariant, PTL

\* A watch of the position belongs to the view that is there, unless a view was left
\* before its onMounted had come to startGeolocation.
THEOREM WatchesAreOwned == MapSpec => []WatchOwned
<1>1. MapInv => WatchOwned
  BY DEF MapInv, WatchOwned
<1> QED BY <1>1, MapInvariant, PTL

\* A marker with the flag is older than the threshold, and one without it exceeds the
\* threshold by no more than the time since the store's timer ran last, whatever came
\* in between (applyLocationUpdate, setFriendMeta, updateStaleFlags, staleCheckTick).
THEOREM AgesAreTold == MapSpec => []AgeIsTold
<1>1. MapInv => AgeIsTold
  BY DEF MapInv, TrueList, AgeIsTold
<1> QED BY <1>1, MapInvariant, PTL
=============================================================================
