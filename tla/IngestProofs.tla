---------------------------- MODULE IngestProofs ----------------------------
(***************************************************************************)
(* Ingest for any number of fixes, handlers, lost keys and failures: its    *)
(* types, the order of the current location, what the history holds and why *)
(* the web client's updates are not broadcast.                              *)
(***************************************************************************)
EXTENDS Ingest, SequenceTheorems, TLAPS

(* What a handler that has validated its fix is about to write.             *)
Validated(h) ==
  handler[h].pc = "store" =>
    handler[h].previous = 0 \/ handler[h].fix > handler[h].previous

OrderInv ==
  /\ current = 0 => written = {}
  /\ \A h \in Handlers : Validated(h)
  /\ CurrentIsNewest

(* A fix that gets as far as the socket has been written by its POST, which *)
(* is why the order check refuses it while that write still counts.         *)
Published(fix) == fix \in written \/ gone > 0

HandlerInv(h) ==
  LET fix == handler[h].fix IN
  /\ handler[h].pc # "free" => fix \in Fixes
  /\ handler[h].pc = "limit" => handler[h].kind = "http"
  /\ handler[h].kind = "http" /\ handler[h].pc \in {"save", "end"} => Published(fix)
  /\ handler[h].kind = "socket" /\ handler[h].pc = "previous" => Published(fix)
  /\ handler[h].kind = "socket" /\ handler[h].pc \in {"store", "save", "end"} =>
       gone > 0 \/ overtaken

SocketInv ==
  /\ \A fix \in Fixes : publish[fix] = "replied" => Published(fix)
  /\ \A i \in DOMAIN wire : Published(wire[i])
  /\ \A h \in Handlers : HandlerInv(h)
  /\ BroadcastNeedsLoss

IngestInv == IngestTypeOK /\ OrderInv /\ SocketInv

-----------------------------------------------------------------------------

LEMMA IngestInitInv == IngestInit => IngestInv
<1> SUFFICES ASSUME IngestInit
             PROVE  IngestInv
  OBVIOUS
<1> USE IngestAssumption DEF IngestInit
<1>1. <<>> \in Seq(Fixes) /\ DOMAIN <<>> = {}
  BY EmptySeq
<1>2. IdleHandler \in HandlerRecords
  BY DEF IdleHandler, HandlerRecords
<1>3. IngestTypeOK
  <2>1. 0 \in 0..MaxFixes /\ 0 \in 0..MaxGone /\ 0 \in 0..MaxFailures
    OBVIOUS
  <2>2. handler \in [Handlers -> HandlerRecords]
    BY <1>2
  <2> QED BY <1>1, <2>1, <2>2 DEF IngestTypeOK
<1>4. OrderInv
  BY DEF OrderInv, Validated, CurrentIsNewest, IdleHandler
<1>5. SocketInv
  BY <1>1 DEF SocketInv, HandlerInv, BroadcastNeedsLoss, IdleHandler
<1> QED BY <1>3, <1>4, <1>5 DEF IngestInv

-----------------------------------------------------------------------------
(* The shapes of an assignment to a handler's local state.                  *)

\* Handler h is at pc, with the kind and fix it had, or idle.
Moved(h, pc) ==
  /\ handler' \in [Handlers -> HandlerRecords]
  /\ \A k \in Handlers \ {h} : handler'[k] = handler[k]
  /\ handler'[h].pc = pc
  /\ pc # "free" => handler'[h].kind = handler[h].kind /\ handler'[h].fix = handler[h].fix

LEMMA Gone ==
  ASSUME IngestTypeOK, NEW h \in Handlers, End(h)
  PROVE  Moved(h, "free")
<1>1. IdleHandler \in HandlerRecords /\ IdleHandler.pc = "free"
  BY IngestAssumption DEF IdleHandler, HandlerRecords
<1> QED BY <1>1 DEF IngestTypeOK, End, Moved

LEMMA Advanced ==
  ASSUME IngestTypeOK, NEW h \in Handlers,
         NEW pc \in {"previous", "store", "save", "end"}, NEW read \in 0..MaxFixes,
         \/ GoTo(h, pc)
         \/ handler' = [handler EXCEPT ![h].pc = pc, ![h].previous = read]
  PROVE  /\ Moved(h, pc)
         /\ GoTo(h, pc) \/ handler'[h].previous = read
<1> DEFINE r == [handler[h] EXCEPT !.pc = pc]
           s == [handler[h] EXCEPT !.pc = pc, !.previous = read]
<1>1. handler[h] \in HandlerRecords
  BY DEF IngestTypeOK
<1>2. /\ r \in HandlerRecords /\ r.pc = pc /\ r.kind = handler[h].kind
      /\ r.fix = handler[h].fix
  BY <1>1 DEF HandlerRecords
<1>3. /\ s \in HandlerRecords /\ s.pc = pc /\ s.kind = handler[h].kind
      /\ s.fix = handler[h].fix /\ s.previous = read
  BY <1>1 DEF HandlerRecords
<1>4. handler' = [handler EXCEPT ![h] = r] \/ handler' = [handler EXCEPT ![h] = s]
  BY DEF GoTo, IngestTypeOK
<1>5. GoTo(h, pc) \/ handler' = [handler EXCEPT ![h] = s]
  BY DEF IngestTypeOK
<1> HIDE DEF r, s
<1> QED BY <1>2, <1>3, <1>4, <1>5 DEF IngestTypeOK, Moved

LEMMA Answered ==
  ASSUME IngestTypeOK, NEW h \in Handlers, NEW state \in {"replied", "done"},
         handler[h].pc # "free", HandlerInv(h), Answer(h, state)
  PROVE  /\ publish' \in [Fixes -> {"untaken", "posting", "posted", "replied", "done"}]
         /\ \A fix \in Fixes :
              \/ publish'[fix] = publish[fix]
              \/ publish'[fix] = state /\ handler[h].kind = "http" /\ fix = handler[h].fix
BY DEF IngestTypeOK, Answer, Tell, HandlerInv

-----------------------------------------------------------------------------
(* A step that does not touch the key keeps what is known of the others.    *)

LEMMA KeyKept ==
  ASSUME IngestInv, UNCHANGED <<current, gone, pastVars>>, IngestTypeOK',
         NEW h \in Handlers, Validated(h)', HandlerInv(h)',
         \A k \in Handlers \ {h} : handler'[k] = handler[k],
         \A fix \in Fixes : publish'[fix] = "replied" =>
                              publish[fix] = "replied" \/ Published(fix),
         \A i \in DOMAIN wire' : Published(wire'[i]),
         BroadcastNeedsLoss'
  PROVE  IngestInv'
<1> USE DEF pastVars
<1>1. OrderInv'
  <2>1. \A k \in Handlers : Validated(k)'
    BY DEF IngestInv, OrderInv, Validated
  <2> QED BY <2>1 DEF IngestInv, OrderInv, CurrentIsNewest
<1>2. SocketInv'
  <2>1. \A k \in Handlers : HandlerInv(k)'
    BY DEF IngestInv, SocketInv, HandlerInv, Published
  <2> QED BY <2>1 DEF IngestInv, SocketInv, Published
<1> QED BY <1>1, <1>2 DEF IngestInv

LEMMA PageInv ==
  ASSUME IngestInv, NEW fix \in Fixes, takeFix(fix) \/ sendLocationUpdate(fix)
  PROVE  IngestInv'
<1> USE DEF IngestInv, serverVars, boundVars, pastVars
<1>1. UNCHANGED <<current, history, handler, broadcasts, gone, failures, written, overtaken>>
  BY DEF takeFix, sendLocationUpdate
<1>2. /\ publish' \in [Fixes -> {"untaken", "posting", "posted", "replied", "done"}]
      /\ \A f \in Fixes : publish'[f] = "replied" => publish[f] = "replied"
  BY DEF takeFix, sendLocationUpdate, Tell, IngestTypeOK
<1>3. wire' \in Seq(Fixes) /\ \A i \in DOMAIN wire' : Published(wire'[i])
  <2>1. CASE takeFix(fix)
    BY <2>1 DEF takeFix, IngestTypeOK, SocketInv
  <2>2. CASE sendLocationUpdate(fix)
    <3>1. Published(fix) /\ wire' = Append(wire, fix) /\ wire \in Seq(Fixes)
      BY <2>2 DEF sendLocationUpdate, SocketInv, IngestTypeOK
    <3>2. /\ Append(wire, fix) \in Seq(Fixes) /\ Len(wire) \in Nat
          /\ DOMAIN wire = 1..Len(wire)
          /\ DOMAIN Append(wire, fix) = 1..(Len(wire) + 1)
          /\ \A i \in 1..Len(wire) : Append(wire, fix)[i] = wire[i]
          /\ Append(wire, fix)[Len(wire) + 1] = fix
      BY <3>1, AppendProperties, LenProperties
    <3>3. ASSUME NEW i \in DOMAIN wire'
          PROVE  Published(wire'[i])
      <4>1. i = Len(wire) + 1 \/ i \in DOMAIN wire
        BY <3>1, <3>2
      <4> QED BY <3>1, <3>2, <4>1 DEF SocketInv
    <3> QED BY <3>1, <3>2, <3>3
  <2> QED BY <2>1, <2>2
<1>4. IngestTypeOK'
  BY <1>1, <1>2, <1>3 DEF IngestTypeOK
<1>5. OrderInv'
  BY <1>1 DEF OrderInv, Validated, CurrentIsNewest
<1>6. SocketInv'
  <2>1. \A h \in Handlers : HandlerInv(h)'
    BY <1>1 DEF SocketInv, HandlerInv, Published
  <2>2. BroadcastNeedsLoss'
    BY <1>1 DEF SocketInv, BroadcastNeedsLoss
  <2>3. \A f : Published(f)' <=> Published(f)
    BY <1>1 DEF Published
  <2>4. (\A i \in DOMAIN wire : Published(wire[i]))'
    BY <1>1, <1>3 DEF Published
  <2>5. \A f \in Fixes : publish'[f] = "replied" => Published(f)'
    BY <1>2, <2>3 DEF SocketInv
  <2> QED BY <2>1, <2>2, <2>4, <2>5 DEF SocketInv
<1> QED BY <1>4, <1>5, <1>6

LEMMA BeginInv ==
  ASSUME IngestInv, NEW h \in Handlers,
         (\E fix \in Fixes : publishLocation(h, fix)) \/ handleLocationUpdate(h)
  PROVE  IngestInv'
<1> USE DEF IngestInv, boundVars, pastVars
<1>1. UNCHANGED <<current, history, broadcasts, gone, failures, written, overtaken>>
  BY DEF publishLocation, handleLocationUpdate
<1>2. BroadcastNeedsLoss'
  BY <1>1 DEF SocketInv, BroadcastNeedsLoss
<1>3. CASE \E fix \in Fixes : publishLocation(h, fix)
  <2>1. PICK fix \in Fixes : publishLocation(h, fix)
    BY <1>3
  <2> DEFINE local == [kind |-> "http", pc |-> "limit", fix |-> fix, previous |-> 0]
  <2>2. /\ local \in HandlerRecords /\ local.pc = "limit" /\ local.fix = fix
        /\ local.kind = "http"
    BY IngestAssumption DEF HandlerRecords, Fixes
  <2>3. handler' = [handler EXCEPT ![h] = local]
    BY <2>1 DEF publishLocation, Begin
  <2> HIDE DEF local
  <2>4. /\ handler' \in [Handlers -> HandlerRecords] /\ handler'[h] = local
        /\ \A k \in Handlers \ {h} : handler'[k] = handler[k]
    BY <2>2, <2>3 DEF IngestTypeOK
  <2>5. /\ publish' \in [Fixes -> {"untaken", "posting", "posted", "replied", "done"}]
        /\ \A f \in Fixes : publish'[f] = "replied" => publish[f] = "replied"
        /\ wire' = wire
    BY <2>1 DEF publishLocation, Tell, IngestTypeOK
  <2>6. IngestTypeOK'
    BY <1>1, <2>4, <2>5 DEF IngestTypeOK
  <2>7. Validated(h)' /\ HandlerInv(h)'
    BY <2>2, <2>4 DEF Validated, HandlerInv
  <2> QED BY <1>1, <1>2, <2>4, <2>5, <2>6, <2>7, KeyKept DEF SocketInv
<1>4. CASE handleLocationUpdate(h)
  <2> DEFINE local == [kind |-> "socket", pc |-> "previous", fix |-> Head(wire),
                       previous |-> 0]
  <2>1. /\ wire \in Seq(Fixes) /\ wire # <<>> /\ wire' = Tail(wire)
        /\ publish' = publish /\ handler' = [handler EXCEPT ![h] = local]
    BY <1>4 DEF handleLocationUpdate, Begin, IngestTypeOK
  <2>2. /\ Head(wire) \in Fixes /\ Head(wire) = wire[1] /\ 1 \in DOMAIN wire
        /\ Tail(wire) \in Seq(Fixes)
        /\ \A i \in DOMAIN Tail(wire) : i + 1 \in DOMAIN wire /\ Tail(wire)[i] = wire[i + 1]
    <3>1. /\ Head(wire) \in Fixes /\ Tail(wire) \in Seq(Fixes)
          /\ Len(wire) \in Nat \ {0} /\ Len(Tail(wire)) = Len(wire) - 1
          /\ \A i \in 1..(Len(wire) - 1) : Tail(wire)[i] = wire[i + 1]
      BY <2>1, HeadTailProperties, EmptySeq, LenProperties
    <3>2. DOMAIN wire = 1..Len(wire) /\ DOMAIN Tail(wire) = 1..(Len(wire) - 1)
      BY <2>1, <3>1, LenProperties
    <3> QED BY <2>1, <3>1, <3>2
  <2>3. /\ local \in HandlerRecords /\ local.pc = "previous" /\ local.fix = Head(wire)
        /\ local.kind = "socket"
    BY <2>2, IngestAssumption DEF HandlerRecords, Fixes
  <2> HIDE DEF local
  <2>4. /\ handler' \in [Handlers -> HandlerRecords] /\ handler'[h] = local
        /\ \A k \in Handlers \ {h} : handler'[k] = handler[k]
    BY <2>1, <2>3 DEF IngestTypeOK
  <2>5. IngestTypeOK'
    BY <1>1, <2>1, <2>2, <2>4 DEF IngestTypeOK
  <2>6. Published(Head(wire)) /\ \A i \in DOMAIN wire' : Published(wire'[i])
    BY <2>1, <2>2 DEF SocketInv
  <2>7. Validated(h)' /\ HandlerInv(h)'
    BY <1>1, <2>2, <2>3, <2>4, <2>6 DEF Validated, HandlerInv, Published
  <2> QED BY <1>1, <1>2, <2>1, <2>4, <2>5, <2>6, <2>7, KeyKept
<1> QED BY <1>3, <1>4

\* Validation: a fix that the socket brought is refused while its POST's write counts.
LEMMA ValidateInv ==
  ASSUME IngestInv, NEW h \in Handlers, assertWithinLimit(h) \/ validateUpdate(h)
  PROVE  IngestInv'
<1> USE DEF IngestInv, boundVars, pastVars
<1>1. UNCHANGED <<wire, current, history, broadcasts, gone, failures, written, overtaken>>
      /\ handler[h].pc \in {"limit", "previous"} /\ HandlerInv(h)
  BY DEF assertWithinLimit, validateUpdate, SocketInv
<1>2. BroadcastNeedsLoss'
  BY <1>1 DEF SocketInv, BroadcastNeedsLoss
<1>3. \A i \in DOMAIN wire' : Published(wire'[i])
  BY <1>1 DEF SocketInv
<1>4. CASE Refuse(h)
  <2>1. Moved(h, "free")
    BY <1>4, Gone DEF Refuse
  <2>2. /\ publish' \in [Fixes -> {"untaken", "posting", "posted", "replied", "done"}]
        /\ \A f \in Fixes : publish'[f] = "replied" => publish[f] = "replied"
    BY <1>1, <1>4, Answered DEF Refuse
  <2>3. IngestTypeOK'
    BY <1>1, <2>1, <2>2 DEF IngestTypeOK, Moved
  <2>4. Validated(h)' /\ HandlerInv(h)'
    BY <2>1 DEF Moved, Validated, HandlerInv
  <2> QED BY <1>1, <1>2, <1>3, <2>1, <2>2, <2>3, <2>4, KeyKept DEF Moved
<1>5. CASE ~Refuse(h) /\ assertWithinLimit(h)
  <2>1. Moved(h, "previous") /\ publish' = publish
    <3>1. GoTo(h, "previous") /\ publish' = publish /\ 0 \in 0..MaxFixes
      BY <1>5, IngestAssumption DEF assertWithinLimit
    <3> QED BY <3>1, Advanced
  <2>2. IngestTypeOK'
    BY <1>1, <2>1 DEF IngestTypeOK, Moved
  <2>3. handler[h].pc = "limit" /\ handler[h].kind = "http"
    BY <1>1, <1>5 DEF assertWithinLimit, HandlerInv
  <2>4. Validated(h)' /\ HandlerInv(h)'
    BY <1>1, <1>5, <2>1, <2>3 DEF Moved, Validated, HandlerInv
  <2> QED BY <1>1, <1>2, <1>3, <2>1, <2>2, <2>4, KeyKept DEF Moved
<1>6. CASE ~Refuse(h) /\ validateUpdate(h)
  <2> DEFINE fix == handler[h].fix
  <2>1. /\ handler' = [handler EXCEPT ![h].pc = "store", ![h].previous = current]
        /\ publish' = publish /\ current \in 0..MaxFixes
        /\ ~(current # 0 /\ fix <= current)
    BY <1>6 DEF validateUpdate, IngestTypeOK
  <2>2. Moved(h, "store") /\ (GoTo(h, "store") \/ handler'[h].previous = current)
    BY <2>1, Advanced
  <2>3. handler'[h].previous = current
    BY <2>1 DEF IngestTypeOK, HandlerRecords
  <2>4. IngestTypeOK'
    BY <1>1, <2>1, <2>2 DEF IngestTypeOK, Moved
  <2>5. fix \in Fixes /\ current \in Nat /\ fix \in Nat
    BY <1>1, <2>1, IngestAssumption DEF HandlerInv, Fixes
  <2>6. Validated(h)'
    BY <2>1, <2>2, <2>3, <2>5 DEF Moved, Validated
  <2>7. handler[h].kind = "socket" => gone > 0 \/ overtaken
    <3>1. handler[h].kind = "socket" => Published(fix)
      BY <1>1, <1>6 DEF validateUpdate, HandlerInv
    <3> QED BY <2>1, <2>5, <3>1 DEF Published, OrderInv, CurrentIsNewest
  <2>8. HandlerInv(h)'
    BY <1>1, <2>2, <2>5, <2>7 DEF Moved, HandlerInv
  <2> QED BY <1>1, <1>2, <1>3, <2>1, <2>2, <2>4, <2>6, <2>8, KeyKept DEF Moved
<1> QED BY <1>4, <1>5, <1>6 DEF Refuse

LEMMA StoreInv ==
  ASSUME IngestInv, NEW h \in Handlers, setCurrentLocation(h)
  PROVE  IngestInv'
<1> USE DEF IngestInv, boundVars
<1> DEFINE fix == handler[h].fix
<1>1. /\ UNCHANGED <<publish, wire, history, broadcasts, gone, failures>>
      /\ current' = fix /\ written' = written \cup {fix}
      /\ overtaken' = (overtaken \/ current \notin {0, handler[h].previous})
      /\ handler[h].pc = "store" /\ fix \in Fixes /\ HandlerInv(h) /\ Validated(h)
  BY DEF setCurrentLocation, SocketInv, OrderInv, HandlerInv
<1>2. Moved(h, "save")
  <2>1. GoTo(h, "save") /\ 0 \in 0..MaxFixes
    BY IngestAssumption DEF setCurrentLocation
  <2> QED BY <2>1, Advanced
<1>3. IngestTypeOK'
  <2>1. overtaken' \in BOOLEAN
    BY <1>1, Zenon DEF IngestTypeOK
  <2>2. current' \in 0..MaxFixes
    BY <1>1, IngestAssumption DEF Fixes
  <2>3. written' \subseteq Fixes
    BY <1>1 DEF IngestTypeOK
  <2> QED BY <1>1, <1>2, <2>1, <2>2, <2>3 DEF IngestTypeOK, Moved
<1>4. OrderInv'
  <2>1. \A k \in Handlers : Validated(k)'
    BY <1>2 DEF Moved, OrderInv, Validated
  <2>2. current' # 0
    BY <1>1 DEF Fixes
  <2>3. ASSUME ~overtaken', NEW f \in written'
        PROVE  f <= current'
    <3>1. ~overtaken /\ current \in {0, handler[h].previous}
      BY <1>1, <2>3
    <3>2. f \in Nat /\ fix \in Nat /\ current \in Nat /\ fix # 0
      BY <1>1, <2>3, <1>3, IngestAssumption DEF IngestTypeOK, Fixes
    <3>3. CASE current = 0
      BY <1>1, <2>3, <3>2, <3>3 DEF OrderInv
    <3>4. CASE current # 0
      <4>1. fix > current
        BY <1>1, <3>1, <3>4 DEF Validated
      <4>2. f = fix \/ f <= current
        BY <1>1, <2>3, <3>1 DEF OrderInv, CurrentIsNewest
      <4> QED BY <1>1, <3>2, <4>1, <4>2
    <3> QED BY <3>3, <3>4
  <2> QED BY <2>1, <2>2, <2>3 DEF OrderInv, CurrentIsNewest
<1>5. \A f : Published(f) => Published(f)'
  BY <1>1 DEF Published
<1>6. SocketInv'
  <2>1. HandlerInv(h)'
    <3>1. overtaken => overtaken'
      BY <1>1
    <3>2. handler'[h].pc = "save" /\ handler'[h].fix = fix
          /\ handler'[h].kind = handler[h].kind
      BY <1>2 DEF Moved
    <3>3. Published(handler[h].fix)'
      BY <1>1, <3>2 DEF Published
    <3> QED BY <1>1, <3>1, <3>2, <3>3 DEF HandlerInv
  <2>2. ASSUME NEW k \in Handlers \ {h}
        PROVE  HandlerInv(k)'
    <3>1. handler'[k] = handler[k] /\ HandlerInv(k) /\ (overtaken => overtaken')
      BY <1>1, <1>2 DEF Moved, SocketInv
    <3>2. Published(handler[k].fix) => Published(handler[k].fix)'
      BY <1>1, <3>1 DEF Published
    <3> QED BY <1>1, <3>1, <3>2 DEF HandlerInv
  <2>3. BroadcastNeedsLoss'
    BY <1>1 DEF SocketInv, BroadcastNeedsLoss
  <2>4. (\A i \in DOMAIN wire : Published(wire[i]))'
    BY <1>1 DEF SocketInv, Published
  <2>5. (\A f \in Fixes : publish[f] = "replied" => Published(f))'
    BY <1>1, <1>5 DEF SocketInv
  <2> QED BY <2>1, <2>2, <2>3, <2>4, <2>5 DEF SocketInv
<1> QED BY <1>3, <1>4, <1>6

LEMMA SaveInv ==
  ASSUME IngestInv, NEW h \in Handlers, saveEntry(h)
  PROVE  IngestInv'
<1> USE DEF IngestInv, boundVars, pastVars
<1>1. UNCHANGED <<publish, wire, current, broadcasts, gone, failures, written, overtaken>>
      /\ history' = history \cup {handler[h].fix} /\ handler[h].pc = "save"
      /\ HandlerInv(h)
  BY DEF saveEntry, SocketInv
<1>2. Moved(h, "end")
  <2>1. GoTo(h, "end") /\ 0 \in 0..MaxFixes
    BY IngestAssumption DEF saveEntry
  <2> QED BY <2>1, Advanced
<1>3. IngestTypeOK'
  BY <1>1, <1>2 DEF IngestTypeOK, Moved, HandlerInv
<1>4. Validated(h)' /\ HandlerInv(h)'
  BY <1>1, <1>2 DEF Moved, Validated, HandlerInv, Published
<1>5. BroadcastNeedsLoss' /\ \A i \in DOMAIN wire' : Published(wire'[i])
  BY <1>1 DEF SocketInv, BroadcastNeedsLoss
<1> QED BY <1>1, <1>2, <1>3, <1>4, <1>5, KeyKept DEF Moved

\* The broadcast: a handler that reached it has met a lost or older key.
LEMMA ConcludeInv ==
  ASSUME IngestInv, NEW h \in Handlers, Conclude(h)
  PROVE  IngestInv'
<1> USE DEF IngestInv, boundVars, pastVars
<1>1. UNCHANGED <<wire, current, history, gone, failures, written, overtaken>>
      /\ handler[h].pc = "end" /\ HandlerInv(h) /\ Answer(h, "replied")
  BY DEF Conclude, SocketInv
<1>2. Moved(h, "free")
  BY Gone DEF Conclude
<1>3. /\ publish' \in [Fixes -> {"untaken", "posting", "posted", "replied", "done"}]
      /\ \A f \in Fixes : publish'[f] = "replied" => publish[f] = "replied" \/ Published(f)
  <2>1. /\ publish' \in [Fixes -> {"untaken", "posting", "posted", "replied", "done"}]
        /\ \A f \in Fixes :
             \/ publish'[f] = publish[f]
             \/ handler[h].kind = "http" /\ f = handler[h].fix
    BY <1>1, Answered
  <2> QED BY <1>1, <2>1 DEF HandlerInv
<1>4. broadcasts' \subseteq Fixes /\ BroadcastNeedsLoss'
  BY <1>1 DEF Conclude, IngestTypeOK, HandlerInv, SocketInv, BroadcastNeedsLoss
<1>5. IngestTypeOK'
  BY <1>1, <1>2, <1>3, <1>4 DEF IngestTypeOK, Moved
<1>6. Validated(h)' /\ HandlerInv(h)'
  BY <1>2 DEF Moved, Validated, HandlerInv
<1>7. \A i \in DOMAIN wire' : Published(wire'[i])
  BY <1>1 DEF SocketInv
<1> QED BY <1>1, <1>2, <1>3, <1>4, <1>5, <1>6, <1>7, KeyKept DEF Moved

LEMMA FailInv ==
  ASSUME IngestInv, NEW h \in Handlers, Fail(h)
  PROVE  IngestInv'
<1> USE DEF IngestInv, pastVars
<1>1. UNCHANGED <<wire, current, history, broadcasts, gone, written, overtaken>>
      /\ handler[h].pc # "free" /\ HandlerInv(h) /\ End(h) /\ Answer(h, "done")
      /\ failures' \in 0..MaxFailures
  BY IngestAssumption DEF Fail, Refuse, SocketInv, IngestTypeOK
<1>2. Moved(h, "free")
  BY <1>1, Gone
<1>3. /\ publish' \in [Fixes -> {"untaken", "posting", "posted", "replied", "done"}]
      /\ \A f \in Fixes : publish'[f] = "replied" => publish[f] = "replied"
  BY <1>1, Answered
<1>4. IngestTypeOK'
  BY <1>1, <1>2, <1>3 DEF IngestTypeOK, Moved
<1>5. Validated(h)' /\ HandlerInv(h)'
  BY <1>2 DEF Moved, Validated, HandlerInv
<1>6. BroadcastNeedsLoss' /\ \A i \in DOMAIN wire' : Published(wire'[i])
  BY <1>1 DEF SocketInv, BroadcastNeedsLoss
<1> QED BY <1>1, <1>2, <1>3, <1>4, <1>5, <1>6, KeyKept DEF Moved

LEMMA LoseKeyInv ==
  ASSUME IngestInv, LoseKey
  PROVE  IngestInv'
<1> USE DEF IngestInv
<1>1. UNCHANGED <<publish, wire, history, handler, broadcasts, failures, overtaken>>
      /\ gone' = gone + 1 /\ gone' \in 0..MaxGone /\ gone' > 0
      /\ current' = 0 /\ written' = {}
  BY IngestAssumption DEF LoseKey, IngestTypeOK
<1>2. IngestTypeOK'
  BY <1>1, IngestAssumption DEF IngestTypeOK
<1>3. OrderInv'
  BY <1>1 DEF OrderInv, Validated, CurrentIsNewest
<1>4. SocketInv'
  BY <1>1 DEF SocketInv, HandlerInv, Published, BroadcastNeedsLoss
<1> QED BY <1>2, <1>3, <1>4

LEMMA IngestStepInv ==
  ASSUME IngestInv, [IngestNext]_ingestVars
  PROVE  IngestInv'
<1>1. CASE IngestNext
  BY <1>1, PageInv, BeginInv, ValidateInv, StoreInv, SaveInv, ConcludeInv, FailInv,
     LoseKeyInv
  DEF IngestNext
<1>2. CASE UNCHANGED ingestVars
  BY <1>2
  DEF ingestVars, IngestInv, IngestTypeOK, OrderInv, Validated, CurrentIsNewest,
      SocketInv, HandlerInv, Published, BroadcastNeedsLoss
<1> QED BY <1>1, <1>2

LEMMA IngestInvariant == IngestSpec => []IngestInv
BY IngestInitInv, IngestStepInv, PTL DEF IngestSpec

\* The page, the socket, the two stores and the handlers keep their types.
THEOREM IngestTypeCorrect == IngestSpec => []IngestTypeOK
<1>1. IngestInv => IngestTypeOK
  BY DEF IngestInv
<1> QED BY <1>1, IngestInvariant, PTL

\* The order check of validateUpdate keeps the newest location current, but for
\* handlers that cross between their read and their write.
THEOREM NewestIsCurrent == IngestSpec => []CurrentIsNewest
<1>1. IngestInv => CurrentIsNewest
  BY DEF IngestInv, OrderInv
<1> QED BY <1>1, IngestInvariant, PTL

\* startGeolocation sends over the socket only what it has published, so that
\* handleLocationUpdate refuses it: without a lost key or a crossing nothing that
\* the web client sends is ever broadcast.
THEOREM NothingIsBroadcast == IngestSpec => []BroadcastNeedsLoss
<1>1. IngestInv => BroadcastNeedsLoss
  BY DEF IngestInv, SocketInv
<1> QED BY <1>1, IngestInvariant, PTL

-----------------------------------------------------------------------------
(* The history.  The third clause of HistoryKeepsUp names the handler that is *)
(* between the two writes; what is missing for the first two is that a        *)
(* handler which has come to its end has saved its fix.                       *)

HistoryInv ==
  /\ HistoryKeepsUp
  /\ \A h \in Handlers : handler[h].pc = "end" => handler[h].fix \in history

\* A step of handler h that is not one of its two writes.
LEMMA HistoryKept ==
  ASSUME HistoryInv, UNCHANGED <<history, current, failures>>, NEW h \in Handlers,
         handler[h].pc # "save", handler'[h].pc # "end",
         \A k \in Handlers \ {h} : handler'[k] = handler[k],
         broadcasts' \subseteq history,
         \A fix \in Fixes : publish'[fix] = "replied" =>
                              publish[fix] = "replied" \/ fix \in history
  PROVE  HistoryInv'
<1>1. current # 0 /\ current \notin history /\ failures = 0 =>
        \E k \in Handlers : handler'[k].pc = "save" /\ handler'[k].fix = current
  BY DEF HistoryInv, HistoryKeepsUp
<1>2. \A fix \in Fixes : publish'[fix] = "replied" => fix \in history
  BY DEF HistoryInv, HistoryKeepsUp
<1> QED BY <1>1, <1>2 DEF HistoryInv, HistoryKeepsUp

LEMMA HistoryPageInv ==
  ASSUME IngestInv, HistoryInv, NEW fix \in Fixes,
         takeFix(fix) \/ sendLocationUpdate(fix)
  PROVE  HistoryInv'
<1>1. UNCHANGED <<history, current, failures, handler, broadcasts>>
  BY DEF takeFix, sendLocationUpdate, serverVars, boundVars
<1>2. \A f \in Fixes : publish'[f] = "replied" => publish[f] = "replied"
  BY DEF takeFix, sendLocationUpdate, Tell, IngestInv, IngestTypeOK
<1> QED BY <1>1, <1>2 DEF HistoryInv, HistoryKeepsUp

LEMMA HistoryBeginInv ==
  ASSUME IngestInv, HistoryInv, NEW h \in Handlers,
         (\E fix \in Fixes : publishLocation(h, fix)) \/ handleLocationUpdate(h)
  PROVE  HistoryInv'
<1>1. /\ UNCHANGED <<history, current, failures, broadcasts>>
      /\ handler[h].pc = "free" /\ handler'[h].pc \in {"limit", "previous"}
      /\ \A k \in Handlers \ {h} : handler'[k] = handler[k]
  BY DEF publishLocation, handleLocationUpdate, Begin, boundVars, IngestInv, IngestTypeOK
<1>2. \A f \in Fixes : publish'[f] = "replied" => publish[f] = "replied"
  BY DEF publishLocation, handleLocationUpdate, Tell, IngestInv, IngestTypeOK
<1> QED BY <1>1, <1>2, HistoryKept DEF HistoryInv, HistoryKeepsUp

LEMMA HistoryValidateInv ==
  ASSUME IngestInv, HistoryInv, NEW h \in Handlers, assertWithinLimit(h) \/ validateUpdate(h)
  PROVE  HistoryInv'
<1>1. UNCHANGED <<history, current, failures, broadcasts>> /\ handler[h].pc \in {"limit", "previous"}
  BY DEF assertWithinLimit, validateUpdate, boundVars
<1>2. CASE Refuse(h)
  <2>1. Moved(h, "free")
    BY <1>2, Gone DEF Refuse, IngestInv
  <2>2. \A f \in Fixes : publish'[f] = "replied" => publish[f] = "replied"
    BY <1>1, <1>2, Answered DEF Refuse, IngestInv, SocketInv
  <2> QED BY <1>1, <2>1, <2>2, HistoryKept DEF Moved, HistoryInv, HistoryKeepsUp
<1>3. CASE ~Refuse(h)
  <2>1. /\ handler'[h].pc \in {"previous", "store"} /\ publish' = publish
        /\ \A k \in Handlers \ {h} : handler'[k] = handler[k]
    BY <1>3 DEF assertWithinLimit, validateUpdate, GoTo, IngestInv, IngestTypeOK,
                HandlerRecords
  <2> QED BY <1>1, <2>1, HistoryKept DEF HistoryInv, HistoryKeepsUp
<1> QED BY <1>2, <1>3

\* The two writes: the handler is the witness after the first one, and is not
\* needed any more after the second.
LEMMA HistoryWriteInv ==
  ASSUME IngestInv, HistoryInv, NEW h \in Handlers, setCurrentLocation(h) \/ saveEntry(h)
  PROVE  HistoryInv'
<1>0. 0 \in 0..MaxFixes /\ IngestTypeOK
  BY IngestAssumption DEF IngestInv
<1>1. CASE setCurrentLocation(h)
  <2>1. /\ UNCHANGED <<publish, history, broadcasts>> /\ current' = handler[h].fix
        /\ GoTo(h, "save")
    BY <1>1 DEF setCurrentLocation
  <2>2. Moved(h, "save")
    BY <1>0, <2>1, Advanced
  <2> QED BY <2>1, <2>2 DEF Moved, HistoryInv, HistoryKeepsUp
<1>2. CASE saveEntry(h)
  <2>1. /\ UNCHANGED <<publish, current, broadcasts, failures>>
        /\ history' = history \cup {handler[h].fix} /\ GoTo(h, "end")
    BY <1>2 DEF saveEntry, boundVars
  <2>2. Moved(h, "end")
    BY <1>0, <2>1, Advanced
  <2> QED BY <2>1, <2>2 DEF Moved, HistoryInv, HistoryKeepsUp
<1> QED BY <1>1, <1>2

LEMMA HistoryConcludeInv ==
  ASSUME IngestInv, HistoryInv, NEW h \in Handlers, Conclude(h)
  PROVE  HistoryInv'
<1>1. /\ UNCHANGED <<history, current, failures>> /\ handler[h].pc = "end"
      /\ handler[h].fix \in history /\ Answer(h, "replied") /\ End(h)
      /\ broadcasts' \subseteq history
  BY DEF Conclude, boundVars, HistoryInv, HistoryKeepsUp
<1>2. Moved(h, "free")
  BY <1>1, Gone DEF IngestInv
<1>3. \A f \in Fixes : publish'[f] = "replied" => publish[f] = "replied" \/ f \in history
  BY <1>1, Answered DEF IngestInv, SocketInv
<1> QED BY <1>1, <1>2, <1>3, HistoryKept DEF Moved

LEMMA HistoryFailInv ==
  ASSUME IngestInv, HistoryInv, NEW h \in Handlers, Fail(h)
  PROVE  HistoryInv'
<1>1. /\ UNCHANGED <<history, current, broadcasts>> /\ failures' # 0
      /\ End(h) /\ Answer(h, "done") /\ handler[h].pc # "free"
  BY IngestAssumption DEF Fail, Refuse, IngestInv, IngestTypeOK
<1>2. Moved(h, "free")
  BY <1>1, Gone DEF IngestInv
<1>3. \A f \in Fixes : publish'[f] = "replied" => publish[f] = "replied"
  BY <1>1, Answered DEF IngestInv, SocketInv
<1> QED BY <1>1, <1>2, <1>3 DEF Moved, HistoryInv, HistoryKeepsUp

LEMMA HistoryStepInv ==
  ASSUME IngestInv, HistoryInv, [IngestNext]_ingestVars
  PROVE  HistoryInv'
<1>1. CASE LoseKey
  BY <1>1 DEF LoseKey, HistoryInv, HistoryKeepsUp
<1>2. CASE UNCHANGED ingestVars
  BY <1>2 DEF ingestVars, HistoryInv, HistoryKeepsUp
<1> QED
  BY <1>1, <1>2, HistoryPageInv, HistoryBeginInv, HistoryValidateInv, HistoryWriteInv,
     HistoryConcludeInv, HistoryFailInv
  DEF IngestNext

\* saveHistoryEntry is awaited before the answer and before the broadcast: whoever is
\* told that a location was taken finds it in the history, and a current location
\* without a row has a handler at work on it or lost it to a failure.
THEOREM HistoryIsKept == IngestSpec => []HistoryKeepsUp
<1>1. IngestInit => HistoryInv
  BY DEF IngestInit, HistoryInv, HistoryKeepsUp, IdleHandler
<1>2. IngestInv /\ HistoryInv /\ [IngestNext]_ingestVars => HistoryInv'
  BY HistoryStepInv
<1>3. HistoryInv => HistoryKeepsUp
  BY DEF HistoryInv
<1> QED BY <1>1, <1>2, <1>3, IngestInvariant, PTL DEF IngestSpec
=============================================================================
