-------------------------- MODULE AdmissionProofs --------------------------
(***************************************************************************)
(* For every limit, window, clock skew, speed and number of handlers: how   *)
(* many POSTs pass the limit within a window, that the stored location does *)
(* not jump unless handlers overtake each other, and when a counter can be  *)
(* left without an expiry.                                                  *)
(***************************************************************************)
EXTENDS Admission, FiniteSetTheorems, TLAPS

HandlerRecords == [pc : {"free", "expire", "previous", "store"}, n : Counts,
                   location : Locations \cup {Nowhere}, overtaken : BOOLEAN]

(* What a handler in the local state l has made sure of, against cur as the  *)
(* stored location: it was validated against it, unless it was overtaken, and *)
(* as time goes on the two can only meet where ages are no longer told apart. *)
Sound(l, cur) ==
  /\ l.pc = "free" => l.location = Nowhere
  /\ l.pc # "free" => l.location \in Locations /\ l.location.age <= Held
  /\ l.pc = "expire" => l.n = 1
  /\ l.pc = "store" =>
       /\ l.location.age >= -Skew
       /\ \/ l.overtaken \/ cur = Nowhere
          \/ Plausible(l.location, cur) \/ l.location = cur

Expiring == \E h \in Handlers : handler[h].pc = "expire"

(* Whoever is to set the expiry of the key is alone, the key has none before, *)
(* and it stays without one only if that handler failed.                      *)
KeyInv ==
  /\ \A g, h \in Handlers :
       handler[g].pc = "expire" /\ handler[h].pc = "expire" => g = h
  /\ Expiring => count > 0 /\ ttl = 0
  /\ count > 0 /\ ttl = 0 => Expiring \/ expiryLost

\* Of the POSTs in ps no two got the same number.
Numbered(ps, ns) ==
  /\ \A p \in ps : p[2] \in ns
  /\ \A p, q \in ps : p[2] = q[2] => p = q

(* The POSTs admitted within the window are of the present key or, before, of *)
(* the last one: its first POST, with which its expiry was set, is out of the *)
(* window when it expires, and so is every POST of the keys before it.        *)
Split(before) ==
  LET present == admitted \ before IN
  /\ Numbered(before, 2..Limit) /\ \A p \in before : p[1] > 0
  /\ Numbered(present, 1..Limit)
  /\ \A p \in present : p[2] <= count
  /\ Expiring => \A p \in present : p[2] # 1
  /\ ttl > 0 => /\ \A p \in before : p[1] >= Window - ttl
                /\ \A p \in present : p[2] = 1 => p[1] >= Window - ttl

WindowInv == \E before \in SUBSET admitted : Split(before)

AdmInv ==
  /\ AdmissionTypeOK
  /\ \A h \in Handlers : Sound(handler[h], current)
  /\ KeyInv
  /\ WindowInv

-----------------------------------------------------------------------------
(* Types.                                                                   *)

LEMMA CountsTyped ==
  /\ Counts \subseteq Nat /\ 0 \in Counts /\ 1 \in Counts
  /\ \A n \in Nat : n <= Limit => n \in Counts /\ n + 1 \in Counts
<1>1. Cardinality(Handlers) \in Nat
  BY FS_CardinalityType, AdmissionAssumption
<1> QED BY <1>1, AdmissionAssumption DEF Counts

LEMMA NowhereTyped ==
  /\ Nowhere \notin Locations
  /\ Older(Nowhere) = Nowhere
  /\ Free \in HandlerRecords /\ Free.pc = "free" /\ Free.location = Nowhere
  /\ Free.overtaken = FALSE
<1>1. Nowhere \notin Locations /\ Older(Nowhere) = Nowhere
  BY AdmissionAssumption DEF Nowhere, Locations, Ages, Older
<1> QED BY <1>1, CountsTyped DEF Free, HandlerRecords

LEMMA HandlerAssigned ==
  ASSUME handler \in [Handlers -> HandlerRecords], NEW h \in Handlers,
         NEW r \in HandlerRecords, handler' = [handler EXCEPT ![h] = r]
  PROVE  /\ handler' \in [Handlers -> HandlerRecords]
         /\ handler'[h] = r /\ \A g \in Handlers \ {h} : handler'[g] = handler[g]
OBVIOUS

\* Go and Finish.
LEMMA Gone ==
  ASSUME handler \in [Handlers -> HandlerRecords], NEW h \in Handlers,
         NEW pc \in {"expire", "previous", "store"}, NEW n \in Counts,
         NEW location \in Locations, Go(h, pc, n, location)
  PROVE  /\ handler' \in [Handlers -> HandlerRecords]
         /\ \A g \in Handlers \ {h} : handler'[g] = handler[g]
         /\ handler'[h].pc = pc /\ handler'[h].n = n /\ handler'[h].location = location
<1> DEFINE r == [pc |-> pc, n |-> n, location |-> location, overtaken |-> FALSE]
<1>1. r \in HandlerRecords /\ r.pc = pc /\ r.n = n /\ r.location = location
  BY DEF HandlerRecords
<1>2. handler' = [handler EXCEPT ![h] = r]
  BY DEF Go
<1> HIDE DEF r
<1> QED BY <1>1, <1>2, HandlerAssigned

LEMMA Finished ==
  ASSUME handler \in [Handlers -> HandlerRecords], NEW h \in Handlers, Finish(h)
  PROVE  /\ handler' \in [Handlers -> HandlerRecords]
         /\ \A g \in Handlers \ {h} : handler'[g] = handler[g]
         /\ handler'[h] = Free
BY NowhereTyped, HandlerAssigned DEF Finish

LEMMA PlacesTyped ==
  ASSUME NEW a \in Places, NEW b \in Places
  PROVE  /\ a \in Nat /\ b \in Nat /\ Held <= Oldest
         /\ Distance(a, b) \in Nat /\ Distance(a, b) <= Oldest - Held
         /\ Distance(a, b) = 0 => a = b
<1>1. a \in Nat /\ b \in Nat /\ Held \in Nat /\ Oldest \in Nat
  BY AdmissionAssumption
<1>2. Oldest >= Held + a - b /\ Oldest >= Held + b - a /\ Oldest >= Held + a - a
  BY AdmissionAssumption
<1> QED BY <1>1, <1>2 DEF Distance

\* What the client sends is a location that a handler may hold.
LEMMA SentTyped ==
  ASSUME NEW age \in (-Skew - 1)..(MaxAge + 1), NEW place \in Places
  PROVE  /\ [age |-> age, place |-> place] \in Locations
         /\ age <= Held
BY AdmissionAssumption DEF Locations, Ages

LEMMA AdmissionInitInv == AdmissionInit => AdmInv
<1> SUFFICES ASSUME AdmissionInit
             PROVE  AdmInv
  OBVIOUS
<1>1. AdmissionTypeOK
  <2>1. 0 \in Counts /\ Free \in HandlerRecords /\ 0 \in 0..Window
    BY NowhereTyped, CountsTyped, AdmissionAssumption
  <2>2. handler \in [Handlers -> HandlerRecords]
    BY <2>1 DEF AdmissionInit
  <2> QED BY <2>1, <2>2 DEF AdmissionInit, AdmissionTypeOK, HandlerRecords
<1>2. \A h \in Handlers : Sound(handler[h], current)
  BY NowhereTyped DEF AdmissionInit, Sound
<1>3. KeyInv
  BY NowhereTyped DEF AdmissionInit, KeyInv, Expiring
<1>4. Split({})
  BY NowhereTyped DEF AdmissionInit, Split, Numbered, Expiring
<1> QED BY <1>1, <1>2, <1>3, <1>4 DEF AdmInv, WindowInv

-----------------------------------------------------------------------------
(* The stored location.                                                     *)

\* Time keeps what a handler has made sure of: the two locations age together,
\* and one that has stopped ageing can be left for any place.
LEMMA SoundAges ==
  ASSUME NEW l \in HandlerRecords, NEW cur \in Locations \cup {Nowhere}, Sound(l, cur),
         l.pc # "free" => l.location.age < Held
  PROVE  /\ [l EXCEPT !.location = Older(@)] \in HandlerRecords
         /\ [l EXCEPT !.location = Older(@)].pc = l.pc
         /\ [l EXCEPT !.location = Older(@)].n = l.n
         /\ Sound([l EXCEPT !.location = Older(@)], Older(cur))
<1> DEFINE new == l.location
           r == [l EXCEPT !.location = Older(@)]
<1>1. /\ r.pc = l.pc /\ r.n = l.n /\ r.overtaken = l.overtaken /\ r.location = Older(new)
      /\ l.pc = "free" => new = Nowhere
      /\ l.pc # "free" => new \in Locations /\ new.age < Held
  BY DEF HandlerRecords, Sound
<1>2. ASSUME NEW a \in Locations
      PROVE  /\ Older(a) \in Locations /\ Older(a).place = a.place
             /\ Older(a).age = IF a.age < Oldest THEN a.age + 1 ELSE Oldest
             /\ a.age \in Ages /\ a.place \in Places
  BY AdmissionAssumption DEF Locations, Ages, Older
<1>3. Older(new) \in Locations \cup {Nowhere} /\ r \in HandlerRecords
  <2>1. Older(new) \in Locations \cup {Nowhere}
    BY <1>1, <1>2, NowhereTyped
  <2> QED BY <1>1, <2>1 DEF HandlerRecords
<1>4. ASSUME l.pc # "free"
      PROVE  /\ new \in Locations /\ new.age < Held /\ Held <= Oldest
             /\ Older(new) \in Locations /\ Older(new).age = new.age + 1
             /\ Older(new).place = new.place
             /\ \A p \in Places : Distance(new.place, p) <= Oldest - Held
  <2>1. new \in Locations /\ new.age < Held /\ new.age \in Int /\ new.place \in Places
    BY <1>1, <1>2, <1>4, AdmissionAssumption DEF Ages
  <2>2. Held <= Oldest /\ Held \in Int /\ Oldest \in Int
    <3>1. Held <= Oldest
      BY <2>1, PlacesTyped
    <3> QED BY <3>1, AdmissionAssumption
  <2>3. \A p \in Places : Distance(new.place, p) <= Oldest - Held
    BY <2>1, PlacesTyped
  <2>4. new.age < Oldest
    BY <2>1, <2>2
  <2> QED BY <1>2, <2>1, <2>2, <2>3, <2>4
<1>5. ASSUME l.pc # "free", NEW old \in Locations, Plausible(new, old)
      PROVE  Plausible(Older(new), Older(old)) \/ Older(new) = Older(old)
  <2>1. /\ new \in Locations /\ old \in Locations
        /\ Oldest \in Int /\ Held \in Int /\ Speed \in Nat /\ Speed > 0
    BY <1>4, <1>5, AdmissionAssumption
  <2>2. /\ new.age \in Int /\ old.age \in Int /\ old.age <= Oldest
        /\ old.place \in Places /\ new.place \in Places
    BY <1>2, <2>1 DEF Ages
  <2>3. PICK a \in Int, b \in Int, d \in Nat :
          a = new.age /\ b = old.age /\ d = Distance(new.place, old.place)
    BY <2>2, PlacesTyped
  <2>4. /\ a < b /\ d <= Speed * (b - a) /\ a < Held /\ Held <= Oldest /\ b <= Oldest
        /\ d <= Oldest - Held
    BY <1>4, <1>5, <2>2, <2>3 DEF Plausible, validateSpeed
  <2>5. /\ Older(new).age = a + 1 /\ Older(new).place = new.place
        /\ Older(old).age = (IF b < Oldest THEN b + 1 ELSE Oldest)
        /\ Older(old).place = old.place
    BY <1>2, <1>4, <1>5, <2>1, <2>3
  <2>6. CASE b < Oldest
    <3>1. a + 1 < b + 1 /\ (b + 1) - (a + 1) = b - a
      BY <2>3, <2>4
    <3> QED BY <2>3, <2>4, <2>5, <2>6, <3>1 DEF Plausible, validateSpeed
  <2>7. CASE b = Oldest
    <3>1. PICK x \in Int : x = Oldest - (a + 1)
      BY <2>1, <2>3
    <3>2. x >= d
      BY <2>1, <2>3, <2>4, <3>1
    <3>3. Speed * x >= x
      BY <2>1, <2>3, <3>1, <3>2
    <3>4. d <= Speed * x /\ Speed * x \in Int
      BY <2>1, <2>3, <3>1, <3>2, <3>3
    <3>5. Older(old).age = Oldest
      BY <2>5, <2>7
    <3>6. CASE x > 0
      <4>1. a + 1 < Oldest
        BY <2>1, <2>3, <3>1, <3>6
      <4> QED BY <2>3, <2>5, <3>1, <3>4, <3>5, <4>1 DEF Plausible, validateSpeed
    <3>7. CASE x = 0
      <4>1. d = 0 /\ a + 1 = Oldest
        BY <2>1, <2>3, <3>1, <3>2, <3>7
      <4>2. new.place = old.place
        BY <2>2, <2>3, <4>1, PlacesTyped
      <4>3. Older(new).age = Older(old).age /\ Older(new).place = Older(old).place
        BY <2>5, <3>5, <4>1, <4>2
      <4>4. Older(old) \in Locations /\ Older(new) \in Locations
        BY <1>2, <2>1
      <4> QED BY <4>3, <4>4 DEF Locations
    <3> QED BY <2>3, <3>1, <3>2, <3>6, <3>7
  <2> QED BY <2>1, <2>3, <2>4, <2>6, <2>7
<1> HIDE DEF new, r
<1>6. ASSUME l.pc = "store"
      PROVE  /\ Older(new).age >= -Skew
             /\ \/ l.overtaken \/ Older(cur) = Nowhere
                \/ Plausible(Older(new), Older(cur)) \/ Older(new) = Older(cur)
  <2>1. l.pc # "free" /\ new.age >= -Skew /\ new.age \in Int
    BY <1>2, <1>4, <1>6 DEF Sound, new, Ages
  <2>2. Older(new).age >= -Skew
    BY <1>4, <2>1, AdmissionAssumption
  <2>3. \/ l.overtaken \/ cur = Nowhere
        \/ Plausible(new, cur) \/ new = cur
    BY <1>6 DEF Sound, new
  <2> QED BY <1>5, <2>1, <2>2, <2>3, NowhereTyped
<1>7. l.pc # "free" => Older(new).age <= Held
  <2>1. l.pc # "free" => new.age \in Int
    BY <1>2, <1>4 DEF Ages
  <2> QED BY <1>4, <2>1, AdmissionAssumption
<1>8. Sound(r, Older(cur))
  BY <1>1, <1>4, <1>6, <1>7, NowhereTyped DEF Sound
<1> QED BY <1>1, <1>3, <1>8 DEF r

\* A handler that is overtaken by a write has nothing to make sure of any more.
LEMMA OvertakenSound ==
  ASSUME NEW l \in HandlerRecords, NEW old, Sound(l, old), NEW cur
  PROVE  LET r == [l EXCEPT !.overtaken = (@ \/ l.pc = "store")] IN
         /\ r \in HandlerRecords /\ r.pc = l.pc /\ r.n = l.n /\ r.location = l.location
         /\ Sound(r, cur)
<1> DEFINE flag == l.overtaken \/ l.pc = "store"
           r == [l EXCEPT !.overtaken = flag]
<1>1. flag \in BOOLEAN /\ (l.pc = "store" => flag = TRUE)
  BY DEF HandlerRecords
<1>2. r \in HandlerRecords /\ r.pc = l.pc /\ r.n = l.n /\ r.location = l.location
      /\ r.overtaken = flag
  <2> HIDE DEF flag
  <2> QED BY <1>1 DEF HandlerRecords
<1>3. r = [l EXCEPT !.overtaken = (@ \/ l.pc = "store")]
  BY DEF HandlerRecords
<1> HIDE DEF flag, r
<1>4. Sound(r, cur)
  BY <1>1, <1>2 DEF Sound
<1> QED BY <1>2, <1>3, <1>4

StoredInv ==
  /\ AdmissionTypeOK
  /\ \A h \in Handlers : Sound(handler[h], current)

\* A step of one handler that leaves the stored location alone.
LEMMA HandlerStored ==
  ASSUME StoredInv, NEW h \in Handlers, handler' \in [Handlers -> HandlerRecords],
         \A g \in Handlers \ {h} : handler'[g] = handler[g],
         Sound(handler'[h], current), current' = current,
         count' \in Counts, ttl' \in 0..Window, count' = 0 => ttl' = 0,
         admitted' \subseteq (0..(Window - 1)) \X Counts, expiryLost' \in BOOLEAN
  PROVE  StoredInv'
<1>1. AdmissionTypeOK'
  BY DEF StoredInv, AdmissionTypeOK, HandlerRecords
<1>2. \A g \in Handlers : Sound(handler[g], current)'
  BY DEF StoredInv, Sound, Plausible, validateSpeed
<1> QED BY <1>1, <1>2 DEF StoredInv

LEMMA HandlersTyped ==
  ASSUME AdmissionTypeOK
  PROVE  handler \in [Handlers -> HandlerRecords]
BY DEF AdmissionTypeOK, HandlerRecords

\* A POST that has its number goes on with it or is refused.
LEMMA Decided ==
  ASSUME StoredInv, NEW h \in Handlers, NEW n \in Counts, NEW location \in Locations,
         location.age <= Held, Decide(h, n, location)
  PROVE  /\ handler' \in [Handlers -> HandlerRecords]
         /\ \A g \in Handlers \ {h} : handler'[g] = handler[g]
         /\ Sound(handler'[h], current) /\ handler'[h].pc # "expire"
         /\ admitted' \subseteq (0..(Window - 1)) \X Counts
<1>1. handler \in [Handlers -> HandlerRecords]
  BY HandlersTyped DEF StoredInv
<1>2. admitted' \subseteq (0..(Window - 1)) \X Counts
  <2>1. <<0, n>> \in (0..(Window - 1)) \X Counts
    BY AdmissionAssumption
  <2> QED BY <2>1 DEF Decide, StoredInv, AdmissionTypeOK
<1>3. CASE WithinLimit(n)
  <2>1. Go(h, "previous", 0, location)
    BY <1>3 DEF Decide
  <2> QED BY <1>1, <1>2, <2>1, Gone, CountsTyped DEF Sound
<1>4. CASE ~WithinLimit(n)
  <2>1. Finish(h)
    BY <1>4 DEF Decide
  <2> QED BY <1>1, <1>2, <2>1, Finished, NowhereTyped DEF Sound
<1> QED BY <1>3, <1>4

\* INCR: the first number of a key is 1, and within the limit none is left out.
LEMMA Increased ==
  ASSUME count \in Counts, NEW n,
         n = IF count \in Counts /\ count + 1 \in Counts THEN count + 1 ELSE count
  PROVE  /\ n \in Counts /\ n > 0 /\ n >= count
         /\ n = 1 <=> count = 0
         /\ n <= Limit => n = count + 1
<1>1. count \in Nat /\ Limit \in Nat \ {0}
  BY CountsTyped, AdmissionAssumption
<1>2. CASE count <= Limit
  <2>1. count + 1 \in Counts
    BY <1>1, <1>2, CountsTyped
  <2> QED BY <1>1, <2>1
<1>3. CASE ~(count <= Limit)
  BY <1>1, <1>3
<1> QED BY <1>2, <1>3

LEMMA PublishStored ==
  ASSUME StoredInv, NEW h \in Handlers, NEW location \in Locations, location.age <= Held,
         publishLocation(h, location)
  PROVE  StoredInv'
<1>1. PICK n : n = IF count \in Counts /\ count + 1 \in Counts THEN count + 1 ELSE count
  OBVIOUS
<1>2. /\ n \in Counts /\ n > 0 /\ count' = n /\ UNCHANGED <<ttl, current, expiryLost>>
      /\ \/ FirstOfWindow(n) /\ Go(h, "expire", n, location) /\ UNCHANGED admitted
         \/ Decide(h, n, location)
  BY <1>1, Increased DEF publishLocation, StoredInv, AdmissionTypeOK
<1>3. /\ count' \in Counts /\ ttl' \in 0..Window /\ (count' = 0 => ttl' = 0)
      /\ expiryLost' \in BOOLEAN
  BY <1>2 DEF StoredInv, AdmissionTypeOK
<1>4. CASE FirstOfWindow(n) /\ Go(h, "expire", n, location) /\ UNCHANGED admitted
  <2>1. /\ handler' \in [Handlers -> HandlerRecords]
        /\ \A g \in Handlers \ {h} : handler'[g] = handler[g]
        /\ handler'[h].pc = "expire" /\ handler'[h].n = n /\ handler'[h].location = location
    BY <1>2, <1>4, Gone, HandlersTyped DEF StoredInv
  <2>2. Sound(handler'[h], current)
    BY <1>4, <2>1 DEF Sound, FirstOfWindow
  <2>3. admitted' \subseteq (0..(Window - 1)) \X Counts
    BY <1>4 DEF StoredInv, AdmissionTypeOK
  <2> QED BY <1>2, <1>3, <2>1, <2>2, <2>3, HandlerStored
<1>5. CASE Decide(h, n, location)
  BY <1>2, <1>3, <1>5, Decided, HandlerStored
<1> QED BY <1>2, <1>4, <1>5

LEMMA SetExpiryStored ==
  ASSUME StoredInv, NEW h \in Handlers, setExpiry(h)
  PROVE  StoredInv'
<1>1. /\ handler[h].n = 1 /\ handler[h].location \in Locations
      /\ handler[h].location.age <= Held
  BY DEF setExpiry, StoredInv, Sound
<1>2. Decide(h, 1, handler[h].location)
  BY <1>1 DEF setExpiry
<1>3. /\ count' \in Counts /\ ttl' \in 0..Window /\ (count' = 0 => ttl' = 0)
      /\ expiryLost' \in BOOLEAN /\ current' = current
  BY AdmissionAssumption, CountsTyped DEF setExpiry, StoredInv, AdmissionTypeOK
<1>4. 1 \in Counts
  BY CountsTyped
<1> QED BY <1>1, <1>2, <1>3, <1>4, Decided, HandlerStored

LEMMA ReceiveStored ==
  ASSUME StoredInv, NEW h \in Handlers, NEW location \in Locations, location.age <= Held,
         handleLocationUpdate(h, location)
  PROVE  StoredInv'
<1>1. /\ handler' \in [Handlers -> HandlerRecords]
      /\ \A g \in Handlers \ {h} : handler'[g] = handler[g]
      /\ handler'[h].pc = "previous" /\ handler'[h].location = location
  BY Gone, HandlersTyped, CountsTyped DEF handleLocationUpdate, StoredInv
<1>2. Sound(handler'[h], current)
  BY <1>1 DEF Sound
<1> QED BY <1>1, <1>2, HandlerStored DEF handleLocationUpdate, StoredInv, AdmissionTypeOK

LEMMA ValidateStored ==
  ASSUME StoredInv, NEW h \in Handlers, Validate(h)
  PROVE  StoredInv'
<1> DEFINE location == handler[h].location
<1>1. /\ location \in Locations /\ location.age <= Held
      /\ handler \in [Handlers -> HandlerRecords]
  BY HandlersTyped DEF Validate, StoredInv, Sound
<1>2. /\ handler' \in [Handlers -> HandlerRecords]
      /\ \A g \in Handlers \ {h} : handler'[g] = handler[g]
      /\ Sound(handler'[h], current)
  <2>1. CASE validateUpdate(location, current)
    <3>1. PICK l \in Locations : l = location
      BY <1>1
    <3>2. Go(h, "store", 0, l)
      BY <2>1, <3>1 DEF Validate
    <3>3. /\ handler' \in [Handlers -> HandlerRecords]
          /\ \A g \in Handlers \ {h} : handler'[g] = handler[g]
          /\ handler'[h].pc = "store" /\ handler'[h].location = l
      BY <1>1, <3>2, Gone, CountsTyped
    <3>4. l.age >= -Skew /\ (current = Nowhere \/ Plausible(l, current))
      BY <2>1, <3>1
      DEF validateUpdate, validateTimestamp, validateOrder, Plausible
    <3> QED BY <1>1, <3>1, <3>3, <3>4 DEF Sound
  <2>2. CASE ~validateUpdate(location, current)
    BY <1>1, <2>2, Finished, NowhereTyped DEF Validate, Sound
  <2> QED BY <2>1, <2>2
<1> QED BY <1>2, HandlerStored DEF Validate, StoredInv, AdmissionTypeOK

LEMMA OvertakeStored ==
  ASSUME NEW hs \in [Handlers -> HandlerRecords], NEW old, NEW cur,
         \A h \in Handlers : Sound(hs[h], old)
  PROVE  /\ Overtake(hs) \in [Handlers -> HandlerRecords]
         /\ \A h \in Handlers : /\ Overtake(hs)[h].pc = hs[h].pc
                                /\ Overtake(hs)[h].n = hs[h].n
                                /\ Sound(Overtake(hs)[h], cur)
<1>1. ASSUME NEW h \in Handlers
      PROVE  /\ Overtake(hs)[h] \in HandlerRecords
             /\ Overtake(hs)[h].pc = hs[h].pc /\ Overtake(hs)[h].n = hs[h].n
             /\ Sound(Overtake(hs)[h], cur)
  BY OvertakenSound DEF Overtake
<1> QED BY <1>1 DEF Overtake

LEMMA SetStored ==
  ASSUME StoredInv, NEW h \in Handlers, setCurrentLocation(h)
  PROVE  /\ StoredInv'
         /\ \A g \in Handlers \ {h} : handler'[g].pc = handler[g].pc
         /\ handler'[h].pc = "free"
<1> DEFINE hs == [handler EXCEPT ![h] = Free]
<1>1. /\ handler[h].location \in Locations /\ handler[h].location.age >= -Skew
      /\ handler \in [Handlers -> HandlerRecords]
  BY HandlersTyped DEF setCurrentLocation, StoredInv, Sound
<1>2. hs \in [Handlers -> HandlerRecords] /\ hs[h] = Free
      /\ \A g \in Handlers \ {h} : hs[g] = handler[g]
  BY <1>1, NowhereTyped
<1>3. \A g \in Handlers : Sound(hs[g], current)
  BY <1>2, NowhereTyped DEF StoredInv, Sound
<1>4. handler' = Overtake(hs) /\ current' = handler[h].location
      /\ UNCHANGED <<count, ttl, admitted, expiryLost>>
  BY DEF setCurrentLocation
<1> HIDE DEF hs
<1>5. /\ handler' \in [Handlers -> HandlerRecords]
      /\ \A g \in Handlers : handler'[g].pc = hs[g].pc /\ Sound(handler'[g], current')
  BY <1>2, <1>3, <1>4, OvertakeStored
<1>6. AdmissionTypeOK'
  BY <1>1, <1>4, <1>5 DEF StoredInv, AdmissionTypeOK, HandlerRecords
<1>7. \A g \in Handlers : Sound(handler[g], current)'
  BY <1>5 DEF Sound, Plausible, validateSpeed
<1> QED BY <1>2, <1>5, <1>6, <1>7, NowhereTyped DEF StoredInv

LEMMA DeleteStored ==
  ASSUME StoredInv, deleteCurrentLocation
  PROVE  StoredInv' /\ \A g \in Handlers : handler'[g].pc = handler[g].pc
<1>1. handler' = Overtake(handler) /\ current' = Nowhere
      /\ UNCHANGED <<count, ttl, admitted, expiryLost>>
      /\ handler \in [Handlers -> HandlerRecords]
  BY HandlersTyped DEF deleteCurrentLocation, StoredInv
<1>2. /\ handler' \in [Handlers -> HandlerRecords]
      /\ \A g \in Handlers : handler'[g].pc = handler[g].pc /\ Sound(handler'[g], current')
  BY <1>1, OvertakeStored DEF StoredInv
<1>3. AdmissionTypeOK'
  BY <1>1, <1>2 DEF StoredInv, AdmissionTypeOK, HandlerRecords
<1>4. \A g \in Handlers : Sound(handler[g], current)'
  BY <1>2 DEF Sound, Plausible, validateSpeed
<1> QED BY <1>2, <1>3, <1>4 DEF StoredInv

LEMMA FailStored ==
  ASSUME StoredInv, NEW h \in Handlers, Fail(h)
  PROVE  StoredInv'
<1>1. /\ handler' \in [Handlers -> HandlerRecords]
      /\ \A g \in Handlers \ {h} : handler'[g] = handler[g]
      /\ Sound(handler'[h], current)
  BY Finished, HandlersTyped, NowhereTyped DEF Fail, StoredInv, Sound
<1> QED BY <1>1, HandlerStored DEF Fail, StoredInv, AdmissionTypeOK

LEMMA TickStored ==
  ASSUME StoredInv, tick
  PROVE  /\ StoredInv'
         /\ \A g \in Handlers : handler'[g].pc = handler[g].pc
<1>1. handler \in [Handlers -> HandlerRecords] /\ current \in Locations \cup {Nowhere}
  BY HandlersTyped DEF StoredInv, AdmissionTypeOK
<1>2. ASSUME NEW g \in Handlers
      PROVE  /\ handler'[g] \in HandlerRecords /\ handler'[g].pc = handler[g].pc
             /\ Sound(handler'[g], current')
  <2>1. handler'[g] = [handler[g] EXCEPT !.location = Older(@)] /\ current' = Older(current)
    BY DEF tick
  <2> QED BY <1>1, <2>1, SoundAges DEF tick, StoredInv
<1>3. handler' \in [Handlers -> HandlerRecords]
  BY <1>2 DEF tick
<1>4. /\ current' \in Locations \cup {Nowhere}
      /\ current' # Nowhere => current'.age >= -Skew
  <2>1. current' = Older(current)
    BY DEF tick
  <2>2. CASE current = Nowhere
    BY <2>1, <2>2, NowhereTyped
  <2>3. CASE current # Nowhere
    <3>1. current \in Locations /\ current.age >= -Skew /\ current.age \in Int
      BY <1>1, <2>3 DEF StoredInv, AdmissionTypeOK, Locations, Ages
    <3>2. Older(current) \in Locations /\ Older(current).age >= current.age
      BY <3>1, AdmissionAssumption DEF Locations, Ages, Older
    <3>3. Older(current).age \in Int
      BY <3>2 DEF Locations, Ages
    <3> QED BY <2>1, <3>1, <3>2, <3>3, AdmissionAssumption
  <2> QED BY <2>2, <2>3
<1>5. /\ count' \in Counts /\ ttl' \in 0..Window /\ (count' = 0 => ttl' = 0)
      /\ expiryLost' \in BOOLEAN
  BY CountsTyped, AdmissionAssumption DEF tick, StoredInv, AdmissionTypeOK
<1>6. admitted' \subseteq (0..(Window - 1)) \X Counts
  <2>1. ASSUME NEW p \in admitted, p[1] + 1 < Window
        PROVE  <<p[1] + 1, p[2]>> \in (0..(Window - 1)) \X Counts
    <3>1. p \in (0..(Window - 1)) \X Counts
      BY DEF StoredInv, AdmissionTypeOK
    <3> QED BY <2>1, <3>1, AdmissionAssumption
  <2> QED BY <2>1 DEF tick
<1>7. AdmissionTypeOK'
  BY <1>3, <1>4, <1>5, <1>6 DEF AdmissionTypeOK, HandlerRecords
<1>8. \A g \in Handlers : Sound(handler[g], current)'
  BY <1>2 DEF Sound, Plausible, validateSpeed
<1> QED BY <1>2, <1>7, <1>8 DEF StoredInv

LEMMA StoredStep ==
  ASSUME StoredInv, [AdmissionNext]_admVars
  PROVE  StoredInv'
<1>1. ASSUME NEW h \in Handlers, NEW age \in (-Skew - 1)..(MaxAge + 1), NEW place \in Places,
             \/ publishLocation(h, [age |-> age, place |-> place])
             \/ handleLocationUpdate(h, [age |-> age, place |-> place])
      PROVE  StoredInv'
  <2>1. PICK location \in Locations :
          location = [age |-> age, place |-> place] /\ location.age <= Held
    BY SentTyped
  <2>2. publishLocation(h, location) \/ handleLocationUpdate(h, location)
    BY <1>1, <2>1
  <2> QED BY <2>1, <2>2, PublishStored, ReceiveStored
<1>2. CASE UNCHANGED admVars
  BY <1>2
  DEF admVars, StoredInv, AdmissionTypeOK, Sound, Plausible, validateSpeed
<1> QED
  BY <1>1, <1>2, SetExpiryStored, ValidateStored, SetStored, DeleteStored, FailStored,
     TickStored
  DEF AdmissionNext

LEMMA StoredInvariant == AdmissionSpec => []StoredInv
<1>1. AdmissionInit => StoredInv
  BY AdmissionInitInv DEF AdmInv, StoredInv
<1> QED BY <1>1, StoredStep, PTL DEF AdmissionSpec

\* Every variable keeps its type: the counter of LocationRateLimitService stays
\* within what it tells apart, a stored location was never too far in the future.
THEOREM AdmissionTypeCorrect == AdmissionSpec => []AdmissionTypeOK
<1>1. StoredInv => AdmissionTypeOK
  BY DEF StoredInv
<1> QED BY <1>1, StoredInvariant, PTL

\* validateUpdate runs before the write, and others may write in between: the
\* stored location gives way to one that it cannot be left for only if another
\* handler had overtaken.
THEOREM JumpsComeFromOverlap == AdmissionSpec => JumpNeedsOverlap
<1> DEFINE Step == \/ current = Nowhere \/ current' \in {current, Older(current), Nowhere}
                   \/ Plausible(current', current)
                   \/ \E h \in Handlers : /\ handler[h].overtaken
                                          /\ handler[h].location = current'
<1>1. StoredInv /\ [AdmissionNext]_admVars => [Step]_admVars
  <2> SUFFICES ASSUME StoredInv, AdmissionNext
               PROVE  Step
    OBVIOUS
  <2>1. ASSUME NEW h \in Handlers, setCurrentLocation(h)
        PROVE  Step
    BY <2>1 DEF setCurrentLocation, StoredInv, Sound
  <2>2. ASSUME NEW h \in Handlers, NEW location, publishLocation(h, location)
        PROVE  Step
    BY <2>2 DEF publishLocation
  <2> QED
    BY <2>1, <2>2
    DEF AdmissionNext, handleLocationUpdate, setExpiry, Validate, Fail,
        deleteCurrentLocation, tick
<1> QED BY <1>1, StoredInvariant, PTL DEF AdmissionSpec, JumpNeedsOverlap

-----------------------------------------------------------------------------
(* The counter's key and the POSTs that it lets pass.                       *)

CounterInv == KeyInv /\ WindowInv

\* Steps that neither count nor start or set an expiry.
LEMMA QuietCounter ==
  ASSUME CounterInv, UNCHANGED <<count, ttl, admitted>>, expiryLost => expiryLost',
         \A g \in Handlers : handler'[g].pc = "expire" => handler[g].pc = "expire",
         \A g \in Handlers :
           handler[g].pc = "expire" => handler'[g].pc = "expire" \/ expiryLost'
  PROVE  CounterInv'
<1>1. Expiring' => Expiring
  BY DEF Expiring
<1>2. KeyInv'
  BY <1>1 DEF CounterInv, KeyInv, Expiring
<1>3. ASSUME NEW before \in SUBSET admitted, Split(before)
      PROVE  Split(before)'
  BY <1>1, <1>3 DEF Split, Numbered
<1> QED BY <1>2, <1>3 DEF CounterInv, WindowInv

LEMMA NumberedMore ==
  ASSUME NEW ps, NEW ns, Numbered(ps, ns), NEW n \in ns, \A p \in ps : p[2] # n
  PROVE  Numbered(ps \cup {<<0, n>>}, ns)
BY DEF Numbered

LEMMA NumberedOlder ==
  ASSUME NEW ps, NEW ns, Numbered(ps, ns),
         NEW qs \in SUBSET {<<p[1] + 1, p[2]>> : p \in ps}
  PROVE  Numbered(qs, ns)
<1>1. ASSUME NEW q \in qs
      PROVE  \E p \in ps : q = <<p[1] + 1, p[2]>>
  OBVIOUS
<1>2. \A q \in qs : q[2] \in ns
  BY <1>1 DEF Numbered
<1>3. ASSUME NEW q \in qs, NEW r \in qs, q[2] = r[2]
      PROVE  q = r
  <2>1. PICK p \in ps : q = <<p[1] + 1, p[2]>>
    BY <1>1
  <2>2. PICK s \in ps : r = <<s[1] + 1, s[2]>>
    BY <1>1
  <2>3. p = s
    BY <1>3, <2>1, <2>2 DEF Numbered
  <2> QED BY <2>1, <2>2, <2>3
<1> QED BY <1>2, <1>3 DEF Numbered

\* A POST that passes is counted: its number is new among those of its key, and
\* those of the keys before are older.
LEMMA DecidedCounter ==
  ASSUME NEW before \in SUBSET admitted, Split(before), NEW h \in Handlers,
         NEW n \in Nat, n >= 1, NEW location, Decide(h, n, location),
         count \in Nat, count' \in Nat, n <= count', count <= count',
         \A p \in admitted \ before : p[2] # n,
         Expiring' => Expiring /\ n # 1,
         ttl' > 0 => /\ \A p \in before : p[1] >= Window - ttl'
                     /\ \A p \in admitted \ before : p[2] = 1 => p[1] >= Window - ttl'
                     /\ n = 1 => 0 >= Window - ttl'
  PROVE  Split(before)' /\ before \in SUBSET admitted'
<1> DEFINE present == admitted \ before
           after == admitted' \ before
<1>1. Limit \in Nat /\ \A p \in present : p[2] \in 1..Limit /\ p[2] <= count
  BY AdmissionAssumption DEF Split, Numbered
<1>2. CASE n <= Limit
  <2>1. admitted' = admitted \cup {<<0, n>>}
    BY <1>2 DEF Decide, WithinLimit
  <2>2. after = present \cup {<<0, n>>}
    <3>1. <<0, n>> \notin before
      BY DEF Split
    <3> QED BY <2>1, <3>1
  <2>3. Numbered(after, 1..Limit)
    <3>1. Numbered(present, 1..Limit) /\ n \in 1..Limit
      BY <1>1, <1>2 DEF Split
    <3> HIDE DEF present, after
    <3>2. \A p \in present : p[2] # n
      BY DEF present
    <3> QED BY <2>2, <3>1, <3>2, NumberedMore
  <2>4. \A p \in after : p[2] <= count'
    BY <1>1, <2>2
  <2>5. Expiring' => \A p \in after : p[2] # 1
    BY <2>2 DEF Split
  <2>6. ttl' > 0 => \A p \in after : p[2] = 1 => p[1] >= Window - ttl'
    BY <2>2
  <2>7. Numbered(before, 2..Limit) /\ \A p \in before : p[1] > 0
    BY DEF Split
  <2> QED BY <2>1, <2>3, <2>4, <2>5, <2>6, <2>7 DEF Split, Numbered
<1>3. CASE ~(n <= Limit)
  <2>1. admitted' = admitted
    BY <1>3 DEF Decide, WithinLimit
  <2>2. \A p \in present : p[2] <= count'
    BY <1>1
  <2> QED BY <2>1, <2>2 DEF Split, Numbered
<1> QED BY <1>2, <1>3

LEMMA PublishCounter ==
  ASSUME StoredInv, CounterInv, NEW h \in Handlers, NEW location \in Locations,
         location.age <= Held, publishLocation(h, location)
  PROVE  CounterInv'
<1>1. PICK n : n = IF count \in Counts /\ count + 1 \in Counts THEN count + 1 ELSE count
  OBVIOUS
<1>2. /\ n \in Counts /\ n \in Nat /\ n > 0 /\ n >= count /\ count \in Nat
      /\ n = 1 <=> count = 0
      /\ n <= Limit => n = count + 1
      /\ count' = n /\ UNCHANGED <<ttl, expiryLost>> /\ (count = 0 => ttl = 0)
      /\ handler[h].pc = "free" /\ handler \in [Handlers -> HandlerRecords]
  BY <1>1, Increased, CountsTyped, HandlersTyped
  DEF publishLocation, StoredInv, AdmissionTypeOK
<1>3. CASE n = 1
  <2>1. Go(h, "expire", n, location) /\ UNCHANGED admitted
    BY <1>1, <1>3 DEF publishLocation, FirstOfWindow
  <2>2. /\ \A g \in Handlers \ {h} : handler'[g] = handler[g]
        /\ handler'[h].pc = "expire"
    BY <1>2, <2>1, Gone
  <2>3. ~Expiring /\ count = 0 /\ ttl = 0
    BY <1>2, <1>3 DEF CounterInv, KeyInv
  <2>4. KeyInv'
    BY <1>2, <1>3, <2>2, <2>3 DEF KeyInv, Expiring
  <2>5. PICK before \in SUBSET admitted : Split(before)
    BY DEF CounterInv, WindowInv
  <2>6. admitted \ before = {}
    <3>1. ASSUME NEW p \in admitted \ before
          PROVE  FALSE
      <4>1. p[2] \in 1..Limit /\ p[2] <= count
        BY <2>5 DEF Split, Numbered
      <4> QED BY <2>3, <4>1, AdmissionAssumption
    <3> QED BY <3>1
  <2>7. Split(before)'
    BY <1>2, <2>1, <2>3, <2>5, <2>6 DEF Split, Numbered
  <2> QED BY <2>1, <2>4, <2>5, <2>7 DEF CounterInv, WindowInv
<1>4. CASE n # 1
  <2>1. Decide(h, n, location)
    BY <1>1, <1>4 DEF publishLocation, FirstOfWindow
  <2>2. /\ \A g \in Handlers \ {h} : handler'[g] = handler[g]
        /\ handler'[h].pc # "expire"
    BY <1>2, <2>1, Decided
  <2>3. \A g \in Handlers : handler'[g].pc = "expire" <=> handler[g].pc = "expire"
    BY <1>2, <2>2
  <2>4. Expiring' <=> Expiring
    BY <2>3 DEF Expiring
  <2>5. KeyInv'
    <3>1. count > 0 /\ count' > 0
      BY <1>2, <1>4
    <3> QED BY <1>2, <2>3, <2>4, <3>1 DEF CounterInv, KeyInv
  <2>6. PICK before \in SUBSET admitted : Split(before)
    BY DEF CounterInv, WindowInv
  <2>7. Split(before)' /\ before \in SUBSET admitted'
    <3>1. CASE n <= Limit
      <4>1. \A p \in admitted \ before : p[2] # n
        <5>1. \A p \in admitted \ before : p[2] \in 1..Limit /\ p[2] <= count
          BY <2>6 DEF Split, Numbered
        <5> QED BY <1>2, <3>1, <5>1, AdmissionAssumption
      <4>2. ttl > 0 => /\ \A p \in before : p[1] >= Window - ttl
                       /\ \A p \in admitted \ before : p[2] = 1 => p[1] >= Window - ttl
        BY <2>6 DEF Split
      <4> QED BY <1>2, <1>4, <2>1, <2>4, <2>6, <4>1, <4>2, DecidedCounter
    <3>2. CASE ~(n <= Limit)
      <4>1. admitted' = admitted
        BY <2>1, <3>2 DEF Decide, WithinLimit
      <4>2. \A p \in admitted \ before : p[2] \in 1..Limit /\ p[2] <= count
        BY <2>6 DEF Split, Numbered
      <4>3. \A p \in admitted \ before : p[2] <= count'
        BY <1>2, <4>2, AdmissionAssumption
      <4> QED BY <1>2, <2>4, <2>6, <4>1, <4>3 DEF Split, Numbered
    <3> QED BY <3>1, <3>2
  <2> QED BY <2>5, <2>7 DEF CounterInv, WindowInv
<1> QED BY <1>3, <1>4

\* EXPIRE: the first POST of the key passes with it, at the start of the window.
LEMMA SetExpiryCounter ==
  ASSUME StoredInv, CounterInv, NEW h \in Handlers, setExpiry(h)
  PROVE  CounterInv'
<1>1. /\ handler[h].n = 1 /\ handler[h].location \in Locations
      /\ handler[h].location.age <= Held /\ handler[h].pc = "expire"
  BY DEF setExpiry, StoredInv, Sound
<1>2. PICK location \in Locations : location = handler[h].location /\ location.age <= Held
  BY <1>1
<1>3. Decide(h, 1, location)
  BY <1>1, <1>2 DEF setExpiry
<1>4. /\ count > 0 /\ count \in Nat /\ count' = count /\ Expiring
      /\ ttl' = Window /\ Window \in Nat \ {0} /\ 1 \in Counts
  BY <1>1, CountsTyped, AdmissionAssumption
  DEF setExpiry, CounterInv, KeyInv, Expiring, StoredInv, AdmissionTypeOK
<1>5. \A g \in Handlers : handler'[g].pc # "expire"
  <2>1. /\ \A g \in Handlers \ {h} : handler'[g] = handler[g]
        /\ handler'[h].pc # "expire"
    BY <1>2, <1>3, <1>4, Decided
  <2> QED BY <1>1, <2>1 DEF CounterInv, KeyInv
<1>6. KeyInv'
  BY <1>4, <1>5 DEF KeyInv, Expiring
<1>7. PICK before \in SUBSET admitted : Split(before)
  BY DEF CounterInv, WindowInv
<1>8. /\ \A p \in admitted \ before : p[2] # 1
      /\ \A p \in admitted : p[1] >= Window - Window
  <2>1. \A p \in admitted : p[1] \in 0..(Window - 1)
    BY DEF StoredInv, AdmissionTypeOK
  <2> QED BY <1>4, <1>7, <2>1 DEF Split
<1>9. Split(before)' /\ before \in SUBSET admitted'
  <2>1. ~Expiring'
    BY <1>5 DEF Expiring
  <2> QED BY <1>3, <1>4, <1>7, <1>8, <2>1, DecidedCounter
<1> QED BY <1>6, <1>9 DEF CounterInv, WindowInv

\* Time: with the key go the POSTs of the keys before it and its first one.
LEMMA TickCounter ==
  ASSUME StoredInv, CounterInv, tick
  PROVE  CounterInv'
<1>1. /\ ttl \in Nat /\ count \in Nat /\ Window \in Nat \ {0} /\ Limit \in Nat
      /\ ttl' = IF ttl > 0 THEN ttl - 1 ELSE 0
      /\ count' = IF ttl = 1 THEN 0 ELSE count
      /\ expiryLost' = expiryLost
      /\ \A p \in admitted : p[1] \in Nat
  BY CountsTyped, AdmissionAssumption DEF tick, StoredInv, AdmissionTypeOK
<1>2. \A g \in Handlers : handler'[g].pc = handler[g].pc
  BY TickStored
<1>3. Expiring' <=> Expiring
  BY <1>2 DEF Expiring
<1>4. KeyInv'
  BY <1>1, <1>2, <1>3 DEF CounterInv, KeyInv
<1>5. PICK before \in SUBSET admitted : Split(before)
  BY DEF CounterInv, WindowInv
<1>6. \A q \in admitted' : \E p \in admitted : q = <<p[1] + 1, p[2]>> /\ p[1] + 1 < Window
  BY DEF tick
<1>7. CASE ttl = 1
  <2>1. \A q \in admitted' :
          \E p \in admitted \ before : q = <<p[1] + 1, p[2]>> /\ p[2] # 1
    <3>1. \A p \in admitted : p \in before \/ p[2] = 1 => p[1] >= Window - 1
      BY <1>5, <1>7 DEF Split
    <3>2. \A p \in admitted : p[1] + 1 < Window => p \notin before /\ p[2] # 1
      BY <1>1, <3>1
    <3> QED BY <1>6, <3>2
  <2>2. Numbered(admitted', 1..Limit)
    <3>1. Numbered(admitted \ before, 1..Limit)
      BY <1>5 DEF Split
    <3>2. admitted' \in SUBSET {<<p[1] + 1, p[2]>> : p \in admitted \ before}
      BY <2>1
    <3> QED BY <3>1, <3>2, NumberedOlder
  <2>3. \A q \in admitted' : q[1] > 0 /\ q[2] # 1
    BY <1>1, <2>1
  <2>4. Numbered(admitted', 2..Limit)
    BY <1>1, <2>2, <2>3 DEF Numbered
  <2>5. PICK all : all = admitted'
    OBVIOUS
  <2>6. Split(all)'
    <3>1. admitted' \ all = {} /\ ttl' = 0
      BY <1>1, <1>7, <2>5
    <3> QED BY <1>1, <2>3, <2>4, <2>5, <3>1 DEF Split, Numbered
  <2> QED BY <1>4, <2>5, <2>6 DEF CounterInv, WindowInv
<1>8. CASE ttl # 1
  <2>1. PICK old : old = {<<p[1] + 1, p[2]>> : p \in {q \in before : q[1] + 1 < Window}}
    OBVIOUS
  <2>2. /\ old \in SUBSET admitted'
        /\ old \in SUBSET {<<p[1] + 1, p[2]>> : p \in before}
        /\ admitted' \ old \in SUBSET {<<p[1] + 1, p[2]>> : p \in admitted \ before}
    BY <1>5, <2>1 DEF tick
  <2>3. Numbered(old, 2..Limit) /\ Numbered(admitted' \ old, 1..Limit)
    <3>1. Numbered(before, 2..Limit) /\ Numbered(admitted \ before, 1..Limit)
      BY <1>5 DEF Split
    <3> QED BY <2>2, <3>1, NumberedOlder
  <2>4. \A q \in old : q[1] > 0
    BY <1>1, <2>2
  <2>5. \A q \in admitted' \ old : q[2] <= count' /\ (Expiring' => q[2] # 1)
    <3>1. \A p \in admitted \ before : p[2] <= count /\ (Expiring => p[2] # 1)
      BY <1>5 DEF Split
    <3>2. \A q \in admitted' \ old : \E p \in admitted \ before : q[2] = p[2]
      BY <2>2
    <3> QED BY <1>1, <1>3, <1>8, <3>1, <3>2
  <2>6. ASSUME ttl' > 0
        PROVE  /\ \A q \in old : q[1] >= Window - ttl'
               /\ \A q \in admitted' \ old : q[2] = 1 => q[1] >= Window - ttl'
    <3>1. ttl > 0 /\ ttl' = ttl - 1
      BY <1>1, <2>6
    <3>2. /\ \A p \in before : p[1] >= Window - ttl
          /\ \A p \in admitted \ before : p[2] = 1 => p[1] >= Window - ttl
      BY <1>5, <3>1 DEF Split
    <3>3. \A p \in admitted : p[1] >= Window - ttl => p[1] + 1 >= Window - ttl'
      BY <1>1, <3>1
    <3> QED BY <2>2, <3>2, <3>3
  <2>7. Split(old)'
    BY <2>3, <2>4, <2>5, <2>6 DEF Split, Numbered
  <2> QED BY <1>4, <2>2, <2>7 DEF CounterInv, WindowInv
<1> QED BY <1>7, <1>8

LEMMA CounterStep ==
  ASSUME StoredInv, CounterInv, [AdmissionNext]_admVars
  PROVE  CounterInv'
<1>1. ASSUME NEW h \in Handlers, NEW age \in (-Skew - 1)..(MaxAge + 1), NEW place \in Places,
             \/ publishLocation(h, [age |-> age, place |-> place])
             \/ handleLocationUpdate(h, [age |-> age, place |-> place])
      PROVE  CounterInv'
  <2>1. PICK location \in Locations :
          location = [age |-> age, place |-> place] /\ location.age <= Held
    BY SentTyped
  <2>2. CASE publishLocation(h, location)
    BY <2>1, <2>2, PublishCounter
  <2>3. CASE handleLocationUpdate(h, location)
    <3>1. /\ \A g \in Handlers \ {h} : handler'[g] = handler[g]
          /\ handler'[h].pc = "previous" /\ handler[h].pc = "free"
      BY <2>3, Gone, HandlersTyped, CountsTyped DEF handleLocationUpdate, StoredInv
    <3> QED BY <2>3, <3>1, QuietCounter DEF handleLocationUpdate
  <2> QED BY <1>1, <2>1, <2>2, <2>3
<1>2. ASSUME NEW h \in Handlers, Validate(h)
      PROVE  CounterInv'
  <2>1. handler[h].location \in Locations /\ handler[h].pc = "previous"
        /\ handler \in [Handlers -> HandlerRecords]
    BY <1>2, HandlersTyped DEF Validate, StoredInv, Sound
  <2>2. \/ Go(h, "store", 0, handler[h].location)
        \/ Finish(h)
    BY <1>2 DEF Validate
  <2>3. /\ \A g \in Handlers \ {h} : handler'[g] = handler[g]
        /\ handler'[h].pc # "expire"
    BY <2>1, <2>2, Gone, Finished, CountsTyped, NowhereTyped
  <2> QED BY <1>2, <2>1, <2>3, QuietCounter DEF Validate
<1>3. ASSUME NEW h \in Handlers, setCurrentLocation(h)
      PROVE  CounterInv'
  BY <1>3, SetStored, QuietCounter DEF setCurrentLocation
<1>4. CASE deleteCurrentLocation
  BY <1>4, DeleteStored, QuietCounter DEF deleteCurrentLocation
<1>5. ASSUME NEW h \in Handlers, Fail(h)
      PROVE  CounterInv'
  <2>1. /\ \A g \in Handlers \ {h} : handler'[g] = handler[g]
        /\ handler'[h].pc # "expire"
    BY <1>5, Finished, HandlersTyped, NowhereTyped DEF Fail, StoredInv
  <2>2. handler[h].pc = "expire" => expiryLost'
    BY <1>5 DEF Fail
  <2> QED BY <1>5, <2>1, <2>2, QuietCounter DEF Fail
<1>6. CASE UNCHANGED admVars
  BY <1>6, QuietCounter DEF admVars
<1> QED
  BY <1>1, <1>2, <1>3, <1>4, <1>5, <1>6, SetExpiryCounter, TickCounter DEF AdmissionNext

LEMMA CounterInvariant == AdmissionSpec => []CounterInv
<1>1. AdmissionInit => CounterInv
  BY AdmissionInitInv DEF AdmInv, CounterInv
<1>2. StoredInv /\ CounterInv /\ [AdmissionNext]_admVars => CounterInv'
  BY CounterStep
<1> QED BY <1>1, <1>2, StoredInvariant, PTL DEF AdmissionSpec

\* No POST is counted in the place of another one.
LEMMA CountedAnew ==
  ASSUME StoredInv, CounterInv, NEW h \in Handlers,
         setExpiry(h) \/ \E location \in Locations : publishLocation(h, location)
  PROVE  admitted' = admitted \/ \E n \in Counts : <<0, n>> \notin admitted
                                                    /\ admitted' = admitted \cup {<<0, n>>}
<1>1. PICK before \in SUBSET admitted : Split(before)
  BY DEF CounterInv, WindowInv
<1>2. <<0, 1>> \notin before /\ \A n : <<0, n>> \notin before
  BY <1>1 DEF Split
<1>3. CASE setExpiry(h)
  <2>1. handler[h].n = 1 /\ handler[h].pc = "expire" /\ 1 \in Counts
    BY <1>3, CountsTyped DEF setExpiry, StoredInv, Sound
  <2>2. admitted' \in {admitted, admitted \cup {<<0, 1>>}}
    BY <1>3, <2>1 DEF setExpiry, Decide
  <2>3. <<0, 1>> \notin admitted
    BY <1>1, <1>2, <2>1 DEF Split, Expiring
  <2> QED BY <2>1, <2>2, <2>3
<1>4. ASSUME NEW location \in Locations, publishLocation(h, location)
      PROVE  \/ admitted' = admitted
             \/ \E n \in Counts : <<0, n>> \notin admitted /\ admitted' = admitted \cup {<<0, n>>}
  <2>1. PICK n : n = IF count \in Counts /\ count + 1 \in Counts THEN count + 1 ELSE count
    OBVIOUS
  <2>2. /\ n \in Counts /\ (n <= Limit => n = count + 1) /\ count \in Nat
        /\ \/ admitted' = admitted
           \/ n <= Limit /\ admitted' = admitted \cup {<<0, n>>}
    BY <1>4, <2>1, Increased, CountsTyped
    DEF publishLocation, Decide, WithinLimit, StoredInv, AdmissionTypeOK
  <2>3. n <= Limit => <<0, n>> \notin admitted
    <3>1. \A p \in admitted \ before : p[2] \in 1..Limit /\ p[2] <= count
      BY <1>1 DEF Split, Numbered
    <3>2. ASSUME n <= Limit, <<0, n>> \in admitted
          PROVE  FALSE
      <4>1. <<0, n>> \in admitted \ before
        BY <1>2, <3>2
      <4>2. n <= count
        BY <3>1, <4>1
      <4> QED BY <2>2, <3>2, <4>2
    <3> QED BY <3>2
  <2> QED BY <2>2, <2>3
<1> QED BY <1>3, <1>4

LEMMA NumberedBound ==
  ASSUME NEW ps, NEW a \in 1..2, Numbered(ps, a..Limit)
  PROVE  IsFiniteSet(ps) /\ Cardinality(ps) \in Nat /\ Cardinality(ps) <= Limit + 1 - a
<1> DEFINE f == [p \in ps |-> p[2]]
<1>1. Limit \in Nat \ {0} /\ a \in Int /\ (a = 1 \/ a = 2)
  BY AdmissionAssumption
<1>2. f \in Injection(ps, a..Limit)
  BY DEF Numbered, Injection, IsInjective
<1>3. IsFiniteSet(a..Limit) /\ Cardinality(a..Limit) = Limit + 1 - a
  <2>1. /\ IsFiniteSet(a..Limit)
        /\ Cardinality(a..Limit) = IF a > Limit THEN 0 ELSE Limit - a + 1
    BY <1>1, FS_Interval
  <2>2. a > Limit => Limit + 1 - a = 0
    BY <1>1
  <2> QED BY <1>1, <2>1, <2>2
<1> HIDE DEF f
<1>4. IsFiniteSet(ps) /\ Cardinality(ps) <= Cardinality(a..Limit)
  BY <1>2, <1>3, FS_Injection
<1> QED BY <1>3, <1>4, FS_CardinalityType

\* assertWithinLimit counts in fixed windows that start with a key's first POST:
\* within any RATE_LIMIT_WINDOW_SECONDS less than twice RATE_LIMIT_MAX_UPDATES
\* POSTs pass, however INCR and EXPIRE of different handlers cross.
THEOREM WindowIsBounded == AdmissionSpec => []WindowBound
<1>1. StoredInv /\ CounterInv => WindowBound
  <2> SUFFICES ASSUME CounterInv
               PROVE  WindowBound
    OBVIOUS
  <2>1. PICK before \in SUBSET admitted : Split(before)
    BY DEF CounterInv, WindowInv
  <2>2. PICK present : present = admitted \ before
    OBVIOUS
  <2>3. Numbered(before, 2..Limit) /\ Numbered(present, 1..Limit)
    BY <2>1, <2>2 DEF Split
  <2>4. /\ IsFiniteSet(before) /\ Cardinality(before) \in Nat
        /\ Cardinality(before) <= Limit + 1 - 2
    BY <2>3, NumberedBound
  <2>5. /\ IsFiniteSet(present) /\ Cardinality(present) \in Nat
        /\ Cardinality(present) <= Limit + 1 - 1
    BY <2>3, NumberedBound
  <2>6. admitted = before \cup present /\ before \cap present = {}
    BY <2>2
  <2>7. Cardinality(admitted) = Cardinality(before) + Cardinality(present)
    <3>1. Cardinality(before \cap present) = 0
      BY <2>6, FS_EmptySet
    <3>2. Cardinality(before \cup present)
            = Cardinality(before) + Cardinality(present) - Cardinality(before \cap present)
      BY <2>4, <2>5, FS_Union
    <3> QED BY <2>4, <2>5, <2>6, <3>1, <3>2
  <2> QED BY <2>4, <2>5, <2>7, AdmissionAssumption DEF WindowBound
<1> QED BY <1>1, StoredInvariant, CounterInvariant, PTL

\* The counter of a user has an expiry, unless the EXPIRE is still to be sent by the
\* handler that created it or was lost with that handler: no other crossing of
\* handlers leaves a key that refuses the user's POSTs for ever.
THEOREM KeysExpire ==
  AdmissionSpec => [](count > 0 /\ ttl = 0 => Expiring \/ expiryLost)
<1>1. CounterInv => (count > 0 /\ ttl = 0 => Expiring \/ expiryLost)
  BY DEF CounterInv, KeyInv
<1> QED BY <1>1, CounterInvariant, PTL
=============================================================================
