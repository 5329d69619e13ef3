---------------------------- MODULE SessionProofs ----------------------------
(***************************************************************************)
(* One page of the web client for any users, friend requests, logins,       *)
(* clicks, events and requests under way: its types, what runs for a user,  *)
(* which tokens are thrown away, which pages have a user, and what the       *)
(* polls announce.                                                          *)
(***************************************************************************)
EXTENDS Session, SequenceTheorems, FiniteSetTheorems, TLAPS

(* The requests under way.                                                  *)
Sent(kinds) == {c \in Range(calls) : c.kind \in kinds}
Entry == {"boot", "login"}
Alone(s, kinds) ==
  \A i, j \in DOMAIN s : s[i].kind \in kinds /\ s[j].kind \in kinds => i = j

(* One profile is asked for at a time, and with the token that is stored, if *)
(* there is still one.  The start asks for it before anything else runs.     *)
EntryInv ==
  /\ Alone(calls, Entry)
  /\ form # None => Sent(Entry) = {}
  /\ Sent({"boot"}) # {} => ~appBootstrapped /\ page \notin GuestPages
  /\ \A c \in Sent(Entry) : c.tok \in Tokens /\ storedToken \in {None, c.tok}

(* What App.vue starts once.                                                *)
StartInv ==
  /\ user # None \/ polling \/ listening \/ Sent({"poll"}) # {} => appBootstrapped
  /\ appBootstrapped /\ ~loggedOut => polling /\ listening

(* A page that was entered once has one token everywhere.                   *)
TokenInv ==
  ~reentered /\ storedToken # None =>
    /\ \A c \in Range(calls) : c.tok = storedToken
    /\ socket.tok \in {None, storedToken}

(* Whoever has a token, or a page that needs one, has a profile, or it is    *)
(* asked for, or was in vain.                                               *)
ProfileInv ==
  user = None /\ (page \notin GuestPages \/ storedToken # None) =>
    Sent(Entry) # {} \/ profileLost

(* The polls of one user, one after the other: what was announced and is not *)
(* in the last answer is not open any more, and the next answer will not    *)
(* have it.  After a logout there is at most one poll, and nothing announced *)
(* before it.                                                               *)
OneUser == \A u, w \in pollsOf : u = w
PollerInv ==
  polling =>
    /\ storedToken # None => storedToken.of \in pollsOf
    /\ \A c \in Sent({"poll", "login"}) : c.tok # None => c.tok.of \in pollsOf
    /\ \A id \in polled : Addressee[id] \in pollsOf
    /\ open \cap polled \subseteq prevRequestIds
LastPollInv ==
  ~polling => polled = prevRequestIds /\ (Sent({"poll"}) # {} => polled = {})
AnswerInv ==
  \A c \in Sent({"poll"}) : c.pc = "ok" =>
    /\ c.tok # None /\ \A id \in c.got : Addressee[id] = c.tok.of
    /\ open \cap polled \subseteq c.got
    /\ c.got \cap polled \subseteq prevRequestIds
PollInv ==
  /\ prevRequestIds \subseteq polled
  /\ ~crossed /\ OneUser =>
       /\ ~twice /\ Alone(calls, {"poll"})
       /\ PollerInv /\ LastPollInv /\ AnswerInv

(* Room for the requests: those that Sends counts, the first poll of the     *)
(* start and one for a profile.                                             *)
RoomInv ==
  Len(calls) <= MaxCalls + (IF appBootstrapped THEN 1 ELSE 0)
                         + (IF Sent(Entry) # {} THEN 1 ELSE 0)

SessionInv ==
  /\ SessionTypeOK
  /\ \A c \in Range(calls) : c.got \subseteq seen
  /\ RoomInv /\ EntryInv /\ StartInv /\ TokenInv /\ ProfileInv /\ PollInv

-----------------------------------------------------------------------------
(* Sequences.                                                               *)

LEMMA RangeOf ==
  ASSUME NEW s
  PROVE  /\ \A c \in Range(s) : \E i \in DOMAIN s : s[i] = c
         /\ \A i \in DOMAIN s : s[i] \in Range(s)
<1>1. \A c \in Range(s) : \E i \in DOMAIN s : s[i] = c
  BY DEF Range
<1>2. \A i \in DOMAIN s : s[i] \in Range(s)
  BY DEF Range
<1> QED BY <1>1, <1>2

LEMMA RangeTyped ==
  ASSUME NEW S, NEW s \in Seq(S)
  PROVE  Range(s) \subseteq S
<1>1. DOMAIN s = 1..Len(s) /\ \A i \in 1..Len(s) : s[i] \in S
  BY LenProperties, ElementOfSeq
<1>2. \A c \in Range(s) : c \in S
  <2>1. TAKE c \in Range(s)
  <2>2. PICK i \in DOMAIN s : s[i] = c
    BY RangeOf
  <2> QED BY <1>1, <2>2
<1> QED BY <1>2

\* RemoveAt keeps the others in their order.
LEMMA Removed ==
  ASSUME NEW S, NEW s \in Seq(S), NEW i \in DOMAIN s
  PROVE  /\ RemoveAt(s, i) \in Seq(S) /\ Len(RemoveAt(s, i)) = Len(s) - 1
         /\ \A j \in 1..(Len(s) - 1) : RemoveAt(s, i)[j] = s[IF j < i THEN j ELSE j + 1]
<1> DEFINE l == SubSeq(s, 1, i - 1)
           r == SubSeq(s, i + 1, Len(s))
<1>1. Len(s) \in Nat /\ DOMAIN s = 1..Len(s) /\ i \in 1..Len(s)
      /\ \A j \in 1..Len(s) : s[j] \in S
  BY LenProperties, ElementOfSeq
<1>2. /\ l \in Seq(S) /\ Len(l) = i - 1 /\ \A j \in 1..(i - 1) : l[j] = s[j]
  <2>1. 1 \in Int /\ i - 1 \in Int /\ \A j \in 1..(i - 1) : s[j] \in S
    BY <1>1
  <2>2. /\ l \in Seq(S) /\ Len(l) = IF 1 <= i - 1 THEN (i - 1) - 1 + 1 ELSE 0
        /\ \A j \in 1..((i - 1) - 1 + 1) : l[j] = s[1 + j - 1]
    BY <2>1, SubSeqProperties
  <2> QED BY <1>1, <2>2
<1>3. /\ r \in Seq(S) /\ Len(r) = Len(s) - i /\ \A j \in 1..(Len(s) - i) : r[j] = s[i + j]
  <2>1. i + 1 \in Int /\ Len(s) \in Int /\ \A j \in (i + 1)..Len(s) : s[j] \in S
    BY <1>1
  <2>2. /\ r \in Seq(S)
        /\ Len(r) = IF i + 1 <= Len(s) THEN Len(s) - (i + 1) + 1 ELSE 0
        /\ \A j \in 1..(Len(s) - (i + 1) + 1) : r[j] = s[(i + 1) + j - 1]
    BY <2>1, SubSeqProperties
  <2>3. Len(s) - (i + 1) + 1 = Len(s) - i /\ (i + 1 <= Len(s) \/ Len(s) - i = 0)
    BY <1>1
  <2>4. \A j \in 1..(Len(s) - i) : (i + 1) + j - 1 = i + j
    BY <1>1
  <2> HIDE DEF r
  <2> QED BY <2>2, <2>3, <2>4
<1>4. /\ l \o r \in Seq(S) /\ Len(l \o r) = Len(l) + Len(r)
      /\ \A j \in 1..(Len(l) + Len(r)) : (l \o r)[j] = IF j <= Len(l) THEN l[j] ELSE r[j - Len(l)]
  BY <1>2, <1>3, ConcatProperties
<1>5. RemoveAt(s, i) = l \o r
  BY DEF RemoveAt
<1> HIDE DEF l, r
<1>6. Len(l) + Len(r) = Len(s) - 1
  BY <1>1, <1>2, <1>3
<1>7. ASSUME NEW j \in 1..(Len(s) - 1)
      PROVE  (l \o r)[j] = s[IF j < i THEN j ELSE j + 1]
  <2>1. CASE j < i
    BY <1>1, <1>2, <1>4, <1>6, <2>1
  <2>2. CASE ~(j < i)
    <3>1. j - Len(l) \in 1..(Len(s) - i) /\ ~(j <= Len(l)) /\ i + (j - Len(l)) = j + 1
      BY <1>1, <1>2, <2>2
    <3>2. (l \o r)[j] = r[j - Len(l)]
      BY <1>4, <1>6, <3>1
    <3> QED BY <1>3, <2>2, <3>1, <3>2
  <2> QED BY <2>1, <2>2
<1> QED BY <1>4, <1>5, <1>6, <1>7

LEMMA RangeRemoved ==
  ASSUME NEW S, NEW s \in Seq(S), NEW i \in DOMAIN s
  PROVE  /\ Range(RemoveAt(s, i)) \subseteq Range(s)
         /\ \A c \in Range(s) : c # s[i] => c \in Range(RemoveAt(s, i))
<1> DEFINE r == RemoveAt(s, i)
<1>1. Len(s) \in Nat /\ DOMAIN s = 1..Len(s) /\ i \in 1..Len(s)
  BY LenProperties
<1>2. /\ DOMAIN r = 1..(Len(s) - 1)
      /\ \A j \in 1..(Len(s) - 1) : r[j] = s[IF j < i THEN j ELSE j + 1]
  BY Removed, LenProperties
<1> HIDE DEF r
<1>3. Range(r) \subseteq Range(s)
  BY <1>1, <1>2 DEF Range
<1>4. ASSUME NEW c \in Range(s), c # s[i]
      PROVE  c \in Range(r)
  <2>1. PICK j \in 1..Len(s) : s[j] = c
    BY <1>1 DEF Range
  <2>2. j # i
    BY <1>4, <2>1
  <2>3. CASE j < i
    <3>1. j \in DOMAIN r /\ r[j] = c
      BY <1>1, <1>2, <2>1, <2>3
    <3> QED BY <3>1 DEF Range
  <2>4. CASE j > i
    <3>1. j - 1 \in DOMAIN r /\ r[j - 1] = c
      BY <1>1, <1>2, <2>1, <2>4
    <3> QED BY <3>1 DEF Range
  <2> QED BY <1>1, <2>2, <2>3, <2>4
<1> QED BY <1>3, <1>4 DEF r

LEMMA AloneRemoved ==
  ASSUME NEW s \in Seq(Calls), NEW i \in DOMAIN s, NEW kinds, Alone(s, kinds)
  PROVE  /\ Alone(RemoveAt(s, i), kinds)
         /\ s[i].kind \in kinds => \A c \in Range(RemoveAt(s, i)) : c.kind \notin kinds
<1> DEFINE r == RemoveAt(s, i)
           from(j) == IF j < i THEN j ELSE j + 1
<1>1. Len(s) \in Nat /\ DOMAIN s = 1..Len(s) /\ i \in 1..Len(s)
  BY LenProperties
<1>2. DOMAIN r = 1..(Len(s) - 1) /\ \A j \in 1..(Len(s) - 1) : r[j] = s[from(j)]
  BY Removed, LenProperties
<1>3. \A j \in 1..(Len(s) - 1) : from(j) \in 1..Len(s) /\ from(j) # i
  BY <1>1
<1>4. \A j, k \in 1..(Len(s) - 1) : from(j) = from(k) => j = k
  BY <1>1
<1> HIDE DEF r, from
<1>5. Alone(r, kinds)
  BY <1>1, <1>2, <1>3, <1>4 DEF Alone
<1>6. s[i].kind \in kinds => \A c \in Range(r) : c.kind \notin kinds
  BY <1>1, <1>2, <1>3 DEF Alone, Range
<1> QED BY <1>5, <1>6 DEF r

LEMMA RangeAppended ==
  ASSUME NEW S, NEW s \in Seq(S), NEW c \in S
  PROVE  /\ Append(s, c) \in Seq(S) /\ Len(Append(s, c)) = Len(s) + 1
         /\ Range(Append(s, c)) = Range(s) \cup {c}
<1>1. Len(s) \in Nat /\ DOMAIN s = 1..Len(s)
  BY LenProperties
<1>2. /\ Append(s, c) \in Seq(S) /\ Len(Append(s, c)) = Len(s) + 1
      /\ \A j \in 1..(Len(s) + 1) : Append(s, c)[j] = IF j = Len(s) + 1 THEN c ELSE s[j]
  BY AppendProperties, <1>1
<1>3. DOMAIN Append(s, c) = 1..(Len(s) + 1)
  BY <1>2, LenProperties
<1> QED BY <1>1, <1>2, <1>3 DEF Range

LEMMA AloneAppended ==
  ASSUME NEW s \in Seq(Calls), NEW c \in Calls, NEW kinds, Alone(s, kinds),
         c.kind \notin kinds \/ \A d \in Range(s) : d.kind \notin kinds
  PROVE  Alone(Append(s, c), kinds)
<1>1. Len(s) \in Nat /\ DOMAIN s = 1..Len(s)
  BY LenProperties
<1>2. /\ Append(s, c) \in Seq(Calls) /\ Len(Append(s, c)) = Len(s) + 1
      /\ \A j \in 1..(Len(s) + 1) : Append(s, c)[j] = IF j = Len(s) + 1 THEN c ELSE s[j]
  BY AppendProperties, <1>1
<1>3. DOMAIN Append(s, c) = 1..(Len(s) + 1)
  BY <1>2, LenProperties
<1>4. \A j \in 1..Len(s) : s[j] \in Range(s)
  BY <1>1 DEF Range
<1> QED BY <1>1, <1>2, <1>3, <1>4 DEF Alone

-----------------------------------------------------------------------------
(* The notification store.                                                  *)

LEMMA AsSeq ==
  ASSUME NEW ids \in SUBSET Ids
  PROVE  SetToSeq(ids) \in Seq(Ids \cup {Notice})
<1>1. IsFiniteSet(ids)
  BY FS_Subset, NotificationsAssumption
<1>2. Cardinality(ids) \in Nat /\ ExistsBijection(1..Cardinality(ids), ids)
  BY <1>1, FS_CardinalityType
<1>3. \E f \in [1..Cardinality(ids) -> ids] : IsInjective(f)
  BY <1>2 DEF ExistsBijection, Bijection, Injection
<1>4. SetToSeq(ids) \in [1..Cardinality(ids) -> ids]
  BY <1>3 DEF SetToSeq
<1>5. SetToSeq(ids) \in [1..Cardinality(ids) -> Ids \cup {Notice}]
  BY <1>4
<1> QED BY <1>2, <1>5, SeqDef

LEMMA Added ==
  ASSUME items \in Seq(Items), NEW ids \in Seq(Ids \cup {Notice})
  PROVE  addNotification(ids) \in Seq(Items) /\ Len(addNotification(ids)) <= Cap
<1> DEFINE new == [i \in 1..Len(ids) |-> [id |-> ids[i], read |-> FALSE]]
           all == new \o items
           n == IF Len(all) > Cap THEN Cap ELSE Len(all)
<1>1. Len(ids) \in Nat /\ \A i \in 1..Len(ids) : ids[i] \in Ids \cup {Notice}
  BY LenProperties, ElementOfSeq
<1>2. new \in [1..Len(ids) -> Items]
  BY <1>1 DEF Items
<1>3. new \in Seq(Items)
  BY <1>1, <1>2, SeqDef
<1> HIDE DEF new
<1>4. all \in Seq(Items)
  BY <1>3, ConcatProperties
<1>5. Len(all) \in Nat /\ \A i \in 1..Len(all) : all[i] \in Items
  BY <1>4, LenProperties, ElementOfSeq
<1> HIDE DEF all
<1>6. n \in Nat /\ n <= Cap /\ n <= Len(all)
  BY <1>5, NotificationsAssumption
<1> HIDE DEF n
<1>7. 1 \in Int /\ n \in Int /\ \A i \in 1..n : all[i] \in Items
  BY <1>5, <1>6
<1>8. /\ SubSeq(all, 1, n) \in Seq(Items)
      /\ Len(SubSeq(all, 1, n)) = IF 1 <= n THEN n - 1 + 1 ELSE 0
  BY <1>7, SubSeqProperties
<1>9. addNotification(ids) = SubSeq(all, 1, n)
  BY DEF addNotification, all, new, n
<1> QED BY <1>6, <1>8, <1>9, NotificationsAssumption

LEMMA SameLength ==
  ASSUME NEW m \in Nat, NEW n \in Nat, 1..m = 1..n
  PROVE  m = n
<1>1. \A k \in Nat : k \in 1..m <=> k \in 1..n
  OBVIOUS
<1>2. m \in 1..m \/ m = 0
  OBVIOUS
<1>3. n \in 1..n \/ n = 0
  OBVIOUS
<1> QED BY <1>1, <1>2, <1>3

LEMMA MarkedRead ==
  ASSUME items \in Seq(Items), Len(items) <= Cap,
         markAllRead \/ clearAll \/ \E i \in DOMAIN items : markRead(i)
  PROVE  items' \in Seq(Items) /\ Len(items') <= Cap
<1>1. Len(items) \in Nat /\ DOMAIN items = 1..Len(items)
      /\ \A i \in 1..Len(items) : items[i] \in Items
  BY LenProperties, ElementOfSeq
<1>2. CASE clearAll
  <2>1. <<>> \in Seq(Items) /\ Len(<<>>) = 0
    BY EmptySeq
  <2> QED BY <1>2, <2>1, NotificationsAssumption DEF clearAll
<1>3. CASE markAllRead \/ \E i \in DOMAIN items : markRead(i)
  <2>1. items' \in [1..Len(items) -> Items]
    BY <1>1, <1>3 DEF markAllRead, markRead, Items
  <2>2. items' \in Seq(Items)
    BY <1>1, <2>1, SeqDef
  <2>3. Len(items') = Len(items)
    <3>1. Len(items') \in Nat /\ DOMAIN items' = 1..Len(items')
      BY <2>2, LenProperties
    <3>2. 1..Len(items') = 1..Len(items)
      BY <2>1, <3>1
    <3> QED BY <1>1, <3>1, <3>2, SameLength
  <2> QED BY <1>1, <2>2, <2>3
<1> QED BY <1>2, <1>3

LEMMA UnderSent ==
  ASSUME NEW kind
  PROVE  Under(kind) <=> Sent({kind}) # {}
<1>1. \A i \in DOMAIN calls : calls[i] \in Range(calls)
  BY RangeOf
<1>2. \A c \in Range(calls) : \E i \in DOMAIN calls : calls[i] = c
  BY RangeOf
<1> QED BY <1>1, <1>2 DEF Under, Sent

-----------------------------------------------------------------------------
(* The steps that leave the requests under way as they are.                 *)

LEMMA Navigates ==
  ASSUME SessionInv, NEW to \in Pages, navigate(to)
  PROVE  SessionInv'
<1>1. /\ SessionTypeOK /\ RoomInv /\ EntryInv /\ StartInv /\ TokenInv /\ ProfileInv /\ PollInv
      /\ \A c \in Range(calls) : c.got \subseteq seen
  BY DEF SessionInv
<1>2. /\ page' = Guard(to, storedToken) /\ page' \in Pages
      /\ page' \notin GuestPages => storedToken # None
  BY DEF navigate, Guard, Pages, GuestPages
<1>3. UNCHANGED <<notificationVars, authVars, form, appBootstrapped, socket, calls, serverVars,
                  historyVars, eventsDone>> /\ clicks' \in 0..MaxClicks
  BY <1>1, SessionAssumption DEF navigate, Click, SessionTypeOK
<1>4. SessionTypeOK'
  BY <1>1, <1>2, <1>3 DEF SessionTypeOK, NotificationsTypeOK, notificationVars, requestVars, pollVars,
     authVars, serverVars, historyVars
<1>5. (\A c \in Range(calls) : c.got \subseteq seen)' /\ RoomInv' /\ StartInv' /\ TokenInv' /\ PollInv'
  BY <1>1, <1>3 DEF RoomInv, StartInv, TokenInv, PollInv, OneUser, PollerInv, LastPollInv, AnswerInv, Sent,
     notificationVars, requestVars, pollVars, authVars, serverVars, historyVars
<1>6. EntryInv'
  <2>1. appBootstrapped \/ page \in GuestPages
    BY DEF navigate
  <2>2. Sent({"boot"}) = {}
    BY <1>1, <2>1 DEF EntryInv
  <2> QED BY <1>1, <1>3, <2>2 DEF EntryInv, Sent, authVars
<1>7. ProfileInv'
  BY <1>1, <1>2, <1>3 DEF ProfileInv, Sent, authVars, historyVars
<1> QED BY <1>4, <1>5, <1>6, <1>7 DEF SessionInv

LEMMA BellUsed ==
  ASSUME SessionInv, useBell
  PROVE  SessionInv'
<1>1. /\ SessionTypeOK /\ RoomInv /\ EntryInv /\ StartInv /\ TokenInv /\ ProfileInv /\ PollInv
      /\ \A c \in Range(calls) : c.got \subseteq seen
  BY DEF SessionInv
<1>2. items' \in Seq(Items) /\ Len(items') <= Cap
  BY <1>1, MarkedRead DEF useBell, SessionTypeOK, NotificationsTypeOK
<1>3. UNCHANGED <<requestVars, listening, pollVars, authVars, page, form, appBootstrapped, socket,
                  calls, serverVars, historyVars, eventsDone>> /\ clicks' \in 0..MaxClicks
  BY <1>1, SessionAssumption DEF useBell, Click, SessionTypeOK
<1>4. SessionTypeOK'
  BY <1>1, <1>2, <1>3 DEF SessionTypeOK, NotificationsTypeOK, requestVars, pollVars, authVars,
     serverVars, historyVars
<1>5. /\ (\A c \in Range(calls) : c.got \subseteq seen)' /\ RoomInv' /\ EntryInv' /\ StartInv'
      /\ TokenInv' /\ ProfileInv' /\ PollInv'
  BY <1>1, <1>3 DEF RoomInv, EntryInv, StartInv, TokenInv, ProfileInv, PollInv, OneUser, PollerInv,
     LastPollInv, AnswerInv, Sent, requestVars, pollVars, authVars, historyVars
<1> QED BY <1>4, <1>5 DEF SessionInv

LEMMA Submits ==
  ASSUME SessionInv, NEW u \in Users, loginSubmit(u) \/ registerSubmit(u)
  PROVE  SessionInv'
<1>1. /\ SessionTypeOK /\ RoomInv /\ EntryInv /\ StartInv /\ TokenInv /\ ProfileInv /\ PollInv
      /\ \A c \in Range(calls) : c.got \subseteq seen
  BY DEF SessionInv
<1>2. Submit(u) /\ page \in GuestPages
  BY DEF loginSubmit, registerSubmit, GuestPages
<1>3. /\ UNCHANGED <<notificationVars, authVars, page, appBootstrapped, socket, calls, serverVars,
                     historyVars, eventsDone>>
      /\ clicks' \in 0..MaxClicks /\ form' \in Forms
  BY <1>1, <1>2, SessionAssumption DEF Submit, Click, SessionTypeOK, Forms
<1>4. SessionTypeOK'
  BY <1>1, <1>3 DEF SessionTypeOK, NotificationsTypeOK, notificationVars, requestVars, pollVars,
     authVars, serverVars, historyVars
<1>5. /\ (\A c \in Range(calls) : c.got \subseteq seen)' /\ RoomInv' /\ StartInv'
      /\ TokenInv' /\ ProfileInv' /\ PollInv'
  BY <1>1, <1>3 DEF RoomInv, StartInv, TokenInv, ProfileInv, PollInv, OneUser, PollerInv, LastPollInv,
     AnswerInv, Sent, notificationVars, requestVars, pollVars, authVars, historyVars
<1>6. EntryInv'
  <2>1. Sent({"login"}) = {}
    BY <1>2, UnderSent DEF Submit
  <2>2. Sent({"boot"}) = {}
    BY <1>1, <1>2 DEF EntryInv
  <2>3. Sent(Entry) = {}
    BY <2>1, <2>2 DEF Sent, Entry
  <2> QED BY <1>1, <1>3, <2>3 DEF EntryInv, Sent, authVars
<1> QED BY <1>4, <1>5, <1>6 DEF SessionInv

LEMMA FormFails ==
  ASSUME SessionInv, notEntered
  PROVE  SessionInv'
<1>1. /\ SessionTypeOK /\ RoomInv /\ EntryInv /\ StartInv /\ TokenInv /\ ProfileInv /\ PollInv
      /\ \A c \in Range(calls) : c.got \subseteq seen
  BY DEF SessionInv
<1>2. SessionTypeOK'
  BY <1>1 DEF notEntered, SessionTypeOK, NotificationsTypeOK, notificationVars, requestVars,
     pollVars, authVars, serverVars, counterVars, historyVars
<1>3. /\ (\A c \in Range(calls) : c.got \subseteq seen)' /\ RoomInv' /\ EntryInv' /\ StartInv'
      /\ TokenInv' /\ ProfileInv' /\ PollInv'
  BY <1>1 DEF notEntered, RoomInv, EntryInv, StartInv, TokenInv, ProfileInv, PollInv, OneUser, PollerInv,
     LastPollInv, AnswerInv, Sent, notificationVars, requestVars, pollVars, authVars, historyVars
<1> QED BY <1>2, <1>3 DEF SessionInv

LEMMA SocketMade ==
  ASSUME SessionInv, ensureConnected \/ reconnecting
  PROVE  SessionInv'
<1>1. /\ SessionTypeOK /\ RoomInv /\ EntryInv /\ StartInv /\ TokenInv /\ ProfileInv /\ PollInv
      /\ \A c \in Range(calls) : c.got \subseteq seen
  BY DEF SessionInv
<1>2. /\ socket' \in [tok : Tokens, st : {"connecting", "up", "down"}]
      /\ socket'.tok \in {storedToken, socket.tok}
  <2>1. CASE ensureConnected
    BY <1>1, <2>1 DEF ensureConnected, Good, SessionTypeOK, NoSocket
  <2>2. CASE reconnecting
    BY <1>1, <2>2 DEF reconnecting, SessionTypeOK, NoSocket
  <2> QED BY <2>1, <2>2
<1>3. /\ UNCHANGED <<notificationVars, authVars, page, form, appBootstrapped, calls, serverVars,
                     historyVars, clicks>>
      /\ eventsDone' \in 0..MaxEvents
  BY <1>1, SessionAssumption DEF ensureConnected, reconnecting, Event, SessionTypeOK, counterVars
<1>4. SessionTypeOK'
  BY <1>1, <1>2, <1>3 DEF SessionTypeOK, NotificationsTypeOK, notificationVars, requestVars,
     pollVars, authVars, serverVars, historyVars
<1>5. /\ (\A c \in Range(calls) : c.got \subseteq seen)' /\ RoomInv' /\ EntryInv' /\ StartInv'
      /\ ProfileInv' /\ PollInv'
  BY <1>1, <1>3 DEF RoomInv, EntryInv, StartInv, ProfileInv, PollInv, OneUser, PollerInv, LastPollInv,
     AnswerInv, Sent, notificationVars, requestVars, pollVars, authVars, historyVars
<1>6. TokenInv'
  BY <1>1, <1>2, <1>3 DEF TokenInv, authVars, historyVars
<1> QED BY <1>4, <1>5, <1>6 DEF SessionInv

LEMMA SocketAnswered ==
  ASSUME SessionInv, connected
  PROVE  SessionInv'
<1>1. /\ SessionTypeOK /\ RoomInv /\ EntryInv /\ StartInv /\ TokenInv /\ ProfileInv /\ PollInv
      /\ \A c \in Range(calls) : c.got \subseteq seen
  BY DEF SessionInv
<1>2. /\ UNCHANGED <<notificationVars, token, user, page, form, appBootstrapped, calls, serverVars,
                     counterVars, loggedOut, reentered, profileLost, crossed, pollsOf>>
  BY DEF connected
<1>3. /\ socket' \in [tok : Tokens, st : {"connecting", "up", "down"}]
      /\ socket'.tok = socket.tok /\ socket.tok \in Tokens
  BY <1>1 DEF connected, SessionTypeOK, NoSocket
<1>4. storedToken' \in {None, storedToken}
  BY DEF connected
<1>5. SessionTypeOK'
  BY <1>1, <1>2, <1>3, <1>4 DEF SessionTypeOK, NotificationsTypeOK, notificationVars, requestVars,
     pollVars, serverVars, counterVars
<1>6. /\ (\A c \in Range(calls) : c.got \subseteq seen)' /\ RoomInv' /\ EntryInv' /\ StartInv'
      /\ ProfileInv' /\ PollInv'
  BY <1>1, <1>2, <1>4 DEF RoomInv, EntryInv, StartInv, ProfileInv, PollInv, OneUser, PollerInv, LastPollInv,
     AnswerInv, Sent, notificationVars, requestVars, pollVars
<1>7. TokenInv'
  BY <1>1, <1>2, <1>3, <1>4, SessionAssumption DEF TokenInv
<1> QED BY <1>5, <1>6, <1>7 DEF SessionInv

LEMMA Expires ==
  ASSUME SessionInv, NEW t \in Tokens, expire(t)
  PROVE  SessionInv'
<1>1. /\ SessionTypeOK /\ RoomInv /\ EntryInv /\ StartInv /\ TokenInv /\ ProfileInv /\ PollInv
      /\ \A c \in Range(calls) : c.got \subseteq seen
  BY DEF SessionInv
<1>2. /\ UNCHANGED <<notificationVars, authVars, page, form, appBootstrapped, socket, calls,
                     accounts, issued, historyVars, clicks>>
      /\ eventsDone' \in 0..MaxEvents /\ expired' \subseteq Tokens
  BY <1>1, SessionAssumption DEF expire, Event, SessionTypeOK
<1>3. SessionTypeOK'
  BY <1>1, <1>2 DEF SessionTypeOK, NotificationsTypeOK, notificationVars, requestVars, pollVars,
     authVars, historyVars
<1>4. /\ (\A c \in Range(calls) : c.got \subseteq seen)' /\ RoomInv' /\ EntryInv' /\ StartInv'
      /\ TokenInv' /\ ProfileInv' /\ PollInv'
  BY <1>1, <1>2 DEF RoomInv, EntryInv, StartInv, TokenInv, ProfileInv, PollInv, OneUser, PollerInv,
     LastPollInv, AnswerInv, Sent, notificationVars, requestVars, pollVars, authVars, historyVars
<1> QED BY <1>3, <1>4 DEF SessionInv

\* A request that is made was announced by no poll before.
LEMMA RequestsMove ==
  ASSUME SessionInv, NEW id \in Ids, requestsMove(id)
  PROVE  SessionInv'
<1>1. /\ SessionTypeOK /\ RoomInv /\ EntryInv /\ StartInv /\ TokenInv /\ ProfileInv /\ PollInv
      /\ \A c \in Range(calls) : c.got \subseteq seen
  BY DEF SessionInv
<1>2. /\ UNCHANGED <<authVars, page, form, appBootstrapped, socket, calls, serverVars, historyVars,
                     clicks, listening, pollVars>>
      /\ eventsDone' \in 0..MaxEvents
  BY <1>1, SessionAssumption DEF requestsMove, friendRequest, notice, requestEnds, Event,
     SessionTypeOK
<1>3. items' \in Seq(Items) /\ Len(items') <= Cap
  <2>1. <<id>> \in Seq(Ids \cup {Notice}) /\ <<Notice>> \in Seq(Ids \cup {Notice})
    OBVIOUS
  <2>2. items \in Seq(Items) /\ Len(items) <= Cap
    BY <1>1 DEF SessionTypeOK, NotificationsTypeOK
  <2>3. items' \in {items, addNotification(<<id>>), addNotification(<<Notice>>)}
    BY DEF requestsMove, friendRequest, notice, requestEnds
  <2> QED BY <2>1, <2>2, <2>3, Added
<1>4. /\ open' \subseteq seen' /\ seen \subseteq seen' /\ seen' \subseteq Ids
      /\ open' \cap polled \subseteq open
  BY <1>1 DEF requestsMove, friendRequest, notice, requestEnds, requestVars, SessionTypeOK,
     NotificationsTypeOK
<1>5. SessionTypeOK'
  BY <1>1, <1>2, <1>3, <1>4 DEF SessionTypeOK, NotificationsTypeOK, pollVars, authVars, serverVars,
     historyVars
<1>6. (\A c \in Range(calls) : c.got \subseteq seen)'
  BY <1>1, <1>2, <1>4
<1>7. RoomInv' /\ EntryInv' /\ StartInv' /\ TokenInv' /\ ProfileInv'
  BY <1>1, <1>2 DEF RoomInv, EntryInv, StartInv, TokenInv, ProfileInv, Sent, pollVars, authVars,
     historyVars
<1>8. PollInv'
  BY <1>1, <1>2, <1>4 DEF PollInv, OneUser, PollerInv, LastPollInv, AnswerInv, Sent, pollVars, authVars,
     historyVars
<1> QED BY <1>5, <1>6, <1>7, <1>8 DEF SessionInv

LEMMA LogsOut ==
  ASSUME SessionInv, onLogout
  PROVE  SessionInv'
<1>1. /\ SessionTypeOK /\ RoomInv /\ EntryInv /\ StartInv /\ TokenInv /\ ProfileInv /\ PollInv
      /\ \A c \in Range(calls) : c.got \subseteq seen
  BY DEF SessionInv
<1>2. /\ UNCHANGED <<requestVars, items, form, appBootstrapped, calls, serverVars, reentered,
                     profileLost, crossed, pollsOf, eventsDone>>
      /\ clicks' \in 0..MaxClicks
      /\ polling' = FALSE /\ prevRequestIds' = {} /\ polled' = {} /\ twice' = FALSE
      /\ listening' = FALSE /\ socket' = NoSocket
      /\ storedToken' = None /\ token' = None /\ user' = None /\ page' = "login"
      /\ loggedOut' = TRUE
  BY <1>1, SessionAssumption DEF onLogout, stopPolling, stopSocketListeners, Click, SessionTypeOK
<1>3. SessionTypeOK'
  BY <1>1, <1>2 DEF SessionTypeOK, NotificationsTypeOK, requestVars, serverVars, Pages, GuestPages
<1>4. (\A c \in Range(calls) : c.got \subseteq seen)' /\ RoomInv' /\ TokenInv' /\ ProfileInv'
  BY <1>1, <1>2 DEF RoomInv, TokenInv, ProfileInv, Sent, requestVars, GuestPages
<1>5. EntryInv' /\ StartInv'
  <2>1. appBootstrapped
    BY DEF onLogout
  <2> QED BY <1>1, <1>2, <2>1 DEF EntryInv, StartInv, Sent
<1>6. PollInv'
  BY <1>1, <1>2 DEF PollInv, OneUser, PollerInv, LastPollInv, AnswerInv, Sent
<1> QED BY <1>3, <1>4, <1>5, <1>6 DEF SessionInv

-----------------------------------------------------------------------------
(* The page is loaded.                                                      *)

Started(tok) == IF tok = None THEN <<>> ELSE <<Call("boot", tok)>>

LEMMA StartedCalls ==
  ASSUME NEW tok \in Tokens \cup {None}
  PROVE  /\ Started(tok) \in Seq(Calls)
         /\ Len(Started(tok)) = IF tok = None THEN 0 ELSE 1
         /\ Range(Started(tok)) = IF tok = None THEN {} ELSE {Call("boot", tok)}
         /\ Alone(Started(tok), Entry) /\ Alone(Started(tok), {"poll"})
<1>1. CASE tok = None
  <2>1. Started(tok) = <<>> /\ <<>> \in Seq(Calls) /\ Len(<<>>) = 0 /\ DOMAIN <<>> = 1..0
    BY <1>1, EmptySeq, LenProperties DEF Started
  <2>2. DOMAIN <<>> = {}
    BY <2>1
  <2>3. Range(<<>>) = {}
    BY <2>2 DEF Range
  <2>4. Alone(<<>>, Entry) /\ Alone(<<>>, {"poll"})
    BY <2>2 DEF Alone
  <2> QED BY <1>1, <2>1, <2>3, <2>4
<1>2. CASE tok # None
  <2> DEFINE c == Call("boot", tok)
  <2>1. Started(tok) = <<c>> /\ c \in Calls
    BY <1>2 DEF Started, Call, Calls
  <2> HIDE DEF c
  <2>2. <<c>> \in Seq(Calls) /\ Len(<<c>>) = 1 /\ DOMAIN <<c>> = {1} /\ <<c>>[1] = c
    BY <2>1
  <2>3. Range(<<c>>) = {c}
    BY <2>2 DEF Range
  <2>4. Alone(<<c>>, Entry) /\ Alone(<<c>>, {"poll"})
    BY <2>2 DEF Alone
  <2> QED BY <1>2, <2>1, <2>2, <2>3, <2>4 DEF c
<1> QED BY <1>1, <1>2

LEMMA Loads ==
  ASSUME SessionInv, NEW tok \in Tokens \cup {None}, Loaded(tok),
         UNCHANGED <<requestVars, serverVars>>,
         clicks' \in 0..MaxClicks, eventsDone' \in 0..MaxEvents
  PROVE  SessionInv'
<1>1. SessionTypeOK
  BY DEF SessionInv
<1>2. calls' = Started(tok)
  BY DEF Loaded, Started
<1>3. /\ calls' \in Seq(Calls)
      /\ Len(calls') = IF tok = None THEN 0 ELSE 1
      /\ Range(calls') = IF tok = None THEN {} ELSE {Call("boot", tok)}
      /\ Alone(calls', Entry) /\ Alone(calls', {"poll"})
  BY <1>2, StartedCalls
<1>4. /\ storedToken' = tok /\ token' = tok /\ user' = None
      /\ page' = IF tok = None THEN "login" ELSE "map"
      /\ form' = None /\ appBootstrapped' = FALSE /\ socket' = NoSocket
      /\ items' = <<>> /\ listening' = FALSE
      /\ polling' = FALSE /\ prevRequestIds' = {} /\ polled' = {} /\ twice' = FALSE
      /\ loggedOut' = FALSE /\ reentered' = FALSE /\ profileLost' = FALSE
      /\ crossed' = FALSE /\ pollsOf' = {}
  BY DEF Loaded, stopPolling, stopSocketListeners
<1>5. SessionTypeOK'
  <2>1. items' \in Seq(Items) /\ Len(items') <= Cap
    BY <1>4, EmptySeq, NotificationsAssumption
  <2>2. Len(calls') <= MaxCalls + 2
    BY <1>3, SessionAssumption
  <2> QED BY <1>1, <1>3, <1>4, <2>1, <2>2 DEF SessionTypeOK, NotificationsTypeOK, requestVars,
          serverVars, Pages, GuestPages
<1>6. \A c \in Range(calls') :
        c.kind = "boot" /\ c.tok = tok /\ c.got = {} /\ tok # None
  BY <1>3 DEF Call
<1>7. (\A c \in Range(calls) : c.got \subseteq seen)'
  BY <1>6
<1>8. Sent({"poll"})' = {} /\ Sent({"poll", "login"})' = {}
  BY <1>6 DEF Sent
<1>9. (Sent(Entry) # {})' <=> tok # None
  BY <1>3, <1>6 DEF Sent, Entry, Call
<1>10. RoomInv'
  BY <1>3, <1>4, <1>9, SessionAssumption DEF RoomInv
<1>11. EntryInv'
  BY <1>3, <1>4, <1>6 DEF EntryInv, Sent, GuestPages
<1>12. StartInv' /\ TokenInv' /\ ProfileInv'
  BY <1>4, <1>6, <1>8, <1>9 DEF StartInv, TokenInv, ProfileInv, NoSocket, GuestPages
<1>13. PollInv'
  BY <1>3, <1>4, <1>8 DEF PollInv, OneUser, PollerInv, LastPollInv, AnswerInv
<1> QED BY <1>5, <1>7, <1>10, <1>11, <1>12, <1>13 DEF SessionInv

LEMMA Reloads ==
  ASSUME SessionInv, reload \/ \E i \in DOMAIN calls : refusedAway(i)
  PROVE  SessionInv'
<1>1. SessionTypeOK
  BY DEF SessionInv
<1>2. CASE reload
  BY <1>1, <1>2, Loads, SessionAssumption DEF reload, Click, SessionTypeOK
<1>3. CASE \E i \in DOMAIN calls : refusedAway(i)
  BY <1>1, <1>3, Loads DEF refusedAway, SessionTypeOK, counterVars
<1> QED BY <1>2, <1>3

-----------------------------------------------------------------------------
(* A request is sent.                                                       *)

LEMMA Sending ==
  ASSUME calls \in Seq(Calls), NEW c \in Calls, calls' = Append(calls, c)
  PROVE  /\ calls' \in Seq(Calls) /\ Len(calls') = Len(calls) + 1
         /\ Range(calls') = Range(calls) \cup {c}
         /\ \A kinds \in {Entry, {"poll"}} :
              Alone(calls, kinds) /\ (c.kind \notin kinds \/ Sent(kinds) = {})
                => Alone(calls', kinds)
<1>1. /\ calls' \in Seq(Calls) /\ Len(calls') = Len(calls) + 1
      /\ Range(calls') = Range(calls) \cup {c}
  BY RangeAppended
<1>2. ASSUME NEW kinds \in {Entry, {"poll"}}, Alone(calls, kinds),
             c.kind \notin kinds \/ Sent(kinds) = {}
      PROVE  Alone(calls', kinds)
  <2>1. c.kind \notin kinds \/ \A d \in Range(calls) : d.kind \notin kinds
    BY <1>2 DEF Sent
  <2> QED BY <1>2, <2>1, AloneAppended
<1> QED BY <1>1, <1>2

\* A login is taken: nobody asks for a profile yet.
LEMMA Enters ==
  ASSUME SessionInv, NEW t \in Tokens, entered(t)
  PROVE  SessionInv'
<1>1. /\ SessionTypeOK /\ RoomInv /\ EntryInv /\ StartInv /\ TokenInv /\ ProfileInv /\ PollInv
      /\ \A c \in Range(calls) : c.got \subseteq seen
  BY DEF SessionInv
<1> DEFINE c == Call("login", t)
<1>2. c \in Calls /\ c.kind = "login" /\ c.tok = t /\ c.got = {} /\ c.pc = "sent"
  BY DEF Call, Calls
<1>3. /\ calls' = Append(calls, c) /\ form # None /\ t.of = form.of
      /\ token' = t /\ storedToken' = t /\ form' = None
      /\ reentered' = (reentered \/ socket # NoSocket \/ calls # <<>>)
      /\ pollsOf' = IF polling THEN pollsOf \cup {t.of} ELSE pollsOf
      /\ UNCHANGED <<notificationVars, user, page, appBootstrapped, socket, expired,
                     counterVars, loggedOut, profileLost, crossed>>
  BY DEF entered
<1> HIDE DEF c
<1>4. /\ calls' \in Seq(Calls) /\ Len(calls') = Len(calls) + 1
      /\ Range(calls') = Range(calls) \cup {c}
      /\ \A kinds \in {Entry, {"poll"}} :
           Alone(calls, kinds) /\ (c.kind \notin kinds \/ Sent(kinds) = {})
             => Alone(calls', kinds)
  BY <1>1, <1>2, <1>3, Sending DEF SessionTypeOK
<1>5. Sent(Entry) = {} /\ Sent(Entry)' = {c} /\ Sent({"boot"})' = {}
      /\ Sent({"poll"})' = Sent({"poll"})
      /\ Sent({"poll", "login"})' = Sent({"poll"}) \cup {c}
  <2>1. Sent(Entry) = {}
    BY <1>1, <1>3 DEF EntryInv
  <2> QED BY <1>2, <1>4, <2>1 DEF Sent, Entry
<1>6. Len(calls) \in Nat
  BY <1>1, LenProperties DEF SessionTypeOK
<1>7. RoomInv'
  BY <1>1, <1>3, <1>4, <1>5, <1>6, SessionAssumption DEF RoomInv
<1>8. SessionTypeOK'
  <2>1. Len(calls') <= MaxCalls + 2
    BY <1>1, <1>3, <1>4, <1>5, <1>6, SessionAssumption DEF RoomInv, SessionTypeOK
  <2>2. issued' \in 0..MaxLogins /\ accounts' \subseteq Users
    BY <1>1, SessionAssumption DEF entered, SessionTypeOK, Forms
  <2>3. pollsOf' \subseteq Users
    BY <1>1, <1>3 DEF SessionTypeOK, Forms
  <2> QED BY <1>1, <1>3, <1>4, <2>1, <2>2, <2>3 DEF SessionTypeOK, NotificationsTypeOK,
          notificationVars, requestVars, pollVars, counterVars
<1>9. (\A d \in Range(calls) : d.got \subseteq seen)'
  BY <1>1, <1>2, <1>3, <1>4 DEF notificationVars, requestVars
<1>10. EntryInv'
  BY <1>1, <1>2, <1>3, <1>4, <1>5 DEF EntryInv
<1>11. StartInv' /\ ProfileInv'
  BY <1>1, <1>3, <1>5 DEF StartInv, ProfileInv, notificationVars, pollVars
<1>12. TokenInv'
  <2>1. SUFFICES ASSUME ~reentered' PROVE TokenInv'
    BY DEF TokenInv
  <2>2. ~reentered /\ socket = NoSocket /\ calls = <<>>
    BY <1>3, <2>1
  <2>3. Range(calls) = {}
    BY <2>2 DEF Range
  <2>4. Range(calls') = {c}
    BY <1>4, <2>3
  <2> QED BY <1>1, <1>2, <1>3, <2>2, <2>4 DEF TokenInv, NoSocket
<1>13. PollInv'
  <2>1. \A d \in Sent({"poll"}) : d \in Sent({"poll", "login"})
    BY DEF Sent
  <2>2. ~crossed' /\ OneUser' => ~crossed /\ OneUser
    BY <1>3 DEF OneUser
  <2>3. prevRequestIds' \subseteq polled'
    BY <1>1, <1>3 DEF PollInv, notificationVars, pollVars
  <2>4. ~crossed' /\ OneUser' => ~twice' /\ Alone(calls', {"poll"})
    BY <1>1, <1>2, <1>3, <1>4, <2>2 DEF PollInv, notificationVars, pollVars
  <2>5. ~crossed' /\ OneUser' => PollerInv'
    BY <1>1, <1>2, <1>3, <1>5, <2>1, <2>2 DEF PollInv, OneUser, PollerInv, notificationVars, requestVars,
       pollVars
  <2>6. ~crossed' /\ OneUser' => LastPollInv' /\ AnswerInv'
    BY <1>1, <1>3, <1>5, <2>2 DEF PollInv, LastPollInv, AnswerInv, notificationVars, requestVars,
       pollVars
  <2> QED BY <2>3, <2>4, <2>5, <2>6 DEF PollInv
<1> QED BY <1>7, <1>8, <1>9, <1>10, <1>11, <1>12, <1>13 DEF SessionInv

\* The timer's poll and a page's request: with the token that is stored.
LEMMA Asks ==
  ASSUME SessionInv, pollTick \/ pageRequest
  PROVE  SessionInv'
<1>1. /\ SessionTypeOK /\ RoomInv /\ EntryInv /\ StartInv /\ TokenInv /\ ProfileInv /\ PollInv
      /\ \A c \in Range(calls) : c.got \subseteq seen
  BY DEF SessionInv
<1>2. PICK c : /\ c \in Calls /\ c.tok = storedToken /\ c.got = {} /\ c.pc = "sent"
               /\ calls' = Append(calls, c) /\ Len(calls) < MaxCalls
               /\ \/ c.kind = "poll" /\ polling /\ crossed' = (crossed \/ Under("poll"))
                  \/ c.kind = "page" /\ crossed' = crossed
  <2>1. CASE pollTick
    <3>1. Call("poll", storedToken) \in Calls
      BY <1>1 DEF Call, Calls, SessionTypeOK
    <3> QED BY <2>1, <3>1 DEF pollTick, Sends, Call
  <2>2. CASE pageRequest
    <3>1. Call("page", storedToken) \in Calls
      BY <1>1 DEF Call, Calls, SessionTypeOK
    <3> QED BY <2>2, <3>1 DEF pageRequest, Sends, Call, historyVars
  <2> QED BY <2>1, <2>2
<1>3. UNCHANGED <<notificationVars, authVars, page, form, appBootstrapped, socket, serverVars,
                  counterVars, loggedOut, reentered, profileLost, pollsOf>>
  BY DEF pollTick, pageRequest, historyVars
<1>4. /\ calls' \in Seq(Calls) /\ Len(calls') = Len(calls) + 1
      /\ Range(calls') = Range(calls) \cup {c}
      /\ \A kinds \in {Entry, {"poll"}} :
           Alone(calls, kinds) /\ (c.kind \notin kinds \/ Sent(kinds) = {})
             => Alone(calls', kinds)
  BY <1>1, <1>2, Sending DEF SessionTypeOK
<1>5. /\ Sent(Entry)' = Sent(Entry) /\ Sent({"boot"})' = Sent({"boot"})
      /\ Sent({"poll"})' \subseteq Sent({"poll"}) \cup {c}
      /\ Sent({"poll", "login"})' \subseteq Sent({"poll", "login"}) \cup {c}
      /\ c \in Sent({"poll"})' \cup Sent({"poll", "login"})' => polling
      /\ ~polling => Sent({"poll"})' = Sent({"poll"})
  BY <1>2, <1>4 DEF Sent, Entry
<1>6. Len(calls) \in Nat
  BY <1>1, LenProperties DEF SessionTypeOK
<1>7. RoomInv' /\ Len(calls') <= MaxCalls
  BY <1>2, <1>4, <1>6, SessionAssumption DEF RoomInv
<1>8. SessionTypeOK'
  <2>1. Len(calls') <= MaxCalls + 2
    BY <1>4, <1>6, <1>7, SessionAssumption
  <2>2. crossed' \in BOOLEAN
    BY <1>1, <1>2 DEF SessionTypeOK, Under
  <2> QED BY <1>1, <1>3, <1>4, <2>1, <2>2 DEF SessionTypeOK, NotificationsTypeOK,
          notificationVars, requestVars, pollVars, authVars, serverVars, counterVars
<1>9. (\A d \in Range(calls) : d.got \subseteq seen)'
  BY <1>1, <1>2, <1>3, <1>4 DEF notificationVars, requestVars
<1>10. EntryInv'
  <2>1. c.kind \notin Entry
    BY <1>2 DEF Entry
  <2> QED BY <1>1, <1>3, <1>4, <1>5, <2>1 DEF EntryInv, authVars
<1>11. StartInv' /\ ProfileInv'
  BY <1>1, <1>3, <1>5 DEF StartInv, ProfileInv, notificationVars, pollVars, authVars
<1>12. TokenInv'
  BY <1>1, <1>2, <1>3, <1>4 DEF TokenInv, authVars
<1>13. PollInv'
  <2>1. prevRequestIds' \subseteq polled'
    BY <1>1, <1>3 DEF PollInv, notificationVars, pollVars
  <2>2. SUFFICES ASSUME ~crossed', OneUser'
                 PROVE  ~twice' /\ Alone(calls', {"poll"}) /\ PollerInv' /\ LastPollInv' /\ AnswerInv'
    BY <2>1 DEF PollInv
  <2>3. /\ ~twice /\ Alone(calls, {"poll"}) /\ PollerInv /\ LastPollInv /\ AnswerInv
        /\ c.kind = "poll" => Sent({"poll"}) = {}
    <3>1. ~crossed /\ OneUser /\ (c.kind = "poll" => ~Under("poll"))
      <4>1. CASE c.kind = "poll" /\ crossed' = (crossed \/ Under("poll"))
        <5>1. ~(crossed \/ Under("poll"))
          BY <2>2, <4>1
        <5> QED BY <1>3, <2>2, <4>1, <5>1 DEF OneUser
      <4>2. CASE c.kind = "page" /\ crossed' = crossed
        BY <1>3, <2>2, <4>2 DEF OneUser
      <4> QED BY <1>2, <4>1, <4>2
    <3>2. ~Under("poll") => Sent({"poll"}) = {}
      BY UnderSent
    <3> QED BY <1>1, <3>1, <3>2 DEF PollInv
  <2>4. Alone(calls', {"poll"})
    BY <1>4, <2>3
  <2>5. PollerInv'
    BY <1>2, <1>3, <1>5, <2>3 DEF PollerInv, notificationVars, requestVars, pollVars, authVars
  <2>6. LastPollInv' /\ AnswerInv'
    BY <1>2, <1>3, <1>5, <2>3 DEF LastPollInv, AnswerInv, notificationVars, requestVars, pollVars
  <2>7. ~twice'
    BY <1>3, <2>3 DEF notificationVars, pollVars
  <2> QED BY <2>4, <2>5, <2>6, <2>7
<1> QED BY <1>7, <1>8, <1>9, <1>10, <1>11, <1>12, <1>13 DEF SessionInv

-----------------------------------------------------------------------------
(* The server answers a request, or it is lost.                             *)

LEMMA Replacing ==
  ASSUME calls \in Seq(Calls), NEW i \in DOMAIN calls, NEW c \in Calls,
         c.kind = calls[i].kind, calls' = [calls EXCEPT ![i] = c]
  PROVE  /\ calls' \in Seq(Calls) /\ Len(calls') = Len(calls)
         /\ Range(calls') \subseteq Range(calls) \cup {c}
         /\ \A kinds : Alone(calls, kinds) => Alone(calls', kinds)
         /\ \A d \in Range(calls) : \E e \in Range(calls') : e.kind = d.kind
<1>1. Len(calls) \in Nat /\ DOMAIN calls = 1..Len(calls) /\ calls \in [1..Len(calls) -> Calls]
  BY LenProperties
<1>2. calls' \in [1..Len(calls) -> Calls]
  BY <1>1
<1>3. calls' \in Seq(Calls)
  BY <1>1, <1>2, SeqDef
<1>4. Len(calls') \in Nat /\ DOMAIN calls' = 1..Len(calls')
  BY <1>3, LenProperties
<1>5. Len(calls') = Len(calls)
  <2>1. 1..Len(calls') = 1..Len(calls)
    BY <1>2, <1>4
  <2> QED BY <1>1, <1>4, <2>1, SameLength
<1>6. DOMAIN calls' = DOMAIN calls
  BY <1>1, <1>2
<1>7. \A j \in DOMAIN calls : calls'[j] = IF j = i THEN c ELSE calls[j]
  BY <1>1
<1>8. Range(calls') \subseteq Range(calls) \cup {c}
  BY <1>6, <1>7 DEF Range
<1>9. ASSUME NEW kinds, Alone(calls, kinds)
      PROVE  Alone(calls', kinds)
  BY <1>6, <1>7, <1>9 DEF Alone
<1>10. ASSUME NEW d \in Range(calls)
       PROVE  \E e \in Range(calls') : e.kind = d.kind
  <2>1. PICK j \in DOMAIN calls : calls[j] = d
    BY RangeOf
  <2>2. calls'[j] \in Range(calls') /\ calls'[j].kind = d.kind
    BY <1>6, <1>7, <2>1 DEF Range
  <2> QED BY <2>2
<1> QED BY <1>3, <1>5, <1>8, <1>9, <1>10

LEMMA Answers ==
  ASSUME SessionInv, NEW i \in DOMAIN calls, serve(i) \/ lose(i)
  PROVE  SessionInv'
<1>1. /\ SessionTypeOK /\ RoomInv /\ EntryInv /\ StartInv /\ TokenInv /\ ProfileInv /\ PollInv
      /\ \A c \in Range(calls) : c.got \subseteq seen
  BY DEF SessionInv
<1>2. calls[i] \in Calls /\ calls[i] \in Range(calls) /\ calls[i].pc = "sent"
  <2>1. calls[i] \in Range(calls)
    BY RangeOf
  <2>2. Range(calls) \subseteq Calls
    BY <1>1, RangeTyped DEF SessionTypeOK
  <2> QED BY <2>1, <2>2 DEF serve, lose
<1>3. PICK c : /\ c \in Calls /\ calls' = [calls EXCEPT ![i] = c]
               /\ c.kind = calls[i].kind /\ c.tok = calls[i].tok /\ c.got \subseteq seen
               /\ c.pc = "ok" /\ c.kind = "poll" =>
                    /\ c.tok # None
                    /\ c.got = {id \in open : Addressee[id] = c.tok.of}
  <2>1. CASE serve(i)
    <3> DEFINE got == IF Good(calls[i].tok) /\ calls[i].kind = "poll"
                      THEN incomingRequests(calls[i].tok.of) ELSE {}
               pc == IF Good(calls[i].tok) THEN "ok" ELSE "refused"
               d == [calls[i] EXCEPT !.pc = pc, !.got = got]
    <3>1. calls' = [calls EXCEPT ![i] = d]
      BY <2>1 DEF serve
    <3>2. got \subseteq open /\ open \subseteq seen /\ seen \subseteq Ids
      BY <1>1 DEF incomingRequests, SessionTypeOK, NotificationsTypeOK
    <3>3. d \in Calls /\ d.kind = calls[i].kind /\ d.tok = calls[i].tok /\ d.pc = pc /\ d.got = got
      BY <1>2, <3>2 DEF Calls
    <3>4. d.pc = "ok" /\ d.kind = "poll" =>
            /\ d.tok # None
            /\ d.got = {id \in open : Addressee[id] = d.tok.of}
      BY <3>3 DEF Good, incomingRequests
    <3> HIDE DEF d, got, pc
    <3> QED BY <3>1, <3>2, <3>3, <3>4
  <2>2. CASE lose(i)
    <3> DEFINE d == [calls[i] EXCEPT !.pc = "lost"]
    <3>1. calls' = [calls EXCEPT ![i] = d]
      BY <2>2 DEF lose
    <3>2. d \in Calls /\ d.kind = calls[i].kind /\ d.tok = calls[i].tok /\ d.pc = "lost"
          /\ d.got = calls[i].got
      BY <1>2 DEF Calls
    <3> HIDE DEF d
    <3> QED BY <1>1, <1>2, <3>1, <3>2
  <2> QED BY <2>1, <2>2
<1>4. /\ UNCHANGED <<notificationVars, authVars, page, form, appBootstrapped, socket, serverVars,
                     clicks, historyVars>>
      /\ eventsDone' \in 0..MaxEvents
  BY <1>1, SessionAssumption DEF serve, lose, Event, counterVars, SessionTypeOK
<1>5. /\ calls' \in Seq(Calls) /\ Len(calls') = Len(calls)
      /\ Range(calls') \subseteq Range(calls) \cup {c}
      /\ Alone(calls, Entry) => Alone(calls', Entry)
      /\ Alone(calls, {"poll"}) => Alone(calls', {"poll"})
      /\ \A d \in Range(calls) : \E e \in Range(calls') : e.kind = d.kind
  BY <1>1, <1>3, Replacing DEF SessionTypeOK
<1>6. ASSUME NEW kinds
      PROVE  /\ {d \in Range(calls') : d.kind \in kinds} = {} <=> Sent(kinds) = {}
             /\ \A d \in Range(calls') : d.kind \in kinds => d \in Sent(kinds) \/ d = c
             /\ c.kind \in kinds => calls[i] \in Sent(kinds)
  BY <1>2, <1>3, <1>5 DEF Sent
<1>7. /\ Sent(Entry)' = {} <=> Sent(Entry) = {}
      /\ Sent({"boot"})' = {} <=> Sent({"boot"}) = {}
      /\ Sent({"poll"})' = {} <=> Sent({"poll"}) = {}
  BY <1>6 DEF Sent
<1>8. SessionTypeOK' /\ RoomInv'
  BY <1>1, <1>4, <1>5, <1>7 DEF RoomInv, SessionTypeOK, NotificationsTypeOK, notificationVars,
     requestVars, pollVars, authVars, serverVars, historyVars
<1>9. (\A d \in Range(calls) : d.got \subseteq seen)'
  BY <1>1, <1>3, <1>4, <1>5 DEF notificationVars, requestVars
<1>10. EntryInv'
  <2>1. \A d \in Sent(Entry)' : d \in Sent(Entry) \/ (d = c /\ calls[i] \in Sent(Entry))
    BY <1>6 DEF Sent
  <2> QED BY <1>1, <1>3, <1>4, <1>5, <1>7, <2>1 DEF EntryInv, authVars
<1>11. StartInv' /\ ProfileInv'
  BY <1>1, <1>4, <1>7 DEF StartInv, ProfileInv, notificationVars, pollVars, authVars, historyVars
<1>12. TokenInv'
  BY <1>1, <1>2, <1>3, <1>4, <1>5 DEF TokenInv, authVars, historyVars
<1>13. PollInv'
  <2>1. /\ \A d \in Sent({"poll"})' : d \in Sent({"poll"}) \/ (d = c /\ calls[i] \in Sent({"poll"}))
        /\ \A d \in Sent({"poll", "login"})' :
             \/ d \in Sent({"poll", "login"})
             \/ d = c /\ calls[i] \in Sent({"poll", "login"})
        /\ \A d \in Sent({"poll"}) : d.kind = "poll" /\ d \in Sent({"poll", "login"})
    BY <1>6 DEF Sent
  <2>2. prevRequestIds' \subseteq polled'
    BY <1>1, <1>4 DEF PollInv, notificationVars, pollVars
  <2>3. SUFFICES ASSUME ~crossed', OneUser'
                 PROVE  ~twice' /\ Alone(calls', {"poll"}) /\ PollerInv' /\ LastPollInv' /\ AnswerInv'
    BY <2>2 DEF PollInv
  <2>4. ~twice /\ Alone(calls, {"poll"}) /\ PollerInv /\ LastPollInv /\ AnswerInv
    BY <1>1, <1>4, <2>3 DEF PollInv, OneUser, historyVars
  <2>5. PollerInv'
    BY <1>3, <1>4, <2>1, <2>4 DEF PollerInv, notificationVars, requestVars, pollVars, authVars,
       historyVars
  <2>6. LastPollInv' /\ ~twice' /\ Alone(calls', {"poll"})
    BY <1>4, <1>5, <1>7, <2>4 DEF LastPollInv, notificationVars, pollVars
  <2>7. AnswerInv'
    <3>1. ASSUME c.pc = "ok", calls[i] \in Sent({"poll"})
          PROVE  /\ c.tok # None /\ \A id \in c.got : Addressee[id] = c.tok.of
                 /\ open \cap polled \subseteq c.got
                 /\ c.got \cap polled \subseteq prevRequestIds
      <4>1. c.tok # None /\ c.got = {id \in open : Addressee[id] = c.tok.of}
        BY <1>3, <2>1, <3>1
      <4>2. CASE polling
        <5>1. c.tok.of \in pollsOf /\ \A id \in polled : Addressee[id] \in pollsOf
          BY <1>3, <2>1, <2>4, <3>1, <4>1, <4>2 DEF PollerInv
        <5>2. \A id \in polled : Addressee[id] = c.tok.of
          BY <1>4, <2>3, <5>1 DEF OneUser, historyVars
        <5> QED BY <2>4, <4>1, <4>2, <5>2 DEF PollerInv
      <4>3. CASE ~polling
        <5>1. polled = {}
          BY <2>4, <3>1, <4>3 DEF LastPollInv
        <5> QED BY <4>1, <5>1
      <4> QED BY <4>2, <4>3
    <3> QED BY <1>4, <2>1, <2>4, <3>1 DEF AnswerInv, notificationVars, requestVars, pollVars
  <2> QED BY <2>5, <2>6, <2>7
<1> QED BY <1>8, <1>9, <1>10, <1>11, <1>12, <1>13 DEF SessionInv

-----------------------------------------------------------------------------
(* The answers are taken.                                                   *)

LEMMA Taken ==
  ASSUME SessionInv, NEW i \in DOMAIN calls
  PROVE  /\ Without(i) \in Seq(Calls) /\ Len(Without(i)) = Len(calls) - 1 /\ Len(calls) \in Nat
         /\ calls[i] \in Calls /\ calls[i] \in Range(calls)
         /\ Range(Without(i)) \subseteq Range(calls)
         /\ \A c \in Range(calls) : c # calls[i] => c \in Range(Without(i))
         /\ \A kinds : Alone(calls, kinds) =>
              /\ Alone(Without(i), kinds)
              /\ calls[i].kind \in kinds => \A c \in Range(Without(i)) : c.kind \notin kinds
<1>1. calls \in Seq(Calls) /\ Len(calls) \in Nat
  BY LenProperties DEF SessionInv, SessionTypeOK
<1>2. calls[i] \in Range(calls) /\ Range(calls) \subseteq Calls
  BY <1>1, RangeOf, RangeTyped
<1>3. Without(i) \in Seq(Calls) /\ Len(Without(i)) = Len(calls) - 1
  BY <1>1, Removed DEF Without
<1>4. /\ Range(Without(i)) \subseteq Range(calls)
      /\ \A c \in Range(calls) : c # calls[i] => c \in Range(Without(i))
  BY <1>1, RangeRemoved DEF Without
<1>5. ASSUME NEW kinds, Alone(calls, kinds)
      PROVE  /\ Alone(Without(i), kinds)
             /\ calls[i].kind \in kinds => \A c \in Range(Without(i)) : c.kind \notin kinds
  BY <1>1, <1>5, AloneRemoved DEF Without
<1> QED BY <1>1, <1>2, <1>3, <1>4, <1>5

LEMMA Receiving ==
  ASSUME NEW i \in DOMAIN calls, NEW kind, Received(i, kind)
  PROVE  /\ calls[i].kind = kind /\ storedToken' \in {None, storedToken}
         /\ calls[i].pc = "ok" => UNCHANGED storedToken
  BY DEF Received

\* What an answer leaves of all but the polls and the profiles.
LEMMA Shorter ==
  ASSUME SessionInv, NEW i \in DOMAIN calls, calls' = Without(i),
         calls[i].kind \notin Entry,
         storedToken' \in {None, storedToken},
         UNCHANGED <<requestVars, listening, polling, user, page, form, appBootstrapped, socket,
                     loggedOut, reentered, profileLost>>
  PROVE  /\ RoomInv' /\ Len(calls') <= MaxCalls + 2 /\ EntryInv' /\ StartInv' /\ TokenInv'
         /\ ProfileInv' /\ (\A c \in Range(calls) : c.got \subseteq seen)'
<1>1. /\ SessionTypeOK /\ RoomInv /\ EntryInv /\ StartInv /\ TokenInv /\ ProfileInv
      /\ \A c \in Range(calls) : c.got \subseteq seen
  BY DEF SessionInv
<1>2. /\ Len(calls') = Len(calls) - 1 /\ Len(calls) \in Nat
      /\ Range(calls') \subseteq Range(calls)
      /\ \A c \in Range(calls) : c # calls[i] => c \in Range(calls')
      /\ Alone(calls', Entry)
  BY <1>1, Taken DEF EntryInv
<1>3. /\ Sent(Entry)' = Sent(Entry) /\ Sent({"boot"})' = Sent({"boot"})
      /\ Sent({"poll"})' \subseteq Sent({"poll"})
  BY <1>2 DEF Sent, Entry
<1>4. RoomInv' /\ Len(calls') <= MaxCalls + 2
  BY <1>1, <1>2, <1>3, SessionAssumption DEF RoomInv, SessionTypeOK
<1>5. EntryInv' /\ StartInv' /\ ProfileInv'
  BY <1>1, <1>2, <1>3 DEF EntryInv, StartInv, ProfileInv
<1>6. TokenInv'
  BY <1>1, <1>2 DEF TokenInv
<1>7. (\A c \in Range(calls) : c.got \subseteq seen)'
  BY <1>1, <1>2 DEF requestVars
<1> QED BY <1>4, <1>5, <1>6, <1>7

LEMMA PageAnswers ==
  ASSUME SessionInv, NEW i \in DOMAIN calls, pageAnswered(i)
  PROVE  SessionInv'
<1>1. SessionTypeOK /\ PollInv
  BY DEF SessionInv
<1>2. /\ calls[i].kind = "page" /\ calls' = Without(i)
      /\ storedToken' \in {None, storedToken}
  BY Receiving DEF pageAnswered
<1>3. UNCHANGED <<notificationVars, token, user, page, form, appBootstrapped, socket, serverVars,
                  counterVars, loggedOut, reentered, profileLost, crossed, pollsOf>>
  BY DEF pageAnswered
<1>4. /\ RoomInv' /\ Len(calls') <= MaxCalls + 2 /\ EntryInv' /\ StartInv' /\ TokenInv'
      /\ ProfileInv' /\ (\A c \in Range(calls) : c.got \subseteq seen)'
  <2>1. calls[i].kind \notin Entry
    BY <1>2 DEF Entry
  <2> QED BY <1>2, <1>3, <2>1, Shorter DEF notificationVars, pollVars
<1>5. calls' \in Seq(Calls) /\ Range(calls') \subseteq Range(calls)
      /\ (Alone(calls, {"poll"}) => Alone(calls', {"poll"}))
  BY <1>2, Taken
<1>6. SessionTypeOK'
  BY <1>1, <1>2, <1>3, <1>4, <1>5 DEF SessionTypeOK, NotificationsTypeOK, notificationVars,
     requestVars, pollVars, serverVars, counterVars
<1>7. PollInv'
  BY <1>1, <1>2, <1>3, <1>5 DEF PollInv, OneUser, PollerInv, LastPollInv, AnswerInv, Sent,
     notificationVars, requestVars, pollVars
<1> QED BY <1>4, <1>6, <1>7 DEF SessionInv

\* A poll's answer holds what is open of what was announced, and nothing that
\* was announced and is not in the answer before.
LEMMA PollAnswers ==
  ASSUME SessionInv, NEW i \in DOMAIN calls, pollAnswered(i)
  PROVE  SessionInv'
<1>1. /\ SessionTypeOK /\ PollInv
      /\ \A c \in Range(calls) : c.got \subseteq seen
  BY DEF SessionInv
<1> DEFINE a == calls[i]
           new == a.got \ prevRequestIds
<1>2. /\ a.kind = "poll" /\ calls' = Without(i) /\ a \in Range(calls)
      /\ storedToken' \in {None, storedToken}
  BY Receiving, Taken DEF pollAnswered
<1>3. UNCHANGED <<requestVars, listening, polling, token, user, page, form, appBootstrapped, socket,
                  serverVars, counterVars, loggedOut, reentered, profileLost, crossed, pollsOf>>
  BY DEF pollAnswered, pollFriendRequests, pollVars
<1>4. \/ /\ a.pc = "ok"
         /\ items' = addNotification(SetToSeq(new)) /\ prevRequestIds' = a.got
         /\ polled' = polled \cup new /\ twice' = (twice \/ new \cap polled # {})
      \/ UNCHANGED <<items, prevRequestIds, polled, twice>>
  BY DEF pollAnswered, pollFriendRequests, pollVars
<1> HIDE DEF a
<1>5. /\ RoomInv' /\ Len(calls') <= MaxCalls + 2 /\ EntryInv' /\ StartInv' /\ TokenInv'
      /\ ProfileInv' /\ (\A c \in Range(calls) : c.got \subseteq seen)'
  <2>1. calls[i].kind \notin Entry
    BY <1>2 DEF Entry, a
  <2> QED BY <1>2, <1>3, <2>1, Shorter DEF requestVars
<1>6. calls' \in Seq(Calls) /\ Range(calls') \subseteq Range(calls)
      /\ (Alone(calls, {"poll"}) => \A c \in Range(calls') : c.kind # "poll")
      /\ (Alone(calls, {"poll"}) => Alone(calls', {"poll"}))
  BY <1>2, Taken DEF a
<1>7. a.got \subseteq seen
  BY <1>1, <1>2
<1>8. SessionTypeOK'
  <2>1. NotificationsTypeOK
    BY <1>1 DEF SessionTypeOK
  <2>2. new \in SUBSET Ids
    BY <1>7, <2>1 DEF NotificationsTypeOK
  <2>3. items' \in Seq(Items) /\ Len(items') <= Cap
    <3>1. SetToSeq(new) \in Seq(Ids \cup {Notice})
      BY <2>2, AsSeq
    <3>2. addNotification(SetToSeq(new)) \in Seq(Items)
          /\ Len(addNotification(SetToSeq(new))) <= Cap
      BY <2>1, <3>1, Added DEF NotificationsTypeOK
    <3> QED BY <1>4, <2>1, <3>2 DEF NotificationsTypeOK
  <2>4. prevRequestIds' \subseteq seen /\ polled' \subseteq seen /\ twice' \in BOOLEAN
    BY <1>4, <1>7, <2>1 DEF NotificationsTypeOK
  <2>5. NotificationsTypeOK'
    BY <1>3, <2>1, <2>3, <2>4 DEF NotificationsTypeOK, requestVars
  <2> QED BY <1>1, <1>2, <1>3, <1>5, <1>6, <2>5 DEF SessionTypeOK, serverVars, counterVars
<1>9. PollInv'
  <2>1. prevRequestIds' \subseteq polled'
    BY <1>1, <1>4 DEF PollInv
  <2>2. SUFFICES ASSUME ~crossed', OneUser'
                 PROVE  ~twice' /\ Alone(calls', {"poll"}) /\ PollerInv' /\ LastPollInv' /\ AnswerInv'
    BY <2>1 DEF PollInv
  <2>3. ~twice /\ Alone(calls, {"poll"}) /\ PollerInv /\ LastPollInv /\ AnswerInv
    BY <1>1, <1>3, <2>2 DEF PollInv, OneUser
  <2>4. Sent({"poll"})' = {} /\ a \in Sent({"poll"}) /\ a \in Sent({"poll", "login"})
        /\ Sent({"poll", "login"})' \subseteq Sent({"poll", "login"})
    BY <1>2, <1>6, <2>3 DEF Sent
  <2>5. Alone(calls', {"poll"}) /\ AnswerInv'
    BY <1>6, <2>3, <2>4 DEF AnswerInv
  <2>6. a.pc = "ok" =>
          /\ a.tok # None /\ \A id \in a.got : Addressee[id] = a.tok.of
          /\ open \cap polled \subseteq a.got
          /\ a.got \cap polled \subseteq prevRequestIds
    BY <2>3, <2>4 DEF AnswerInv
  <2>7. CASE UNCHANGED <<items, prevRequestIds, polled, twice>>
    BY <1>2, <1>3, <2>3, <2>4, <2>5, <2>7 DEF PollerInv, LastPollInv, requestVars
  <2>8. CASE /\ a.pc = "ok" /\ prevRequestIds' = a.got
             /\ polled' = polled \cup new /\ twice' = (twice \/ new \cap polled # {})
    <3>1. ~twice'
      <4>1. new \cap polled = {}
        BY <2>6, <2>8
      <4> QED BY <2>3, <2>8, <4>1
    <3>2. PollerInv'
      <4>1. SUFFICES ASSUME polling PROVE PollerInv'
        BY <1>3 DEF PollerInv
      <4>2. a.tok.of \in pollsOf
        BY <2>3, <2>4, <2>6, <2>8, <4>1 DEF PollerInv
      <4>3. (storedToken # None => storedToken.of \in pollsOf)'
        BY <1>2, <1>3, <2>3, <4>1 DEF PollerInv
      <4>4. (\A c \in Sent({"poll", "login"}) : c.tok # None => c.tok.of \in pollsOf)'
        BY <1>3, <2>3, <2>4, <4>1 DEF PollerInv
      <4>5. \A id \in polled' : Addressee[id] \in pollsOf
        BY <2>3, <2>6, <2>8, <4>1, <4>2 DEF PollerInv
      <4>6. open \cap polled' \subseteq prevRequestIds'
        BY <2>6, <2>8
      <4> QED BY <1>3, <4>3, <4>4, <4>5, <4>6 DEF PollerInv, requestVars
    <3>3. LastPollInv'
      BY <1>3, <2>3, <2>4, <2>8 DEF LastPollInv
    <3> QED BY <2>5, <3>1, <3>2, <3>3
  <2> QED BY <1>4, <2>7, <2>8
<1> QED BY <1>5, <1>8, <1>9 DEF SessionInv

\* A profile that did not come: the token stays.
LEMMA NoProfile ==
  ASSUME SessionInv, NEW i \in DOMAIN calls, loginAnswered(i), calls[i].pc # "ok"
  PROVE  SessionInv'
<1>1. /\ SessionTypeOK /\ RoomInv /\ EntryInv /\ StartInv /\ TokenInv /\ ProfileInv /\ PollInv
      /\ \A c \in Range(calls) : c.got \subseteq seen
  BY DEF SessionInv
<1>2. /\ calls[i].kind = "login" /\ calls' = Without(i) /\ calls[i] \in Range(calls)
      /\ storedToken' \in {None, storedToken}
  BY Receiving, Taken DEF loginAnswered
<1>3. /\ UNCHANGED <<notificationVars, token, user, page, form, appBootstrapped, socket, serverVars,
                     counterVars, loggedOut, reentered, crossed, pollsOf>>
      /\ profileLost' = TRUE
  BY DEF loginAnswered, notificationVars
<1>4. /\ calls' \in Seq(Calls) /\ Len(calls') = Len(calls) - 1 /\ Len(calls) \in Nat
      /\ Range(calls') \subseteq Range(calls)
      /\ \A c \in Range(calls) : c # calls[i] => c \in Range(calls')
      /\ Alone(calls', Entry) /\ (Alone(calls, {"poll"}) => Alone(calls', {"poll"}))
      /\ \A c \in Range(calls') : c.kind \notin Entry
  BY <1>1, <1>2, Taken DEF EntryInv, Entry
<1>5. /\ Sent(Entry) # {} /\ Sent(Entry)' = {} /\ Sent({"boot"})' = {}
      /\ Sent({"poll"})' = Sent({"poll"})
      /\ Sent({"poll", "login"})' \subseteq Sent({"poll", "login"})
  BY <1>2, <1>4 DEF Sent, Entry
<1>6. RoomInv' /\ Len(calls') <= MaxCalls + 2
  BY <1>1, <1>3, <1>4, <1>5, SessionAssumption DEF RoomInv, SessionTypeOK
<1>7. SessionTypeOK'
  BY <1>1, <1>2, <1>3, <1>4, <1>6 DEF SessionTypeOK, NotificationsTypeOK, notificationVars,
     requestVars, pollVars, serverVars, counterVars
<1>8. EntryInv' /\ StartInv' /\ ProfileInv' /\ (\A c \in Range(calls) : c.got \subseteq seen)'
  BY <1>1, <1>3, <1>4, <1>5 DEF EntryInv, StartInv, ProfileInv, notificationVars, requestVars,
     pollVars
<1>9. TokenInv'
  BY <1>1, <1>2, <1>3, <1>4 DEF TokenInv
<1>10. PollInv'
  BY <1>1, <1>2, <1>3, <1>4, <1>5 DEF PollInv, OneUser, PollerInv, LastPollInv, AnswerInv,
     notificationVars, requestVars, pollVars
<1> QED BY <1>6, <1>7, <1>8, <1>9, <1>10 DEF SessionInv

\* The rest is started, or runs already: for the user whose profile came, for
\* nobody after a failure.
LEMMA Bootstraps ==
  ASSUME SessionInv, NEW i \in DOMAIN calls, calls[i].kind \in Entry,
         bootstrapAuthedApp(storedToken', Without(i)),
         \/ user' = calls[i].tok.of /\ UNCHANGED <<storedToken, profileLost>>
         \/ user' = None /\ storedToken' = None /\ profileLost' = TRUE /\ ~appBootstrapped,
         token' \in Tokens \cup {None}, page' \in Pages,
         UNCHANGED <<requestVars, items, form, serverVars, counterVars, loggedOut, reentered,
                     crossed>>
  PROVE  SessionInv'
<1>1. /\ SessionTypeOK /\ RoomInv /\ EntryInv /\ StartInv /\ TokenInv /\ ProfileInv /\ PollInv
      /\ \A c \in Range(calls) : c.got \subseteq seen
  BY DEF SessionInv
<1> DEFINE a == calls[i]
           rest == Without(i)
           c == Call("poll", storedToken')
<1>2. /\ rest \in Seq(Calls) /\ Len(rest) = Len(calls) - 1 /\ Len(calls) \in Nat
      /\ a \in Range(calls) /\ a \in Sent(Entry) /\ Range(rest) \subseteq Range(calls)
      /\ \A d \in Range(calls) : d # a => d \in Range(rest)
      /\ Alone(rest, Entry) /\ (Alone(calls, {"poll"}) => Alone(rest, {"poll"}))
      /\ \A d \in Range(rest) : d.kind \notin Entry
  BY <1>1, Taken DEF EntryInv, Sent
<1>3. a.tok \in Tokens /\ a.tok.of \in Users /\ storedToken \in {None, a.tok} /\ form = None
  BY <1>1, <1>2 DEF EntryInv, Tokens, SessionTypeOK
<1>4. \/ user' = a.tok.of /\ UNCHANGED <<storedToken, profileLost>>
      \/ user' = None /\ storedToken' = None /\ profileLost' = TRUE /\ ~appBootstrapped
  OBVIOUS
<1>5. /\ appBootstrapped' = TRUE
      /\ \/ /\ appBootstrapped
            /\ calls' = rest /\ UNCHANGED <<socket, listening, pollVars, pollsOf>>
         \/ /\ ~appBootstrapped
            /\ socket' = IF storedToken' = None THEN NoSocket
                         ELSE [tok |-> storedToken', st |-> "connecting"]
            /\ listening' = TRUE /\ polling' = TRUE
            /\ prevRequestIds' = {} /\ polled' = {} /\ twice' = FALSE
            /\ pollsOf' = IF storedToken' = None THEN {} ELSE {storedToken'.of}
            /\ calls' = Append(rest, c)
  BY <1>1 DEF bootstrapAuthedApp, startSocketListeners, startPolling, SessionTypeOK
<1>6. storedToken' \in Tokens \cup {None} /\ storedToken' \in {None, storedToken, a.tok}
      /\ (storedToken' # None => storedToken' = storedToken /\ storedToken' = a.tok
                                 /\ user' = a.tok.of)
      /\ user' \in Users \cup {None} /\ profileLost' \in BOOLEAN
  BY <1>1, <1>3, <1>4 DEF SessionTypeOK
<1>7. /\ c \in Calls /\ c.kind = "poll" /\ c.tok = storedToken' /\ c.pc = "sent" /\ c.got = {}
  BY <1>6 DEF Call, Calls
<1> HIDE DEF a, rest, c
<1>8. /\ Append(rest, c) \in Seq(Calls) /\ Len(Append(rest, c)) = Len(calls)
      /\ Range(Append(rest, c)) = Range(rest) \cup {c}
      /\ Alone(Append(rest, c), Entry)
      /\ \A d \in Range(Append(rest, c)) : d.kind \notin Entry
  <2>1. /\ Append(rest, c) \in Seq(Calls) /\ Len(Append(rest, c)) = Len(rest) + 1
        /\ Range(Append(rest, c)) = Range(rest) \cup {c}
    BY <1>2, <1>7, RangeAppended
  <2>2. c.kind \notin Entry
    BY <1>7 DEF Entry
  <2>3. Alone(Append(rest, c), Entry)
    BY <1>2, <1>7, <2>2, AloneAppended
  <2> QED BY <1>2, <2>1, <2>2, <2>3
<1>9. ~appBootstrapped => Sent({"poll"}) = {} /\ user = None /\ ~polling
  BY <1>1 DEF StartInv
<1>10. /\ calls' \in Seq(Calls) /\ Len(calls') <= MaxCalls + 1
       /\ Alone(calls', Entry) /\ \A d \in Range(calls') : d.kind \notin Entry
       /\ Range(calls') \subseteq Range(calls) \cup {c}
       /\ appBootstrapped => Range(calls') \subseteq Range(calls)
  <2>1. CASE appBootstrapped
    BY <1>1, <1>2, <1>5, <2>1, SessionAssumption DEF RoomInv
  <2>2. CASE ~appBootstrapped
    <3>1. calls' = Append(rest, c)
      BY <1>5, <2>2
    <3>2. Len(calls') <= MaxCalls + 1
      BY <1>1, <1>2, <1>8, <2>2, <3>1, SessionAssumption DEF RoomInv
    <3> QED BY <1>2, <1>8, <2>2, <3>1, <3>2
  <2> QED BY <2>1, <2>2
<1>11. Sent(Entry)' = {} /\ Sent({"boot"})' = {}
  BY <1>10 DEF Sent, Entry
<1>12. RoomInv'
  BY <1>5, <1>10, <1>11, SessionAssumption, LenProperties DEF RoomInv
<1>13. SessionTypeOK'
  <2>1. Len(calls') <= MaxCalls + 2
    BY <1>10, SessionAssumption, LenProperties
  <2>2. socket' = NoSocket \/ socket' \in [tok : Tokens, st : {"connecting", "up", "down"}]
    BY <1>1, <1>5, <1>6 DEF SessionTypeOK
  <2>3. NotificationsTypeOK'
    BY <1>1, <1>5 DEF SessionTypeOK, NotificationsTypeOK, requestVars, pollVars
  <2>4. pollsOf' \subseteq Users
    <3>1. storedToken' # None => storedToken'.of \in Users
      BY <1>3, <1>6
    <3> QED BY <1>1, <1>5, <3>1 DEF SessionTypeOK
  <2> QED BY <1>1, <1>5, <1>6, <1>10, <2>1, <2>2, <2>3, <2>4 DEF SessionTypeOK, serverVars,
          counterVars
<1>14. (\A d \in Range(calls) : d.got \subseteq seen)'
  BY <1>1, <1>7, <1>10 DEF requestVars
<1>15. EntryInv' /\ ProfileInv'
  BY <1>3, <1>4, <1>10, <1>11, SessionAssumption DEF EntryInv, ProfileInv
<1>16. StartInv'
  BY <1>1, <1>5 DEF StartInv, pollVars
<1>17. TokenInv'
  <2>1. SUFFICES ASSUME ~reentered, storedToken' # None
                 PROVE  /\ \A d \in Range(calls') : d.tok = storedToken'
                        /\ socket'.tok \in {None, storedToken'}
    BY DEF TokenInv
  <2>2. /\ \A d \in Range(calls) : d.tok = storedToken'
        /\ socket.tok \in {None, storedToken'}
    BY <1>1, <1>6, <2>1 DEF TokenInv
  <2> QED BY <1>5, <1>7, <1>10, <2>1, <2>2
<1>18. PollInv'
  <2>1. CASE appBootstrapped
    <3>1. /\ calls' = rest /\ UNCHANGED <<storedToken, pollVars, pollsOf>>
          /\ Sent({"poll"})' = Sent({"poll"})
          /\ Sent({"poll", "login"})' \subseteq Sent({"poll", "login"})
      <4>1. calls' = rest /\ UNCHANGED <<storedToken, pollVars, pollsOf>>
        BY <1>4, <1>5, <2>1
      <4>2. a.kind # "poll"
        BY DEF a, Entry
      <4> QED BY <1>2, <4>1, <4>2 DEF Sent
    <3>3. prevRequestIds' \subseteq polled'
      BY <1>1, <3>1 DEF PollInv, pollVars
    <3>4. SUFFICES ASSUME ~crossed', OneUser'
                   PROVE  ~twice' /\ Alone(calls', {"poll"}) /\ PollerInv' /\ LastPollInv' /\ AnswerInv'
      BY <3>3 DEF PollInv
    <3>5. ~twice /\ Alone(calls, {"poll"}) /\ PollerInv /\ LastPollInv /\ AnswerInv
      BY <1>1, <3>1, <3>4 DEF PollInv, OneUser
    <3>6. ~twice' /\ Alone(calls', {"poll"})
      BY <1>2, <3>1, <3>5 DEF pollVars
    <3>7. PollerInv'
      BY <3>1, <3>5 DEF PollerInv, requestVars, pollVars
    <3>8. LastPollInv' /\ AnswerInv'
      BY <3>1, <3>5 DEF LastPollInv, AnswerInv, requestVars, pollVars
    <3> QED BY <3>6, <3>7, <3>8
  <2>2. CASE ~appBootstrapped
    <3>1. /\ calls' = Append(rest, c) /\ polling' = TRUE
          /\ prevRequestIds' = {} /\ polled' = {} /\ twice' = FALSE
          /\ (storedToken' # None => storedToken'.of \in pollsOf')
      BY <1>5, <2>2
    <3>2. \A d \in Range(rest) : d.kind # "poll" /\ d.kind # "login"
      BY <1>2, <1>9, <2>2 DEF Sent, Entry
    <3>3. Sent({"poll"})' = {c} /\ Sent({"poll", "login"})' = {c}
      BY <1>7, <1>8, <3>1, <3>2 DEF Sent
    <3>4. Alone(calls', {"poll"})
      <4>1. Alone(rest, {"poll"})
        BY <1>2, <3>2, RangeOf DEF Alone
      <4> QED BY <1>2, <1>7, <3>1, <3>2, <4>1, AloneAppended
    <3>5. PollerInv'
      BY <1>6, <1>7, <3>1, <3>3 DEF PollerInv
    <3>6. LastPollInv' /\ AnswerInv'
      BY <1>7, <3>1, <3>3 DEF LastPollInv, AnswerInv
    <3> QED BY <3>1, <3>4, <3>5, <3>6 DEF PollInv
  <2> QED BY <2>1, <2>2
<1> QED BY <1>12, <1>13, <1>14, <1>15, <1>16, <1>17, <1>18 DEF SessionInv

LEMMA LoginAnswers ==
  ASSUME SessionInv, NEW i \in DOMAIN calls, loginAnswered(i)
  PROVE  SessionInv'
<1>1. SessionTypeOK
  BY DEF SessionInv
<1>2. CASE calls[i].pc = "ok"
  <2>1. calls[i].kind = "login" /\ UNCHANGED storedToken
    BY <1>2, Receiving DEF loginAnswered
  <2>2. calls[i].kind \in Entry
    BY <2>1 DEF Entry
  <2>3. /\ bootstrapAuthedApp(storedToken, Without(i)) /\ user' = calls[i].tok.of
        /\ page' = Guard("map", storedToken)
        /\ UNCHANGED <<requestVars, items, token, form, serverVars, counterVars, loggedOut,
                       reentered, crossed, profileLost>>
    BY <1>2 DEF loginAnswered
  <2>4. bootstrapAuthedApp(storedToken', Without(i))
    BY <2>1, <2>3 DEF bootstrapAuthedApp
  <2>5. page' \in Pages /\ token' \in Tokens \cup {None}
    BY <1>1, <2>3 DEF Guard, Pages, GuestPages, SessionTypeOK
  <2> QED BY <2>1, <2>2, <2>3, <2>4, <2>5, Bootstraps
<1>3. CASE calls[i].pc # "ok"
  BY <1>3, NoProfile
<1> QED BY <1>2, <1>3

LEMMA BootAnswers ==
  ASSUME SessionInv, NEW i \in DOMAIN calls, bootAnswered(i)
  PROVE  SessionInv'
<1>1. SessionTypeOK /\ EntryInv /\ TokenInv /\ calls[i] \in Range(calls)
  BY Taken DEF SessionInv
<1>2. calls[i].kind = "boot" /\ calls[i].kind \in Entry /\ bootstrapAuthedApp(storedToken', Without(i))
      /\ UNCHANGED <<requestVars, items, page, form, serverVars, counterVars, loggedOut,
                     reentered, crossed>>
  BY DEF bootAnswered, Entry
<1>3. ~appBootstrapped
  <2>1. calls[i] \in Sent({"boot"})
    BY <1>1, <1>2 DEF Sent
  <2> QED BY <1>1, <2>1 DEF EntryInv
<1>4. /\ \/ user' = calls[i].tok.of /\ UNCHANGED <<storedToken, profileLost>>
         \/ user' = None /\ storedToken' = None /\ profileLost' = TRUE
      /\ token' \in Tokens \cup {None}
  BY <1>1 DEF bootAnswered, SessionTypeOK
<1>5. page' \in Pages
  BY <1>1, <1>2 DEF SessionTypeOK
<1> QED BY <1>2, <1>3, <1>4, <1>5, Bootstraps

-----------------------------------------------------------------------------
(* The invariant holds.                                                     *)

LEMMA SessionStarts ==
  SessionInit => SessionInv
<1> SUFFICES ASSUME SessionInit PROVE SessionInv
  OBVIOUS
<1>1. storedToken \in Tokens \cup {None}
  <2>1. 1 \in 1..MaxLogins /\ accounts \subseteq Users
    BY SessionAssumption DEF SessionInit
  <2> QED BY <2>1 DEF SessionInit, Tokens
<1>2. calls = Started(storedToken)
  BY DEF SessionInit, Started
<1>3. /\ calls \in Seq(Calls)
      /\ Len(calls) = IF storedToken = None THEN 0 ELSE 1
      /\ Range(calls) = IF storedToken = None THEN {} ELSE {Call("boot", storedToken)}
      /\ Alone(calls, Entry) /\ Alone(calls, {"poll"})
  BY <1>1, <1>2, StartedCalls
<1>4. SessionTypeOK
  <2>1. NotificationsTypeOK
    <3>1. items = <<>> /\ <<>> \in Seq(Items) /\ Len(<<>>) = 0 /\ 0 <= Cap
      BY EmptySeq, NotificationsAssumption DEF SessionInit, NotificationsInit
    <3>2. /\ open \subseteq Ids /\ seen = open /\ prevRequestIds = {} /\ polled = {}
          /\ polling = FALSE /\ listening = FALSE /\ twice = FALSE
      BY DEF SessionInit, NotificationsInit
    <3> QED BY <3>1, <3>2 DEF NotificationsTypeOK
  <2>2. Len(calls) <= MaxCalls + 2
    BY <1>3, SessionAssumption
  <2>3. issued \in 0..MaxLogins /\ 0 \in 0..MaxClicks /\ 0 \in 0..MaxEvents
    BY SessionAssumption DEF SessionInit
  <2> QED BY <1>1, <1>3, <2>1, <2>2, <2>3 DEF SessionInit, SessionTypeOK, Pages, GuestPages
<1>5. \A c \in Range(calls) :
        c.kind = "boot" /\ c.tok = storedToken /\ c.got = {} /\ storedToken # None
  BY <1>3 DEF Call
<1>6. \A c \in Range(calls) : c.got \subseteq seen
  BY <1>5
<1>7. Sent({"poll"}) = {} /\ Sent({"poll", "login"}) = {}
  BY <1>5 DEF Sent
<1>8. Sent(Entry) # {} <=> storedToken # None
  BY <1>3, <1>5 DEF Sent, Entry, Call
<1>9. RoomInv
  BY <1>3, <1>8, SessionAssumption DEF RoomInv, SessionInit
<1>10. EntryInv
  BY <1>1, <1>3, <1>5 DEF EntryInv, Sent, GuestPages, SessionInit
<1>11. StartInv /\ TokenInv /\ ProfileInv
  BY <1>5, <1>7, <1>8 DEF StartInv, TokenInv, ProfileInv, NoSocket, GuestPages, SessionInit,
     NotificationsInit
<1>12. PollInv
  BY <1>3, <1>7 DEF PollInv, OneUser, PollerInv, LastPollInv, AnswerInv, SessionInit, NotificationsInit
<1> QED BY <1>4, <1>6, <1>9, <1>10, <1>11, <1>12 DEF SessionInv

LEMMA SessionStutters ==
  ASSUME SessionInv, UNCHANGED sessionVars
  PROVE  SessionInv'
BY DEF SessionInv, SessionTypeOK, NotificationsTypeOK, RoomInv, EntryInv, StartInv, TokenInv,
   ProfileInv, PollInv, OneUser, PollerInv, LastPollInv, AnswerInv, Sent, sessionVars, notificationVars,
   requestVars, pollVars, authVars, serverVars, counterVars, historyVars

LEMMA SessionSteps ==
  SessionInv /\ [SessionNext]_sessionVars => SessionInv'
<1> SUFFICES ASSUME SessionInv, [SessionNext]_sessionVars PROVE SessionInv'
  OBVIOUS
<1>1. CASE reload \/ \E i \in DOMAIN calls : refusedAway(i)
  BY <1>1, Reloads
<1>2. CASE onLogout
  BY <1>2, LogsOut
<1>3. CASE useBell
  BY <1>3, BellUsed
<1>4. CASE notEntered
  BY <1>4, FormFails
<1>5. CASE \E to \in Pages : navigate(to)
  BY <1>5, Navigates
<1>6. CASE \E u \in Users : loginSubmit(u) \/ registerSubmit(u)
  BY <1>6, Submits
<1>7. CASE \E t \in Tokens : entered(t)
  BY <1>7, Enters
<1>8. CASE \E t \in Tokens : expire(t)
  BY <1>8, Expires
<1>9. CASE \E i \in DOMAIN calls : serve(i) \/ lose(i)
  BY <1>9, Answers
<1>10. CASE \E i \in DOMAIN calls : pollAnswered(i)
  BY <1>10, PollAnswers
<1>11. CASE \E i \in DOMAIN calls : pageAnswered(i)
  BY <1>11, PageAnswers
<1>12. CASE \E i \in DOMAIN calls : loginAnswered(i)
  BY <1>12, LoginAnswers
<1>13. CASE \E i \in DOMAIN calls : bootAnswered(i)
  BY <1>13, BootAnswers
<1>14. CASE pollTick \/ pageRequest
  BY <1>14, Asks
<1>15. CASE ensureConnected \/ reconnecting
  BY <1>15, SocketMade
<1>16. CASE connected
  BY <1>16, SocketAnswered
<1>17. CASE \E id \in Ids : requestsMove(id)
  BY <1>17, RequestsMove
<1>18. CASE UNCHANGED sessionVars
  BY <1>18, SessionStutters
<1> QED BY <1>1, <1>2, <1>3, <1>4, <1>5, <1>6, <1>7, <1>8, <1>9, <1>10, <1>11, <1>12, <1>13,
        <1>14, <1>15, <1>16, <1>17, <1>18 DEF SessionNext

\* Whatever the users do and however the requests come back, the page's state is
\* the one its parts are about: the stores, the router, the socket service.
LEMMA SessionInvariant ==
  SessionSpec => []SessionInv
BY SessionStarts, SessionSteps, PTL DEF SessionSpec

-----------------------------------------------------------------------------
(* A request is refused for its own token, and that stays refused.           *)

RefusedInv == \A c \in Range(calls) : c.pc = "refused" => ~Good(c.tok)

LEMMA RefusedKept ==
  ASSUME RefusedInv, expired \subseteq expired',
         \A c \in Range(calls') : c \in Range(calls) \/ c.pc # "refused"
  PROVE  RefusedInv'
BY DEF RefusedInv, Good

LEMMA RefusedSent ==
  ASSUME RefusedInv, SessionTypeOK, UNCHANGED expired, NEW rest \in Seq(Calls),
         Range(rest) \subseteq Range(calls), NEW kind \in {"poll", "page", "boot", "login"},
         NEW tok \in Tokens \cup {None}, calls' = Append(rest, Call(kind, tok))
  PROVE  RefusedInv'
<1>1. Call(kind, tok) \in Calls /\ Call(kind, tok).pc = "sent"
  BY DEF Call, Calls
<1>2. Range(calls') = Range(rest) \cup {Call(kind, tok)}
  BY <1>1, RangeAppended
<1> QED BY <1>1, <1>2, RefusedKept

LEMMA RefusedRest ==
  ASSUME SessionTypeOK, NEW i \in DOMAIN calls
  PROVE  /\ Without(i) \in Seq(Calls) /\ Range(Without(i)) \subseteq Range(calls)
         /\ RefusedInv /\ UNCHANGED expired /\ calls' = Without(i) => RefusedInv'
<1>1. calls \in Seq(Calls)
  BY DEF SessionTypeOK
<1>2. Without(i) \in Seq(Calls) /\ Range(Without(i)) \subseteq Range(calls)
  BY <1>1, Removed, RangeRemoved DEF Without
<1> QED BY <1>2, RefusedKept

LEMMA RefusedStarts ==
  ASSUME RefusedInv, SessionTypeOK, UNCHANGED expired, NEW i \in DOMAIN calls,
         NEW tok \in Tokens \cup {None}, bootstrapAuthedApp(tok, Without(i))
  PROVE  RefusedInv'
<1>1. calls' = Without(i) \/ calls' = Append(Without(i), Call("poll", tok))
  BY DEF bootstrapAuthedApp
<1> QED BY <1>1, RefusedRest, RefusedSent

LEMMA RefusedSteps ==
  ASSUME SessionInv, RefusedInv, [SessionNext]_sessionVars
  PROVE  RefusedInv'
<1>1. /\ SessionTypeOK /\ calls \in Seq(Calls) /\ DOMAIN calls = 1..Len(calls)
      /\ storedToken \in Tokens \cup {None}
  BY LenProperties DEF SessionInv, SessionTypeOK
<1>2. CASE UNCHANGED <<calls, expired>>
  BY <1>2, RefusedKept
<1>3. CASE \E t \in Tokens : expire(t)
  BY <1>3, RefusedKept DEF expire
<1>4. CASE reload \/ \E i \in DOMAIN calls : refusedAway(i)
  <2>1. PICK tok : Loaded(tok) /\ UNCHANGED expired
    BY <1>4 DEF reload, refusedAway, serverVars
  <2>2. calls' = <<>> \/ calls' = <<Call("boot", tok)>>
    BY <2>1 DEF Loaded
  <2>3. \A c \in Range(calls') : c.pc = "sent"
    BY <2>2 DEF Range, Call
  <2> QED BY <2>1, <2>3, RefusedKept
<1>5. CASE \E t \in Tokens : entered(t)
  <2>1. PICK t \in Tokens : calls' = Append(calls, Call("login", t)) /\ UNCHANGED expired
    BY <1>5 DEF entered
  <2> QED BY <1>1, <2>1, RefusedSent
<1>6. CASE pollTick \/ pageRequest
  <2>1. PICK kind \in {"poll", "page"} :
          calls' = Append(calls, Call(kind, storedToken)) /\ UNCHANGED expired
    BY <1>6 DEF pollTick, pageRequest, Sends, serverVars
  <2> QED BY <1>1, <2>1, RefusedSent
<1>7. ASSUME NEW i \in DOMAIN calls, serve(i) \/ lose(i)
      PROVE  RefusedInv'
  <2>1. /\ DOMAIN calls' = DOMAIN calls /\ UNCHANGED expired
        /\ \A j \in DOMAIN calls : j # i => calls'[j] = calls[j]
        /\ calls'[i].pc = "refused" => ~Good(calls'[i].tok)
    <3>1. calls[i] \in Calls
      BY <1>1, ElementOfSeq
    <3>2. CASE serve(i)
      <4>1. /\ calls'[i].pc = IF Good(calls[i].tok) THEN "ok" ELSE "refused"
            /\ calls'[i].tok = calls[i].tok
        BY <3>1, <3>2 DEF serve, Calls
      <4>2. /\ DOMAIN calls' = DOMAIN calls
            /\ \A j \in DOMAIN calls : j # i => calls'[j] = calls[j]
        BY <3>2 DEF serve
      <4> QED BY <3>2, <4>1, <4>2 DEF serve, serverVars
    <3>3. CASE lose(i)
      BY <3>1, <3>3 DEF lose, serverVars, Calls
    <3> QED BY <1>7, <3>2, <3>3
  <2>2. ASSUME NEW j \in DOMAIN calls', calls'[j].pc = "refused"
        PROVE  calls'[j].tok = None \/ calls'[j].tok \in expired'
    <3>1. calls[j] \in Range(calls)
      BY <2>1, RangeOf
    <3>2. CASE j = i
      BY <2>1, <2>2, <3>2 DEF Good
    <3>3. CASE j # i
      BY <2>1, <2>2, <3>1, <3>3 DEF RefusedInv, Good
    <3> QED BY <3>2, <3>3
  <2> QED BY <2>2 DEF RefusedInv, Range, Good
<1>8. ASSUME NEW i \in DOMAIN calls, pollAnswered(i) \/ pageAnswered(i)
      PROVE  RefusedInv'
  BY <1>1, <1>8, RefusedRest DEF pollAnswered, pageAnswered, serverVars
<1>9. ASSUME NEW i \in DOMAIN calls, loginAnswered(i)
      PROVE  RefusedInv'
  <2>1. UNCHANGED expired
    BY <1>9 DEF loginAnswered, serverVars
  <2>2. calls' = Without(i) \/ bootstrapAuthedApp(storedToken, Without(i))
    BY <1>9 DEF loginAnswered
  <2> QED BY <1>1, <2>1, <2>2, RefusedRest, RefusedStarts
<1>10. ASSUME NEW i \in DOMAIN calls, bootAnswered(i)
       PROVE  RefusedInv'
  <2>1. storedToken' \in {None, storedToken} /\ UNCHANGED expired
    BY <1>10 DEF bootAnswered, serverVars
  <2>2. PICK tok \in Tokens \cup {None} : tok = storedToken'
    BY <1>1, <2>1
  <2>3. bootstrapAuthedApp(tok, Without(i))
    BY <1>10, <2>2 DEF bootAnswered
  <2> QED BY <1>1, <2>1, <2>3, RefusedStarts
<1>11. ASSUME \/ onLogout \/ useBell \/ notEntered \/ ensureConnected \/ connected
              \/ reconnecting \/ UNCHANGED sessionVars
              \/ \E to \in Pages : navigate(to)
              \/ \E u \in Users : loginSubmit(u) \/ registerSubmit(u)
              \/ \E id \in Ids : requestsMove(id)
       PROVE  UNCHANGED <<calls, expired>>
  BY <1>11 DEF onLogout, useBell, notEntered, ensureConnected, connected, reconnecting,
     sessionVars, navigate, loginSubmit, registerSubmit, Submit, requestsMove, serverVars
<1> QED BY <1>2, <1>3, <1>4, <1>5, <1>6, <1>7, <1>8, <1>9, <1>10, <1>11 DEF SessionNext

LEMMA RefusalsAreDeserved == SessionSpec => []RefusedInv
<1>1. SessionInit => RefusedInv
  BY DEF SessionInit, RefusedInv, Range, Call
<1>2. SessionInv /\ RefusedInv /\ [SessionNext]_sessionVars => RefusedInv'
  BY RefusedSteps
<1> QED BY <1>1, <1>2, SessionInvariant, PTL DEF SessionSpec

-----------------------------------------------------------------------------
\* The page's state has its types, the items stay within the store's cap, and no
\* more requests are under way than Sends counts, the first poll of the start and
\* one for a profile.
THEOREM SessionTypeCorrect ==
  SessionSpec => []SessionTypeOK
<1>1. SessionInv => SessionTypeOK
  BY DEF SessionInv
<1> QED BY <1>1, SessionInvariant, PTL

\* Without a logout since the page was loaded, whoever is logged in has the polls
\* and the listeners of the notification store (App.vue, bootstrapAuthedApp).
THEOREM UsersListen ==
  SessionSpec => []LoggedInListens
<1>1. SessionInv => LoggedInListens
  BY DEF SessionInv, StartInv, LoggedInListens
<1> QED BY <1>1, SessionInvariant, PTL

\* A token is not removed while the server takes it (axios' interceptor, on whichever
\* page, and the socket's error events), unless the page had another one before it;
\* only a logout and a profile that was lost on its way do that.
THEOREM GoodTokensStay ==
  SessionSpec => GoodTokenKept
<1> DEFINE Kept == Good(storedToken) /\ storedToken' = None =>
                     \/ reentered \/ onLogout
                     \/ \E i \in DOMAIN calls : calls[i].pc = "lost" /\ bootAnswered(i)
<1>1. ASSUME SessionInv, RefusedInv, [SessionNext]_sessionVars
      PROVE  Kept
  <2> SUFFICES ASSUME Good(storedToken), storedToken' = None, ~reentered
               PROVE  \/ onLogout
                      \/ \E i \in DOMAIN calls : calls[i].pc = "lost" /\ bootAnswered(i)
    OBVIOUS
  <2>1. /\ storedToken # None /\ socket.tok \in {None, storedToken}
        /\ \A c \in Range(calls) : c.tok = storedToken
    BY <1>1 DEF Good, SessionInv, TokenInv
  <2>2. \A i \in DOMAIN calls : calls[i].pc # "refused"
    <3>1. \A i \in DOMAIN calls : calls[i] \in Range(calls)
      BY RangeOf
    <3> QED BY <1>1, <2>1, <3>1 DEF RefusedInv
  <2>3. ~connected
    <3>1. socket.st = "connecting" => socket.tok \in Tokens
      BY <1>1 DEF SessionInv, SessionTypeOK, NoSocket
    <3>2. None \notin Tokens
      BY SessionAssumption
    <3>3. socket.st = "connecting" => Good(socket.tok)
      BY <2>1, <3>1, <3>2
    <3> QED BY <2>1, <3>3 DEF connected
  <2>4. ASSUME NEW i \in DOMAIN calls
        PROVE  ~refusedAway(i) /\ \A kind : ~Received(i, kind)
    BY <2>1, <2>2 DEF refusedAway, Received
  <2>5. ASSUME NEW i \in DOMAIN calls
        PROVE  ~pollAnswered(i) /\ ~pageAnswered(i) /\ ~loginAnswered(i)
    BY <2>4 DEF pollAnswered, pageAnswered, loginAnswered
  <2>6. ASSUME NEW i \in DOMAIN calls, bootAnswered(i)
        PROVE  calls[i].pc = "lost"
    BY <2>1, <2>6 DEF bootAnswered
  <2>7. ~reload /\ \A t \in Tokens : ~entered(t)
    BY <2>1, SessionAssumption DEF reload, Loaded, entered
  <2>8. ASSUME \/ useBell \/ notEntered \/ ensureConnected \/ reconnecting
               \/ pollTick \/ pageRequest \/ UNCHANGED sessionVars
               \/ \E to \in Pages : navigate(to)
               \/ \E u \in Users : loginSubmit(u) \/ registerSubmit(u)
               \/ \E t \in Tokens : expire(t)
               \/ \E i \in DOMAIN calls : serve(i) \/ lose(i)
               \/ \E id \in Ids : requestsMove(id)
        PROVE  UNCHANGED storedToken
    BY <2>8 DEF useBell, notEntered, ensureConnected, reconnecting, pollTick, pageRequest,
       sessionVars, navigate, loginSubmit, registerSubmit, Submit, expire, serve, lose,
       requestsMove, authVars
  <2> QED BY <1>1, <2>1, <2>3, <2>4, <2>5, <2>6, <2>7, <2>8 DEF SessionNext
<1>2. SessionInv /\ RefusedInv /\ [SessionNext]_sessionVars => [Kept]_sessionVars
  BY <1>1
<1> QED BY <1>2, SessionInvariant, RefusalsAreDeserved, PTL DEF SessionSpec, GoodTokenKept

\* A page that needs a user has one, or his profile is asked for, or was in vain
\* (the router's guard, App.vue's onMounted, the store's login).
THEOREM PrivatePagesHaveUsers ==
  SessionSpec => []PrivatePageHasUser
<1>1. ASSUME SessionInv, page \notin GuestPages, user = None, ~profileLost
      PROVE  Under("boot") \/ Under("login")
  <2>1. Sent(Entry) # {}
    BY <1>1 DEF SessionInv, ProfileInv
  <2>2. Sent({"boot"}) # {} \/ Sent({"login"}) # {}
    BY <2>1 DEF Sent, Entry
  <2> QED BY <2>2, UnderSent
<1>2. SessionInv => PrivatePageHasUser
  BY <1>1 DEF PrivatePageHasUser
<1> QED BY <1>2, SessionInvariant, PTL

\* What the polls of one user announced, one poll after the other, they announce
\* once (pollFriendRequests, startPolling, stopPolling), whatever requests are
\* made and answered meanwhile and in whichever order the server does.
THEOREM PollsAnnounceEachOnce ==
  SessionSpec => []PollsAnnounceOnce
<1>1. SessionInv => PollsAnnounceOnce
  BY DEF SessionInv, PollInv, OneUser, PollsAnnounceOnce
<1> QED BY <1>1, SessionInvariant, PTL
=============================================================================
