--------------------------- MODULE PrivacyProofs ---------------------------
(***************************************************************************)
(* Everything that stands on the privacy store alone, for any sets of       *)
(* users, owners, requests and calls in flight.  SharingService: types, the *)
(* vetting of the sharing lists and their replacement as a whole.           *)
(* LocationVisibilityService: what a verdict of canViewerSeeOwner is worth. *)
(* FriendsService: types, where friendships come from, which anomalies need *)
(* an overlap, and that the others may take it for Befriend and Unfriend.   *)
(***************************************************************************)
EXTENDS Friends, SharingVisibility, TLAPS

-----------------------------------------------------------------------------
(* Calls of canViewerSeeOwner.                                              *)

LEMMA CanSeeBoolean ==
  ASSUME NEW v, NEW o
  PROVE  CanSee(v, o) \in BOOLEAN /\ CanSee(v, o)' \in BOOLEAN
BY DEF CanSee

\* A step that leaves the store alone leaves the answers alone.
LEMMA StoreKept ==
  ASSUME UNCHANGED store
  PROVE  \A v, o : /\ areFriends(v, o)' = areFriends(v, o)
                   /\ CanSee(v, o)' = CanSee(v, o)
                   /\ \A m : ModeAllows(m, o, v)' = ModeAllows(m, o, v)
BY DEF store, CanSee, areFriends, getModeForUser, ModeAllows, isSelectedFriend,
       isExceptFriend

\* The two shapes of an assignment to a call's local state.
LEMMA CallUpdated ==
  ASSUME CheckTypeOK, NEW c \in Calls, NEW pc \in Steps, NEW mode \in Modes,
         NEW result \in BOOLEAN,
         \/ check' = [check EXCEPT ![c].pc = pc]
         \/ check' = [check EXCEPT ![c].pc = pc, ![c].mode = mode]
         \/ check' = [check EXCEPT ![c].pc = pc, ![c].result = result]
  PROVE  /\ check' \in [Calls -> CheckRecords]
         /\ \A d \in Calls \ {c} : check'[d] = check[d]
         /\ check'[c].viewer = check[c].viewer /\ check'[c].owner = check[c].owner
<1> DEFINE r == check[c]
           s == check'[c]
<1>1. r \in CheckRecords
  BY DEF CheckTypeOK
<1>2. check' \in [Calls -> {check[d] : d \in Calls} \cup {s}]
      /\ \A d \in Calls \ {c} : check'[d] = check[d]
  BY DEF CheckTypeOK
<1>3. \/ s = [r EXCEPT !.pc = pc]
      \/ s = [r EXCEPT !.pc = pc, !.mode = mode]
      \/ s = [r EXCEPT !.pc = pc, !.result = result]
  BY DEF CheckTypeOK
<1>4. s \in CheckRecords /\ s.viewer = r.viewer /\ s.owner = r.owner
  BY <1>1, <1>3 DEF CheckRecords
<1> QED BY <1>2, <1>4 DEF CheckTypeOK

-----------------------------------------------------------------------------
(* Sharing.                                                                 *)

(* Where every list update in flight stands: the ids already confirmed, and *)
(* the owner's present friends, are in the request's history.  The second   *)
(* half is what makes a confirmation extend the first.                      *)
RequestInv(e) ==
  Editing(e) =>
    /\ edit[e].owner \notin edit[e].ids
    /\ edit[e].todo \subseteq edit[e].ids
    /\ edit[e].ids \ edit[e].todo \subseteq friendsSince[e]
    /\ getFriendIds(edit[e].owner) \subseteq friendsSince[e]

SharingInv == SharingTypeOK /\ \A e \in Edits : RequestInv(e)

-----------------------------------------------------------------------------
(* The tables keep their types under every write.                           *)

LEMMA CommitTyped ==
  ASSUME StoreTypeOK, NEW e \in Edits, edit[e] \in EditRecords, Editing(e),
         ReplaceList(edit[e].owner, edit[e].mode, edit[e].ids)
  PROVE  StoreTypeOK'
BY DEF StoreTypeOK, EditRecords, Editing, ReplaceList, ListModes, Modes

LEMMA StoreStepTyped ==
  ASSUME SharingTypeOK, StoreStep
  PROVE  StoreTypeOK'
<1> USE DEF SharingTypeOK
<1>1. CASE \E u \in Owners : getSettings(u)
  BY <1>1, OwnersAssumption
  DEF StoreTypeOK, getSettings, getOrCreateSettings, Modes
<1>2. CASE \E u \in Owners, mode \in Modes : updateMode(u, mode)
  BY <1>2, OwnersAssumption DEF StoreTypeOK, updateMode, UpsertMode
<1>3. CASE \E e \in Edits : CommitListUpdate(e)
  BY <1>3, CommitTyped DEF CommitListUpdate
<1>4. CASE \E a, b \in Users : Befriend(a, b) \/ Unfriend(a, b)
  <2>1. ASSUME NEW a \in Users, NEW b \in Users, a # b
        PROVE  normalizeFriendPair(a, b) \in Pairs
    <3>1. <<a, b>> \in {r \in Users \X Users : r[1] # r[2]}
      BY <2>1
    <3> QED BY <3>1 DEF Pairs
  <2> QED
    BY <1>4, <2>1
    DEF StoreTypeOK, Befriend, Unfriend, createFriendship, removeFriendship
<1> QED BY <1>1, <1>2, <1>3, <1>4 DEF StoreStep

-----------------------------------------------------------------------------
(* The invariant is inductive.                                              *)

LEMMA InitInv == SharingInit => SharingInv
BY DEF SharingInit, SharingInv, SharingTypeOK, StoreInit, StoreTypeOK, Pairs,
       IdleEdit, EditRecords, ListModes, RequestInv, Editing

\* A store step that is not a commit of e leaves e's request as it was.
LEMMA StoreStepInv ==
  ASSUME SharingInv, StoreStep
  PROVE  SharingInv'
<1> USE DEF SharingInv, SharingTypeOK
<1>1. StoreTypeOK'
  BY StoreStepTyped
<1>2. CASE /\ UNCHANGED <<friendships, edit, friendsSince>>
  <2>1. \A e \in Edits : RequestInv(e)'
    BY <1>2 DEF RequestInv, Editing, getFriendIds, areFriends
  <2> QED BY <1>1, <1>2, <2>1
<1>3. CASE \E e \in Edits : CommitListUpdate(e)
  <2>1. PICK e \in Edits : CommitListUpdate(e)
    BY <1>3
  <2>2. /\ edit' = [edit EXCEPT ![e] = IdleEdit]
        /\ friendsSince' = [friendsSince EXCEPT ![e] = {}]
        /\ friendships' = friendships
    BY <2>1 DEF CommitListUpdate, EndRequest, ReplaceList
  <2>3. SharingTypeOK'
    BY <1>1, <2>2 DEF IdleEdit, EditRecords, ListModes
  <2>4. ASSUME NEW f \in Edits
        PROVE  RequestInv(f)'
    BY <2>2 DEF RequestInv, Editing, getFriendIds, areFriends, IdleEdit
  <2> QED BY <2>3, <2>4
<1>4. CASE UNCHANGED edit /\ ObserveFriends
  <2>1. SharingTypeOK'
    <3>1. \A u : getFriendIds(u)' \subseteq Users
      BY DEF getFriendIds
    <3> QED BY <1>1, <1>4, <3>1 DEF ObserveFriends
  <2>2. ASSUME NEW e \in Edits
        PROVE  RequestInv(e)'
    BY <1>4 DEF RequestInv, Editing, ObserveFriends, getFriendIds
  <2> QED BY <2>1, <2>2
<1> QED
  BY <1>2, <1>3, <1>4
  DEF StoreStep, getSettings, getOrCreateSettings, updateMode, UpsertMode,
      Befriend, Unfriend

LEMMA RequestStepInv ==
  ASSUME SharingInv, RequestStep
  PROVE  SharingInv'
<1> USE DEF SharingInv, SharingTypeOK
<1>1. UNCHANGED store
  BY DEF RequestStep, BeginListUpdate, ConfirmFriend, RejectFriend,
         AbortListUpdate
<1>2. StoreTypeOK' /\ \A u : getFriendIds(u)' = getFriendIds(u)
  BY <1>1 DEF store, StoreTypeOK, getFriendIds, areFriends
<1>3. PICK e \in Edits :
        \/ \E u \in Owners, mode \in ListModes, ids \in SUBSET Users :
             BeginListUpdate(e, u, mode, ids)
        \/ \E f \in Users : ConfirmFriend(e, f) \/ RejectFriend(e, f)
        \/ AbortListUpdate(e)
  BY DEF RequestStep
<1>4. CASE \E u \in Owners, mode \in ListModes, ids \in SUBSET Users :
             BeginListUpdate(e, u, mode, ids)
  <2>1. PICK u \in Owners, mode \in ListModes, ids \in SUBSET Users :
          BeginListUpdate(e, u, mode, ids)
    BY <1>4
  <2>2. SharingTypeOK'
    BY <1>2, <2>1, OwnersAssumption DEF BeginListUpdate, EditRecords, getFriendIds
  <2>3. ASSUME NEW f \in Edits
        PROVE  RequestInv(f)'
    BY <1>2, <2>1 DEF BeginListUpdate, RequestInv, Editing
  <2> QED BY <2>2, <2>3
<1>5. CASE \E f \in Users : ConfirmFriend(e, f)
  <2>1. PICK f \in Users : ConfirmFriend(e, f)
    BY <1>5
  <2>2. SharingTypeOK'
    BY <1>2, <2>1 DEF ConfirmFriend, EditRecords
  <2>3. RequestInv(e)'
    <3>1. f \in getFriendIds(edit[e].owner) \/ ~Editing(e)
      BY <2>1 DEF ConfirmFriend, RequestInv, getFriendIds
    <3> QED BY <1>2, <2>1, <3>1 DEF ConfirmFriend, RequestInv, Editing, EditRecords
  <2>4. ASSUME NEW g \in Edits, g # e
        PROVE  RequestInv(g)'
    BY <1>2, <2>1, <2>4 DEF ConfirmFriend, RequestInv, Editing
  <2> QED BY <2>2, <2>3, <2>4
<1>6. CASE EndRequest(e)
  BY <1>2, <1>6
  DEF EndRequest, RequestInv, Editing, IdleEdit, EditRecords, ListModes
<1> QED
  BY <1>3, <1>4, <1>5, <1>6 DEF RejectFriend, AbortListUpdate

LEMMA NextInv ==
  ASSUME SharingInv, [SharingNext]_sharingVars
  PROVE  SharingInv'
<1>1. CASE UNCHANGED sharingVars
  BY <1>1
  DEF sharingVars, store, SharingInv, SharingTypeOK, StoreTypeOK, RequestInv,
      Editing, getFriendIds, areFriends
<1> QED BY <1>1, StoreStepInv, RequestStepInv DEF SharingNext

-----------------------------------------------------------------------------
(* The results.                                                             *)

LEMMA SharingInvariant == SharingSpec => []SharingInv
<1> QED BY InitInv, NextInv, PTL DEF SharingSpec

\* The tables and the requests always have their types: a friendship row joins
\* two different accounts, a list holds accounts.
THEOREM SharingTypeCorrect == SharingSpec => []SharingTypeOK
<1>1. SharingInv => SharingTypeOK
  BY DEF SharingInv
<1> QED BY <1>1, SharingInvariant, PTL

\* Only the commit of a request whose loop is over writes a list, and by then
\* every one of its ids is in the request's history.
LEMMA StepVetted ==
  ASSUME SharingInv, [SharingNext]_sharingVars
  PROVE  [ListWriteVetted]_sharingVars
<1>1. CASE UNCHANGED <<selectedFriends, exceptFriends>>
  BY <1>1 DEF ListWriteVetted
<1>2. CASE \E e \in Edits : CommitListUpdate(e)
  <2>1. PICK e \in Edits : CommitListUpdate(e)
    BY <1>2
  <2>2. edit[e].owner \notin edit[e].ids /\ edit[e].ids \subseteq friendsSince[e]
    BY <2>1 DEF SharingInv, RequestInv, CommitListUpdate
  <2>3. ASSUME NEW o \in Users,
               NEW f \in (selectedFriends'[o] \ selectedFriends[o])
                            \cup (exceptFriends'[o] \ exceptFriends[o])
        PROVE  edit[e].owner = o /\ f \in edit[e].ids
    BY <2>1, <2>3
    DEF CommitListUpdate, ReplaceList, SharingInv, SharingTypeOK, StoreTypeOK
  <2> QED BY <2>2, <2>3 DEF ListWriteVetted
<1> QED
  BY <1>1, <1>2
  DEF SharingNext, StoreStep, RequestStep, getSettings, getOrCreateSettings,
      updateMode, UpsertMode, Befriend, Unfriend, createFriendship,
      removeFriendship, BeginListUpdate, ConfirmFriend, RejectFriend,
      AbortListUpdate, store, sharingVars

\* Nobody enters a sharing list without having been the owner's confirmed
\* friend at some instant of the request that lists them.
THEOREM ListsAreVetted == SharingSpec => ListWritesVetted
<1>1. SharingInv /\ [SharingNext]_sharingVars => [ListWriteVetted]_sharingVars
  BY StepVetted
<1> QED BY <1>1, SharingInvariant, PTL DEF SharingSpec, ListWritesVetted

-----------------------------------------------------------------------------
(* SharingVisibility.                                                       *)

(* What a call knows at each of its steps.  Once the friendship row was     *)
(* found, only an unfriending in between can make the pair strangers.  Once *)
(* the mode was read, the row that is still to be looked up already has its *)
(* justification: either CanSee had that value when the mode was read, or   *)
(* the row changed since, and the commit that changed it set the mode too.  *)
CheckInv(c) ==
  LET v == check[c].viewer
      o == check[c].owner
  IN /\ Running(c) => v \in Users /\ o \in Users /\ v # o
                      /\ CanSee(v, o) \in seen[c]
     /\ check[c].pc \in {"mode", "list"} => areFriends(v, o) \/ unfriended[c]
     /\ check[c].pc = "list" =>
          /\ check[c].mode \in ListModes
          /\ ModeAllows(check[c].mode, o, v) => TRUE \in seen[c] \/ unfriended[c]
          /\ ~ModeAllows(check[c].mode, o, v) => FALSE \in seen[c]
     /\ Done(c) =>
          /\ check[c].result => TRUE \in seen[c] \/ unfriended[c]
          /\ ~check[c].result => FALSE \in seen[c]

VisibilityInv ==
  /\ SharingInv
  /\ VisibilityTypeOK
  /\ \A c \in Calls : CheckInv(c)

-----------------------------------------------------------------------------
(* The calls do not disturb the handlers that write the store.              *)

LEMMA CallsOnlyRead ==
  ASSUME [VisibilityNext]_visibilityVars
  PROVE  [SharingNext]_sharingVars
BY DEF VisibilityNext, visibilityVars, ReadStep, Start, WriteStep, AskSelf, Ask,
       ReadFriendship, ReadMode, ReadList, SharingNext, sharingVars

LEMMA VisibilityInitInv == VisibilityInit => VisibilityInv
<1> SUFFICES ASSUME VisibilityInit
             PROVE  VisibilityInv
  OBVIOUS
<1>1. SharingInv
  BY InitInv DEF VisibilityInit
<1>2. VisibilityTypeOK
  BY <1>1 DEF VisibilityInit, VisibilityTypeOK, SharingInv, CheckInit,
              CheckTypeOK, CheckRecords, IdleCheck, Steps, Modes
<1>3. \A c \in Calls : CheckInv(c)
  BY DEF VisibilityInit, CheckInit, CheckInv, IdleCheck, Running, Done
<1> QED BY <1>1, <1>2, <1>3 DEF VisibilityInv

-----------------------------------------------------------------------------
(* A step that leaves the store alone: only the call that moves matters.    *)

LEMMA OthersKeep ==
  ASSUME NEW c \in Calls, CheckInv(c), UNCHANGED store,
         check'[c] = check[c], seen'[c] = seen[c], unfriended'[c] = unfriended[c]
  PROVE  CheckInv(c)'
<1> DEFINE v == check[c].viewer
           o == check[c].owner
           m == check[c].mode
<1>1. /\ areFriends(v, o)' <=> areFriends(v, o)
      /\ CanSee(v, o)' = CanSee(v, o)
      /\ ModeAllows(m, o, v)' <=> ModeAllows(m, o, v)
  BY StoreKept
<1>2. Running(c)' => v' \in Users /\ o' \in Users /\ v' # o'
                     /\ CanSee(v, o)' \in seen'[c]
  BY <1>1 DEF CheckInv, Running
<1>3. check'[c].pc \in {"mode", "list"} => areFriends(v, o)' \/ unfriended'[c]
  BY <1>1 DEF CheckInv
<1>4. check'[c].pc = "list" =>
          /\ check'[c].mode \in ListModes
          /\ ModeAllows(m, o, v)' => TRUE \in seen'[c] \/ unfriended'[c]
          /\ ~ModeAllows(m, o, v)' => FALSE \in seen'[c]
  BY <1>1 DEF CheckInv
<1>5. Done(c)' =>
          /\ check'[c].result => TRUE \in seen'[c] \/ unfriended'[c]
          /\ ~check'[c].result => FALSE \in seen'[c]
  BY <1>1 DEF CheckInv, Done
<1> QED BY <1>1, <1>2, <1>3, <1>4, <1>5 DEF CheckInv

LEMMA StartInv ==
  ASSUME VisibilityInv, NEW c \in Calls, NEW v \in Users, NEW o \in Users,
         Start(c, v, o)
  PROVE  VisibilityTypeOK' /\ \A d \in Calls : CheckInv(d)'
<1> USE DEF VisibilityInv, VisibilityTypeOK
<1>1. UNCHANGED <<store, edit, friendsSince>>
  BY DEF Start, AskSelf, Ask
<1>2. /\ check'[c].viewer = v /\ check'[c].owner = o
      /\ IF v = o THEN check'[c].pc = "done" /\ check'[c].result = FALSE
                  ELSE check'[c].pc = "friendship"
      /\ check' \in [Calls -> CheckRecords]
      /\ \A d \in Calls \ {c} : check'[d] = check[d]
  <2> DEFINE r == [pc |-> IF v = o THEN "done" ELSE "friendship", viewer |-> v,
                   owner |-> o, mode |-> "GHOST", result |-> FALSE]
  <2>1. check' = [check EXCEPT ![c] = r]
    BY DEF Start, AskSelf, Ask
  <2>2. r \in CheckRecords
    BY DEF CheckRecords, Steps, Modes
  <2> QED BY <2>1, <2>2 DEF CheckTypeOK
<1>3. CanSee(v, o)' = CanSee(v, o)
  BY <1>1, StoreKept DEF store
<1>4. seen'[c] = {CanSee(v, o)} /\ seen' \in [Calls -> SUBSET BOOLEAN]
      /\ \A d \in Calls \ {c} : seen'[d] = seen[d]
  BY CanSeeBoolean DEF Start
<1>5. unfriended' \in [Calls -> BOOLEAN]
      /\ \A d \in Calls \ {c} : unfriended'[d] = unfriended[d]
  BY DEF Start
<1>6. VisibilityTypeOK'
  BY <1>1, <1>2, <1>4, <1>5 DEF SharingTypeOK, StoreTypeOK, store, CheckTypeOK
<1>7. CheckInv(c)'
  <2>1. CASE v = o
    BY <1>2, <1>4, <2>1 DEF CheckInv, Running, Done, CanSee
  <2>2. CASE v # o
    BY <1>2, <1>3, <1>4, <2>2 DEF CheckInv, Running, Done
  <2> QED BY <2>1, <2>2
<1>8. ASSUME NEW d \in Calls \ {c}
      PROVE  CheckInv(d)'
  BY <1>1, <1>2, <1>4, <1>5, OthersKeep
<1> QED BY <1>6, <1>7, <1>8

LEMMA ReadInv ==
  ASSUME VisibilityInv, NEW c \in Calls, ReadStep(c)
  PROVE  VisibilityTypeOK' /\ \A d \in Calls : CheckInv(d)'
<1> USE DEF VisibilityInv, VisibilityTypeOK
<1> DEFINE v == check[c].viewer
           o == check[c].owner
<1>1. UNCHANGED <<store, edit, friendsSince, seen, unfriended>>
  BY DEF ReadStep, ReadFriendship, ReadMode, ReadList
<1>2. getModeForUser(o) \in Modes \/ o \notin Users
  BY DEF getModeForUser, SharingTypeOK, StoreTypeOK, Modes
<1>3. /\ check' \in [Calls -> CheckRecords]
      /\ \A d \in Calls \ {c} : check'[d] = check[d]
      /\ check'[c].viewer = v /\ check'[c].owner = o
  <2> USE CallUpdated DEF Steps, Modes
  <2>1. CASE ReadFriendship(c)
    BY <2>1 DEF ReadFriendship, Return
  <2>2. CASE ReadMode(c)
    BY <2>2 DEF ReadMode, Return, ListModes
  <2>3. CASE ReadList(c)
    <3>1. ModeAllows(check[c].mode, o, v) \in BOOLEAN
      BY DEF ModeAllows
    <3> QED BY <2>3, <3>1 DEF ReadList, Return
  <2> QED BY <2>1, <2>2, <2>3 DEF ReadStep
<1>4. VisibilityTypeOK'
  BY <1>1, <1>3 DEF SharingTypeOK, StoreTypeOK, store, CheckTypeOK
<1>5. /\ areFriends(v, o)' = areFriends(v, o)
      /\ CanSee(v, o)' = CanSee(v, o)
      /\ \A m : ModeAllows(m, o, v)' = ModeAllows(m, o, v)
  BY <1>1, <1>3, StoreKept DEF store
<1>6. CheckInv(c)'
  <2>1. CASE ReadFriendship(c)
    <3>1. check[c].pc = "friendship" /\ CanSee(v, o) \in seen[c]
          /\ v \in Users /\ o \in Users /\ v # o
      BY <2>1 DEF ReadFriendship, CheckInv, Running
    <3>2. CASE areFriends(v, o)
      <4>1. check'[c].pc = "mode"
        BY <2>1, <3>2 DEF ReadFriendship, CheckTypeOK, CheckRecords
      <4> QED BY <1>1, <1>3, <1>5, <3>1, <3>2, <4>1 DEF CheckInv, Running, Done
    <3>3. CASE ~areFriends(v, o)
      <4>1. check'[c].pc = "done" /\ check'[c].result = FALSE
        BY <2>1, <3>3 DEF ReadFriendship, Return, CheckTypeOK, CheckRecords
      <4>2. CanSee(v, o) = FALSE
        BY <3>3 DEF CanSee
      <4> QED BY <1>1, <3>1, <4>1, <4>2 DEF CheckInv, Running, Done
    <3> QED BY <3>2, <3>3
  <2>2. CASE ReadMode(c)
    <3> DEFINE mode == getModeForUser(o)
    <3>1. check[c].pc = "mode" /\ CanSee(v, o) \in seen[c]
          /\ v \in Users /\ o \in Users /\ v # o
          /\ (areFriends(v, o) \/ unfriended[c])
      BY <2>2 DEF ReadMode, CheckInv, Running
    <3>2. /\ areFriends(v, o) /\ ModeAllows(mode, o, v) => CanSee(v, o) = TRUE
          /\ ~ModeAllows(mode, o, v) => CanSee(v, o) = FALSE
      BY <3>1 DEF CanSee
    <3> HIDE DEF mode
    <3>3. CASE mode \in ListModes
      <4>1. check'[c].pc = "list" /\ check'[c].mode = mode
        BY <2>2, <3>3 DEF mode, ReadMode, CheckTypeOK, CheckRecords
      <4> QED
        BY <1>1, <1>3, <1>5, <3>1, <3>2, <3>3, <4>1 DEF CheckInv, Running, Done
    <3>4. CASE mode \notin ListModes
      <4>1. check'[c].pc = "done" /\ check'[c].result = (mode = "EVERYONE")
        BY <2>2, <3>4 DEF mode, ReadMode, Return, CheckTypeOK, CheckRecords
      <4>2. ModeAllows(mode, o, v) <=> mode = "EVERYONE"
        BY <3>4 DEF ModeAllows, ListModes
      <4> QED BY <1>1, <3>1, <3>2, <4>1, <4>2 DEF CheckInv, Running, Done
    <3> QED BY <3>3, <3>4
  <2>3. CASE ReadList(c)
    <3>1. /\ check[c].pc = "list" /\ check'[c].pc = "done"
          /\ check'[c].result = ModeAllows(check[c].mode, o, v)
      BY <2>3 DEF ReadList, Return, CheckTypeOK, CheckRecords
    <3> QED BY <1>1, <3>1 DEF CheckInv, Running, Done
  <2> QED BY <2>1, <2>2, <2>3 DEF ReadStep
<1>7. ASSUME NEW d \in Calls \ {c}
      PROVE  CheckInv(d)'
  BY <1>1, <1>3, OthersKeep
<1> QED BY <1>4, <1>6, <1>7

-----------------------------------------------------------------------------
(* A commit: the calls in flight observe it.                                *)

\* A commit that adds or removes a row of a list also makes the list's mode the
\* owner's mode, in the same transaction.
LEMMA RowChangesWithMode ==
  ASSUME SharingTypeOK, StoreStep, NEW v \in Users, NEW o \in Users,
         NEW mode \in ListModes,
         ModeAllows(mode, o, v)' # ModeAllows(mode, o, v)
  PROVE  getModeForUser(o)' = mode
<1>1. PICK e \in Edits : CommitListUpdate(e)
  BY DEF StoreStep, getSettings, getOrCreateSettings, updateMode, UpsertMode,
         Befriend, Unfriend, createFriendship, removeFriendship, ModeAllows,
         isSelectedFriend, isExceptFriend
<1>2. ReplaceList(edit[e].owner, edit[e].mode, edit[e].ids)
      /\ edit[e].mode \in ListModes
  BY <1>1 DEF CommitListUpdate, SharingTypeOK, EditRecords
<1>3. edit[e].owner = o /\ edit[e].mode = mode
  BY <1>2 DEF ReplaceList, ModeAllows, isSelectedFriend, isExceptFriend,
              ListModes, SharingTypeOK, StoreTypeOK
<1> QED
  BY <1>2, <1>3 DEF ReplaceList, getModeForUser, ListModes, NoRow, SharingTypeOK,
                    StoreTypeOK

LEMMA WriteInv ==
  ASSUME VisibilityInv, WriteStep
  PROVE  VisibilityTypeOK' /\ \A c \in Calls : CheckInv(c)'
<1> USE DEF VisibilityInv, VisibilityTypeOK
<1>1. SharingTypeOK'
  BY StoreStepInv DEF WriteStep, SharingInv
<1>2. seen' \in [Calls -> SUBSET BOOLEAN] /\ unfriended' \in [Calls -> BOOLEAN]
  BY CanSeeBoolean DEF WriteStep
<1>3. VisibilityTypeOK'
  BY <1>1, <1>2 DEF WriteStep, CheckTypeOK
<1>4. ASSUME NEW c \in Calls
      PROVE  CheckInv(c)'
  <2> DEFINE v == check[c].viewer
             o == check[c].owner
             m == check[c].mode
  <2>1. check'[c] = check[c]
    BY DEF WriteStep
  <2>2. CASE ~Running(c)
    BY <2>1, <2>2 DEF WriteStep, CheckInv, Running, Done
  <2>3. CASE Running(c)
    <3>1. v \in Users /\ o \in Users /\ v # o
      BY <2>3 DEF CheckInv
    <3>2. CanSee(v, o)' \in seen'[c] /\ seen[c] \subseteq seen'[c]
      BY <2>1, <2>3 DEF WriteStep
    <3>3. (areFriends(v, o) \/ unfriended[c]) => (areFriends(v, o)' \/ unfriended'[c])
      BY <2>1, <2>3 DEF WriteStep
    <3>4. unfriended[c] => unfriended'[c]
      BY DEF WriteStep
    <3>5. ASSUME check[c].pc = "list"
          PROVE  /\ m \in ListModes
                 /\ ModeAllows(m, o, v)' => TRUE \in seen'[c] \/ unfriended'[c]
                 /\ ~ModeAllows(m, o, v)' => FALSE \in seen'[c]
      <4>1. /\ m \in ListModes
            /\ areFriends(v, o) \/ unfriended[c]
            /\ ModeAllows(m, o, v) => TRUE \in seen[c] \/ unfriended[c]
            /\ ~ModeAllows(m, o, v) => FALSE \in seen[c]
        BY <3>5 DEF CheckInv
      <4>2. CASE ModeAllows(m, o, v)' = ModeAllows(m, o, v)
        BY <3>2, <3>4, <4>1, <4>2
      <4>3. CASE ModeAllows(m, o, v)' # ModeAllows(m, o, v)
        <5>1. getModeForUser(o)' = m
          BY <3>1, <4>1, <4>3, RowChangesWithMode DEF WriteStep
        <5>2. /\ areFriends(v, o)' /\ ModeAllows(m, o, v)' => CanSee(v, o)' = TRUE
              /\ ~ModeAllows(m, o, v)' => CanSee(v, o)' = FALSE
          BY <2>1, <3>1, <5>1 DEF CanSee
        <5> QED BY <3>2, <3>3, <4>1, <5>2
      <4> QED BY <4>2, <4>3
    <3>6. check[c].pc \in {"mode", "list"} => areFriends(v, o) \/ unfriended[c]
      BY DEF CheckInv
    <3> QED
      BY <2>1, <2>3, <3>1, <3>2, <3>3, <3>5, <3>6 DEF CheckInv, Running, Done
  <2> QED BY <2>2, <2>3
<1> QED BY <1>3, <1>4

-----------------------------------------------------------------------------
(* The results.                                                             *)

LEMMA VisibilityNextInv ==
  ASSUME VisibilityInv, [VisibilityNext]_visibilityVars
  PROVE  VisibilityInv'
<1>1. SharingInv'
  BY CallsOnlyRead, NextInv DEF VisibilityInv
<1>2. VisibilityTypeOK' /\ \A c \in Calls : CheckInv(c)'
  <2>1. CASE UNCHANGED visibilityVars
    BY <1>1, <2>1, OthersKeep
    DEF visibilityVars, sharingVars, VisibilityInv, VisibilityTypeOK, SharingInv,
        CheckTypeOK
  <2>2. CASE RequestStep /\ UNCHANGED <<check, seen, unfriended>>
    <3>1. UNCHANGED store
      BY <2>2 DEF RequestStep, BeginListUpdate, ConfirmFriend, RejectFriend,
                  AbortListUpdate
    <3> QED
      BY <1>1, <2>2, <3>1, OthersKeep
      DEF VisibilityInv, VisibilityTypeOK, SharingInv, CheckTypeOK
  <2> QED
    BY <2>1, <2>2, StartInv, ReadInv, WriteInv DEF VisibilityNext
<1> QED BY <1>1, <1>2 DEF VisibilityInv

LEMMA VisibilityInvariant == VisibilitySpec => []VisibilityInv
<1> QED BY VisibilityInitInv, VisibilityNextInv, PTL DEF VisibilitySpec

THEOREM VisibilityTypeCorrect == VisibilitySpec => []VisibilityTypeOK
<1>1. VisibilityInv => VisibilityTypeOK
  BY DEF VisibilityInv
<1> QED BY <1>1, VisibilityInvariant, PTL

\* canViewerSeeOwner never refuses a viewer who was allowed throughout the call.
THEOREM DenialsAreJustified == VisibilitySpec => []DenialJustified
<1>1. VisibilityInv => DenialJustified
  BY DEF VisibilityInv, CheckInv, DenialJustified, Done
<1> QED BY <1>1, VisibilityInvariant, PTL

\* canViewerSeeOwner never admits a viewer who was not allowed at any instant of
\* the call, unless the two stopped being friends while it ran.
THEOREM GrantsAreJustified == VisibilitySpec => []GrantJustified
<1>1. VisibilityInv => GrantJustified
  BY DEF VisibilityInv, CheckInv, GrantJustified, Done
<1> QED BY <1>1, VisibilityInvariant, PTL

\* The calls of canViewerSeeOwner are invisible to the sharing tables: with them
\* the system still behaves as Sharing says.
THEOREM VisibilityRefinesSharing == VisibilitySpec => SharingSpec
<1>1. VisibilityInit => SharingInit
  BY DEF VisibilityInit
<1>2. [VisibilityNext]_visibilityVars => [SharingNext]_sharingVars
  BY CallsOnlyRead
<1> QED BY <1>1, <1>2, PTL DEF VisibilitySpec, SharingSpec

-----------------------------------------------------------------------------
(* FriendsService.                                                          *)

(* Whoever has a row is an account, and nobody asks himself.                *)
Asked(id) ==
  request[id].status # "UNUSED" =>
    /\ request[id].sender \in Users /\ request[id].receiver \in Users
    /\ request[id].sender # request[id].receiver

(* What a call holds of its arguments and of the row it has checked.        *)
CallInv(h) ==
  LET call == handler[h] IN
  /\ call.pc = "read" => call.kind \in {"accept", "reject"}
  /\ call.kind = "none" => call.pc = "free"
  /\ call.kind \in {"send", "remove"} =>
       call.user \in Users /\ call.peer \in Users /\ call.user # call.peer
  /\ call.kind \in {"accept", "reject"} =>
       call.id \in RequestIds /\ request[call.id].status # "UNUSED"
  /\ At(h, "accept", "commit") => call.user = request[call.id].receiver

(* A request that was answered for good stays so: no call that could still   *)
(* accept it has passed its check, and none will.                           *)
LapsedInv ==
  \A id \in lapsed :
    /\ request[id].status \in {"ACCEPTED", "REJECTED", "DELETED"}
    /\ \A h \in Handlers : At(h, "accept", "commit") => handler[h].id # id

(* What the checks of sendFriendRequest have found still stands, unless      *)
(* another call has written for the pair since.                             *)
NoneOpen(pair) ==
  \A id \in RequestIds : request[id].status = "PENDING" => Between(id) # pair

CheckHolds(h) ==
  LET call == handler[h]
      pair == normalizeFriendPair(call.user, call.peer) IN
  call.kind = "send" /\ ~call.disturbed =>
    /\ call.pc \in {"pending", "delete", "create"} => pair \notin friendships
    /\ call.pc \in {"delete", "create"} => NoneOpen(pair)

FriendsInv ==
  /\ FriendsTypeOK
  /\ \A id \in RequestIds : Asked(id)
  /\ \A h \in Handlers : CallInv(h)
  /\ LapsedInv
  /\ AnomaliesNeedOverlap
  /\ \A h \in Handlers : CheckHolds(h)

-----------------------------------------------------------------------------

LEMMA IdleIsHandler == IdleHandler \in HandlerRecords
BY DEF IdleHandler, HandlerRecords

LEMMA FriendsInitInv == FriendsInit => FriendsInv
<1> SUFFICES ASSUME FriendsInit
             PROVE  FriendsInv
  OBVIOUS
<1> USE DEF FriendsInit
<1>1. FriendsTypeOK
  <2>1. StoreTypeOK
    BY DEF StoreInit, StoreTypeOK, Pairs
  <2>2. UnusedRequest \in RequestRecords
    BY DEF UnusedRequest, RequestRecords
  <2> QED BY <2>1, <2>2, IdleIsHandler DEF FriendsTypeOK
<1>2. /\ \A id \in RequestIds : Asked(id)
      /\ LapsedInv /\ AnomaliesNeedOverlap
  BY DEF Asked, LapsedInv, AnomaliesNeedOverlap, UnusedRequest
<1>3. \A h \in Handlers : CallInv(h) /\ CheckHolds(h)
  BY DEF CallInv, CheckHolds, IdleHandler, At
<1> QED BY <1>1, <1>2, <1>3 DEF FriendsInv

LEMMA PairsAreUnordered ==
  ASSUME NEW a \in Users, NEW b \in Users, a # b
  PROVE  normalizeFriendPair(a, b) \in Pairs
<1>1. <<a, b>> \in {r \in Users \X Users : r[1] # r[2]}
  OBVIOUS
<1> QED BY <1>1 DEF Pairs

-----------------------------------------------------------------------------
(* Steps of a call that write nothing.                                      *)

LEMMA CallStep ==
  ASSUME FriendsInv, UNCHANGED <<store, request, overlapped, lapsed>>,
         NEW h \in Handlers, NEW local \in HandlerRecords,
         handler' = [handler EXCEPT ![h] = local],
         CallInv(h)', CheckHolds(h)',
         At(h, "accept", "commit")' => local.id \notin lapsed
  PROVE  FriendsInv'
<1> USE DEF FriendsInv
<1>1. /\ handler' \in [Handlers -> HandlerRecords] /\ handler'[h] = local
      /\ \A k \in Handlers \ {h} : handler'[k] = handler[k]
      /\ UNCHANGED <<friendships, settings, selectedFriends, exceptFriends>>
  BY DEF FriendsTypeOK, store
<1>2. FriendsTypeOK'
  BY <1>1 DEF FriendsTypeOK, StoreTypeOK
<1>3. (\A id \in RequestIds : Asked(id))' /\ AnomaliesNeedOverlap'
  BY <1>1 DEF Asked, AnomaliesNeedOverlap, Between
<1>4. \A k \in Handlers \ {h} : CallInv(k)' /\ CheckHolds(k)'
  <2>1. \A k \in Handlers \ {h} : CallInv(k)'
    BY <1>1 DEF CallInv, At
  <2>2. \A k \in Handlers \ {h} : CheckHolds(k)'
    BY <1>1 DEF CheckHolds, NoneOpen, Between
  <2> QED BY <2>1, <2>2
<1>5. LapsedInv'
  BY <1>1 DEF LapsedInv, At
<1> QED BY <1>2, <1>3, <1>4, <1>5

LEMMA IdleStep ==
  ASSUME FriendsInv, UNCHANGED <<store, request, overlapped, lapsed>>,
         NEW h \in Handlers, handler' = [handler EXCEPT ![h] = IdleHandler]
  PROVE  FriendsInv'
<1>1. handler'[h] = IdleHandler
  BY DEF FriendsInv, FriendsTypeOK
<1>2. CallInv(h)' /\ CheckHolds(h)' /\ ~At(h, "accept", "commit")'
  BY <1>1 DEF CallInv, CheckHolds, At, IdleHandler
<1> QED BY <1>2, IdleIsHandler, CallStep

LEMMA BeginStep ==
  ASSUME FriendsInv, NEW h \in Handlers, NEW local \in HandlerRecords, Begin(h, local),
         local.kind # "none", ~(local.kind = "accept" /\ local.pc = "commit"),
         local.pc \in {"friends", "read"},
         local.pc = "read" => local.kind \in {"accept", "reject"},
         local.kind \in {"send", "remove"} =>
           local.user \in Users /\ local.peer \in Users /\ local.user # local.peer,
         local.kind \in {"accept", "reject"} =>
           local.id \in RequestIds /\ request[local.id].status # "UNUSED"
  PROVE  FriendsInv'
<1>1. /\ UNCHANGED <<store, request, overlapped, lapsed>>
      /\ handler' = [handler EXCEPT ![h] = local]
  BY DEF Begin
<1>2. handler'[h] = local
  BY <1>1 DEF FriendsInv, FriendsTypeOK
<1>3. CallInv(h)' /\ CheckHolds(h)' /\ ~At(h, "accept", "commit")'
  BY <1>1, <1>2 DEF CallInv, CheckHolds, At
<1> QED BY <1>1, <1>3, CallStep

LEMMA BeginInv ==
  ASSUME FriendsInv, NEW h \in Handlers,
         \/ \E u, v \in Users : sendFriendRequest(h, u, v) \/ removeFriend(h, u, v)
         \/ \E u \in Users, id \in RequestIds :
              acceptFriendRequest(h, u, id) \/ rejectFriendRequest(h, u, id)
  PROVE  FriendsInv'
<1>1. ASSUME NEW u \in Users, NEW v \in Users, NEW kind \in {"send", "remove"}, u # v,
             Begin(h, [IdleHandler EXCEPT !.kind = kind, !.pc = "friends", !.user = u,
                                          !.peer = v])
      PROVE  FriendsInv'
  <2> DEFINE local == [IdleHandler EXCEPT !.kind = kind, !.pc = "friends", !.user = u,
                                          !.peer = v]
  <2>1. /\ local \in HandlerRecords /\ local.kind = kind /\ local.pc = "friends"
        /\ local.user = u /\ local.peer = v
    BY DEF HandlerRecords, IdleHandler
  <2> HIDE DEF local
  <2> QED BY <1>1, <2>1, BeginStep DEF local
<1>2. ASSUME NEW u \in Users, NEW id \in RequestIds, NEW kind \in {"accept", "reject"},
             request[id].status # "UNUSED",
             Begin(h, [IdleHandler EXCEPT !.kind = kind, !.pc = "read", !.user = u,
                                          !.id = id])
      PROVE  FriendsInv'
  <2> DEFINE local == [IdleHandler EXCEPT !.kind = kind, !.pc = "read", !.user = u,
                                          !.id = id]
  <2>1. /\ local \in HandlerRecords /\ local.kind = kind /\ local.pc = "read"
        /\ local.user = u /\ local.id = id
    BY DEF HandlerRecords, IdleHandler
  <2> HIDE DEF local
  <2> QED BY <1>2, <2>1, BeginStep DEF local
<1> QED
  BY <1>1, <1>2
  DEF sendFriendRequest, removeFriend, acceptFriendRequest, rejectFriendRequest, Answer

\* The checks: what they let pass is what CheckHolds and CallInv say.
LEMMA PassedCheckInv ==
  ASSUME FriendsInv, NEW h \in Handlers,
         \/ CheckNotFriends(h) \/ assertNoPendingRequestBetween(h)
         \/ getPendingRequestForReceiver(h) \/ CheckFriends(h)
  PROVE  FriendsInv'
<1> DEFINE call == handler[h]
           moved(pc) == [call EXCEPT !.pc = pc]
           passes(pc) == handler' = [handler EXCEPT ![h] = moved(pc)]
<1>1. call \in HandlerRecords /\ CallInv(h) /\ CheckHolds(h)
  BY DEF FriendsInv, FriendsTypeOK
<1>2. UNCHANGED <<store, request, overlapped, lapsed>>
  BY DEF CheckNotFriends, assertNoPendingRequestBetween, getPendingRequestForReceiver,
         CheckFriends, Check
<1>3. ASSUME NEW pc \in {"pending", "delete", "commit"}, passes(pc)
      PROVE  /\ moved(pc) \in HandlerRecords
             /\ handler'[h].pc = pc /\ handler'[h].kind = call.kind
             /\ handler'[h].user = call.user /\ handler'[h].peer = call.peer
             /\ handler'[h].id = call.id /\ handler'[h].disturbed = call.disturbed
  BY <1>1, <1>3 DEF HandlerRecords, FriendsInv, FriendsTypeOK
<1>4. ASSUME NEW pc \in {"pending", "delete", "commit"}, passes(pc),
             CallInv(h)', CheckHolds(h)', At(h, "accept", "commit")' => call.id \notin lapsed
      PROVE  FriendsInv'
  <2>1. moved(pc) \in HandlerRecords /\ moved(pc).id = call.id
    BY <1>1, <1>3, <1>4 DEF HandlerRecords
  <2> QED BY <1>2, <1>4, <2>1, CallStep
<1>5. CASE handler' = [handler EXCEPT ![h] = IdleHandler]
  BY <1>2, <1>5, IdleStep
<1>6. CASE CheckNotFriends(h) /\ ~areFriends(call.user, call.peer) /\ passes("pending")
  <2>1. CallInv(h)' /\ ~At(h, "accept", "commit")'
    BY <1>1, <1>2, <1>3, <1>6 DEF CallInv, At, CheckNotFriends
  <2>2. CheckHolds(h)'
    BY <1>2, <1>3, <1>6 DEF CheckHolds, areFriends, store
  <2> QED BY <1>4, <1>6, <2>1, <2>2
<1>7. CASE /\ assertNoPendingRequestBetween(h) /\ PendingBetween(call.user, call.peer) = {}
           /\ passes("delete")
  <2>1. CallInv(h)' /\ ~At(h, "accept", "commit")'
    BY <1>1, <1>2, <1>3, <1>7 DEF CallInv, At, assertNoPendingRequestBetween
  <2>2. /\ handler'[h].user = call.user /\ handler'[h].peer = call.peer
        /\ handler'[h].disturbed = call.disturbed /\ handler'[h].kind = call.kind
        /\ call.pc = "pending"
    BY <1>3, <1>7 DEF assertNoPendingRequestBetween, At
  <2>3. NoneOpen(normalizeFriendPair(call.user, call.peer))
    BY <1>7 DEF PendingBetween, RowsBetween, NoneOpen, Rows
  <2>4. CheckHolds(h)'
    BY <1>1, <1>2, <2>2, <2>3 DEF CheckHolds, NoneOpen, Between, store
  <2> QED BY <1>4, <1>7, <2>1, <2>4
<1>8. CASE /\ getPendingRequestForReceiver(h) \/ CheckFriends(h)
           /\ getPendingRequestForReceiver(h) => /\ request[call.id].status = "PENDING"
                                                 /\ request[call.id].receiver = call.user
           /\ passes("commit")
  <2>1. call.kind # "send" /\ (call.kind = "accept" => getPendingRequestForReceiver(h))
    BY <1>1, <1>8 DEF CallInv, At, getPendingRequestForReceiver, CheckFriends
  <2>2. CallInv(h)'
    <3>1. /\ handler'[h].pc = "commit" /\ handler'[h].kind = call.kind
          /\ handler'[h].user = call.user /\ handler'[h].peer = call.peer
          /\ handler'[h].id = call.id /\ request' = request
      BY <1>2, <1>3, <1>8
    <3>2. call.kind = "accept" => call.user = request[call.id].receiver
      BY <1>8, <2>1
    <3>3. call.kind # "none"
      BY <1>1, <1>8 DEF CallInv, getPendingRequestForReceiver, CheckFriends, At
    <3> QED BY <1>1, <3>1, <3>2, <3>3 DEF CallInv, At
  <2>3. CheckHolds(h)'
    BY <1>3, <1>8, <2>1 DEF CheckHolds
  <2>4. At(h, "accept", "commit")' => call.id \notin lapsed
    BY <1>3, <1>8, <2>1 DEF At, FriendsInv, LapsedInv
  <2> QED BY <1>4, <1>8, <2>2, <2>3, <2>4
<1> QED
  BY <1>5, <1>6, <1>7, <1>8
  DEF CheckNotFriends, assertNoPendingRequestBetween, getPendingRequestForReceiver,
      CheckFriends, Check

-----------------------------------------------------------------------------
(* The writes.                                                              *)

\* Rows are closed: answered or deleted, whatever they were.
LEMMA CloseStep ==
  ASSUME FriendsInv, UNCHANGED <<store, overlapped, lapsed>>,
         request' \in [RequestIds -> RequestRecords],
         \A id \in RequestIds :
           /\ request'[id].sender = request[id].sender
           /\ request'[id].receiver = request[id].receiver
           /\ \/ request'[id].status = request[id].status
              \/ request[id].status \in Rows /\ request'[id].status \in {"REJECTED", "DELETED"},
         NEW h \in Handlers, NEW local \in HandlerRecords,
         handler' = [handler EXCEPT ![h] = local],
         CallInv(h)', CheckHolds(h)', ~At(h, "accept", "commit")'
  PROVE  FriendsInv'
<1> USE DEF FriendsInv
<1>1. /\ handler' \in [Handlers -> HandlerRecords] /\ handler'[h] = local
      /\ \A k \in Handlers \ {h} : handler'[k] = handler[k]
      /\ UNCHANGED <<friendships, settings, selectedFriends, exceptFriends>>
      /\ \A id \in RequestIds : Between(id)' = Between(id)
      /\ \A id \in RequestIds : request'[id].status = "PENDING" => request[id].status = "PENDING"
      /\ \A id \in RequestIds : request'[id].status = "UNUSED" <=> request[id].status = "UNUSED"
  BY DEF FriendsTypeOK, store, Between, Rows
<1>2. FriendsTypeOK'
  BY <1>1 DEF FriendsTypeOK, StoreTypeOK
<1>3. (\A id \in RequestIds : Asked(id))' /\ AnomaliesNeedOverlap'
  BY <1>1 DEF Asked, AnomaliesNeedOverlap
<1>4. ASSUME NEW k \in Handlers \ {h}
      PROVE  CallInv(k)' /\ CheckHolds(k)'
  <2>1. CallInv(k)'
    BY <1>1 DEF CallInv, At
  <2>2. \A pair : NoneOpen(pair) => NoneOpen(pair)'
    BY <1>1 DEF NoneOpen
  <2>3. CheckHolds(k)'
    BY <1>1, <2>2 DEF CheckHolds
  <2> QED BY <2>1, <2>3
<1>5. LapsedInv'
  BY <1>1 DEF LapsedInv, At, FriendsTypeOK, Rows
<1> QED BY <1>2, <1>3, <1>4, <1>5

LEMMA DeleteInv ==
  ASSUME FriendsInv, NEW h \in Handlers, DeleteOldRequests(h)
  PROVE  FriendsInv'
<1> DEFINE call == handler[h]
           local == [call EXCEPT !.pc = "create"]
<1>1. call \in HandlerRecords /\ CallInv(h) /\ CheckHolds(h) /\ At(h, "send", "delete")
  BY DEF FriendsInv, FriendsTypeOK, DeleteOldRequests
<1>2. /\ local \in HandlerRecords /\ local.pc = "create" /\ local.kind = "send"
      /\ local.user = call.user /\ local.peer = call.peer
      /\ local.disturbed = call.disturbed
  BY <1>1 DEF HandlerRecords, At
<1>3. UNCHANGED <<store, overlapped, lapsed>> /\ handler' = [handler EXCEPT ![h] = local]
  BY DEF DeleteOldRequests, FriendsInv, FriendsTypeOK
<1>4. /\ request' \in [RequestIds -> RequestRecords]
      /\ \A id \in RequestIds :
           /\ request'[id].sender = request[id].sender
           /\ request'[id].receiver = request[id].receiver
           /\ \/ request'[id].status = request[id].status
              \/ request[id].status \in Rows /\ request'[id].status \in {"REJECTED", "DELETED"}
  BY DEF DeleteOldRequests, FriendsInv, FriendsTypeOK, RequestRecords, RowsBetween
<1> HIDE DEF local
<1>5. handler'[h] = local
  BY <1>3 DEF FriendsInv, FriendsTypeOK
<1>6. CallInv(h)' /\ ~At(h, "accept", "commit")'
  BY <1>1, <1>2, <1>5 DEF CallInv, At
<1>7. CheckHolds(h)'
  <2>1. \A pair : NoneOpen(pair) => NoneOpen(pair)'
    BY <1>4 DEF NoneOpen, Between, Rows
  <2>2. friendships' = friendships
    BY <1>3 DEF store
  <2> QED BY <1>1, <1>2, <1>5, <2>1, <2>2 DEF CheckHolds, At
<1> QED BY <1>2, <1>3, <1>4, <1>6, <1>7, CloseStep

LEMMA RejectInv ==
  ASSUME FriendsInv, NEW h \in Handlers, CommitReject(h)
  PROVE  FriendsInv'
<1>1. /\ UNCHANGED <<store, overlapped, lapsed>>
      /\ handler' = [handler EXCEPT ![h] = IdleHandler]
  BY DEF CommitReject, Finish
<1>2. handler[h].id \in RequestIds
  BY DEF CommitReject, At, FriendsInv, CallInv
<1>3. /\ request' \in [RequestIds -> RequestRecords]
      /\ \A id \in RequestIds :
           /\ request'[id].sender = request[id].sender
           /\ request'[id].receiver = request[id].receiver
           /\ \/ request'[id].status = request[id].status
              \/ request[id].status \in Rows /\ request'[id].status \in {"REJECTED", "DELETED"}
  BY <1>2 DEF CommitReject, FriendsInv, FriendsTypeOK, RequestRecords, Rows
<1>4. handler'[h] = IdleHandler
  BY <1>1 DEF FriendsInv, FriendsTypeOK
<1>5. CallInv(h)' /\ CheckHolds(h)' /\ ~At(h, "accept", "commit")'
  BY <1>4 DEF CallInv, CheckHolds, At, IdleHandler
<1> QED BY <1>1, <1>3, <1>5, IdleIsHandler, CloseStep

\* What a write for a pair leaves of the other calls.
LEMMA WritingFinished ==
  ASSUME FriendsInv, NEW h \in Handlers, NEW pair, FinishWriting(h, pair)
  PROVE  /\ handler' \in [Handlers -> HandlerRecords]
         /\ handler'[h] = IdleHandler
         /\ \A k \in Handlers \ {h} :
              /\ handler'[k].kind = handler[k].kind /\ handler'[k].pc = handler[k].pc
              /\ handler'[k].user = handler[k].user /\ handler'[k].peer = handler[k].peer
              /\ handler'[k].id = handler[k].id
              /\ ~handler'[k].disturbed =>
                   /\ ~handler[k].disturbed
                   /\ handler[k].kind = "send" =>
                        normalizeFriendPair(handler[k].user, handler[k].peer) # pair
<1>1. handler \in [Handlers -> HandlerRecords]
  BY DEF FriendsInv, FriendsTypeOK
<1>2. ASSUME NEW k \in Handlers \ {h}
      PROVE  /\ handler'[k] \in HandlerRecords
             /\ handler'[k].kind = handler[k].kind /\ handler'[k].pc = handler[k].pc
             /\ handler'[k].user = handler[k].user /\ handler'[k].peer = handler[k].peer
             /\ handler'[k].id = handler[k].id
             /\ ~handler'[k].disturbed =>
                  /\ ~handler[k].disturbed
                  /\ handler[k].kind = "send" =>
                       normalizeFriendPair(handler[k].user, handler[k].peer) # pair
  <2> DEFINE d == \/ handler[k].disturbed
                  \/ /\ handler[k].kind = "send"
                     /\ normalizeFriendPair(handler[k].user, handler[k].peer) = pair
  <2>1. handler'[k] = [handler[k] EXCEPT !.disturbed = d]
    BY DEF FinishWriting
  <2>2. d \in BOOLEAN
    OBVIOUS
  <2>3. d = FALSE => /\ ~handler[k].disturbed
                     /\ handler[k].kind = "send" =>
                          normalizeFriendPair(handler[k].user, handler[k].peer) # pair
    OBVIOUS
  <2> HIDE DEF d
  <2>4. /\ handler'[k] \in HandlerRecords /\ handler'[k].disturbed = d
        /\ handler'[k].kind = handler[k].kind /\ handler'[k].pc = handler[k].pc
        /\ handler'[k].user = handler[k].user /\ handler'[k].peer = handler[k].peer
        /\ handler'[k].id = handler[k].id
    BY <1>1, <2>1, <2>2 DEF HandlerRecords
  <2> QED BY <2>2, <2>3, <2>4
<1>3. handler'[h] = IdleHandler /\ handler' = [k \in Handlers |-> handler'[k]]
  BY DEF FinishWriting
<1>4. handler' \in [Handlers -> HandlerRecords]
  <2>1. \A k \in Handlers : handler'[k] \in HandlerRecords
    BY <1>2, <1>3, IdleIsHandler
  <2> QED BY <1>3, <2>1
<1> QED BY <1>2, <1>3, <1>4

\* A new row: a call that nobody disturbed meets neither a friendship nor another
\* open request of the pair, and the other calls of the pair are disturbed.
LEMMA CreateInv ==
  ASSUME FriendsInv, NEW h \in Handlers, NEW id \in RequestIds, CreateRequest(h, id)
  PROVE  FriendsInv'
<1> USE DEF FriendsInv
<1> DEFINE call == handler[h]
           pair == normalizeFriendPair(call.user, call.peer)
           row == [sender |-> call.user, receiver |-> call.peer, status |-> "PENDING"]
<1>1. /\ call \in HandlerRecords /\ CallInv(h) /\ CheckHolds(h) /\ At(h, "send", "create")
      /\ call.user \in Users /\ call.peer \in Users /\ call.user # call.peer
  BY DEF FriendsTypeOK, CreateRequest, CallInv, At
<1>2. /\ request[id].status = "UNUSED" /\ request' = [request EXCEPT ![id] = row]
      /\ overlapped' = IF call.disturbed THEN overlapped \cup {id} ELSE overlapped
      /\ lapsed' = lapsed /\ FinishWriting(h, pair)
      /\ UNCHANGED <<friendships, settings, selectedFriends, exceptFriends>>
  BY DEF CreateRequest, store
<1>3. /\ row \in RequestRecords /\ row.sender = call.user /\ row.receiver = call.peer
      /\ row.status = "PENDING"
  BY <1>1 DEF RequestRecords, Rows
<1>4. /\ request' \in [RequestIds -> RequestRecords] /\ request'[id] = row
      /\ \A i \in RequestIds \ {id} : request'[i] = request[i]
  BY <1>2, <1>3 DEF FriendsTypeOK
<1>5. /\ Between(id)' = pair
      /\ \A i \in RequestIds \ {id} : Between(i)' = Between(i)
  BY <1>3, <1>4 DEF Between
<1> HIDE DEF row
<1>6. FriendsTypeOK'
  BY <1>2, <1>4, WritingFinished DEF FriendsTypeOK, StoreTypeOK
<1>7. (\A i \in RequestIds : Asked(i))'
  BY <1>1, <1>3, <1>4 DEF Asked
<1>8. LapsedInv'
  BY <1>2, <1>4, WritingFinished DEF LapsedInv, At, IdleHandler, FriendsTypeOK
<1>9. ASSUME NEW k \in Handlers
      PROVE  CallInv(k)' /\ CheckHolds(k)'
  <2>1. CASE k = h
    BY <1>2, <2>1, WritingFinished DEF CallInv, CheckHolds, At, IdleHandler
  <2>2. CASE k # h
    <3>1. CallInv(k)'
      BY <1>2, <1>3, <1>4, <2>2, WritingFinished DEF CallInv, At
    <3>2. \A p : NoneOpen(p) /\ p # pair => NoneOpen(p)'
      BY <1>4, <1>5 DEF NoneOpen
    <3>3. CheckHolds(k)'
      BY <1>2, <2>2, <3>2, WritingFinished DEF CheckHolds
    <3> QED BY <3>1, <3>3
  <2> QED BY <2>1, <2>2
<1>10. AnomaliesNeedOverlap'
  <2>1. ASSUME NEW i \in RequestIds, request'[i].status = "PENDING", i \notin overlapped'
        PROVE  /\ Between(i)' \notin friendships
               /\ \A other \in RequestIds :
                    /\ request'[other].status = "PENDING"
                    /\ Between(other)' = Between(i)'
                    /\ other # i
                    => other \in overlapped'
    <3>1. CASE i = id
      <4>1. ~call.disturbed
        BY <1>2, <2>1, <3>1
      <4>2. pair \notin friendships /\ NoneOpen(pair)
        BY <1>1, <4>1 DEF CheckHolds, At
      <4> QED BY <1>4, <1>5, <3>1, <4>2 DEF NoneOpen
    <3>2. CASE i # id
      <4>1. request[i].status = "PENDING" /\ i \notin overlapped
        BY <1>2, <1>4, <2>1, <3>2
      <4>2. CASE call.disturbed
        BY <1>2, <1>4, <1>5, <3>2, <4>1, <4>2 DEF AnomaliesNeedOverlap
      <4>3. CASE ~call.disturbed
        <5>1. NoneOpen(pair)
          BY <1>1, <4>3 DEF CheckHolds, At
        <5>2. Between(i) # pair
          BY <4>1, <5>1 DEF NoneOpen
        <5> QED BY <1>2, <1>4, <1>5, <3>2, <4>1, <5>2 DEF AnomaliesNeedOverlap
      <4> QED BY <4>2, <4>3
    <3> QED BY <3>1, <3>2
  <2> QED BY <1>2, <2>1 DEF AnomaliesNeedOverlap
<1> QED BY <1>6, <1>7, <1>8, <1>9, <1>10

\* The acceptance: it closes whatever is open between the two.
LEMMA AcceptInv ==
  ASSUME FriendsInv, NEW h \in Handlers, CommitAccept(h)
  PROVE  FriendsInv'
<1> USE DEF FriendsInv
<1> DEFINE id == handler[h].id
           pair == Between(id)
<1>1. /\ id \in RequestIds /\ At(h, "accept", "commit") /\ request[id].status \in Rows
      /\ FinishWriting(h, pair) /\ UNCHANGED <<settings, selectedFriends, exceptFriends>>
      /\ friendships' = friendships \cup {pair}
      /\ overlapped' = overlapped /\ lapsed' = lapsed
  BY DEF CommitAccept, createFriendship, Between, CallInv, At
<1>2. pair \in Pairs
  BY <1>1, PairsAreUnordered DEF Asked, Between, Rows
<1>3. /\ request' \in [RequestIds -> RequestRecords]
      /\ \A i \in RequestIds :
           /\ request'[i].sender = request[i].sender
           /\ request'[i].receiver = request[i].receiver
           /\ request'[i].status = "UNUSED" <=> request[i].status = "UNUSED"
           /\ request'[i].status = "PENDING" => request[i].status = "PENDING" /\ Between(i) # pair
           /\ i \in lapsed => request'[i].status = request[i].status
  <2>1. \A i \in PendingBetween(request[id].sender, request[id].receiver) :
          request[i].status = "PENDING"
    BY DEF PendingBetween
  <2>2. \A i \in RequestIds : request[i].status = "PENDING" /\ Between(i) = pair =>
          i \in PendingBetween(request[id].sender, request[id].receiver)
    BY DEF PendingBetween, RowsBetween, Rows, Between
  <2>3. id \notin lapsed /\ \A i \in lapsed : request[i].status # "PENDING"
    BY <1>1 DEF LapsedInv
  <2>4. ASSUME NEW i \in RequestIds
        PROVE  /\ request'[i] \in RequestRecords
               /\ request'[i].sender = request[i].sender
               /\ request'[i].receiver = request[i].receiver
               /\ request'[i].status =
                    IF i = id THEN "ACCEPTED"
                    ELSE IF i \in PendingBetween(request[id].sender, request[id].receiver)
                    THEN "REJECTED" ELSE request[i].status
    BY <1>1 DEF CommitAccept, FriendsTypeOK, RequestRecords, Rows
  <2>5. request' = [i \in RequestIds |-> request'[i]]
    BY DEF CommitAccept
  <2>6. request' \in [RequestIds -> RequestRecords]
    BY <2>4, <2>5
  <2>7. request[id].status # "UNUSED"
    BY <1>1 DEF Rows
  <2> QED BY <2>1, <2>2, <2>3, <2>4, <2>6, <2>7
<1>4. \A i \in RequestIds : Between(i)' = Between(i)
  BY <1>3 DEF Between
<1> HIDE DEF pair
<1>5. FriendsTypeOK'
  BY <1>1, <1>2, <1>3, WritingFinished DEF FriendsTypeOK, StoreTypeOK
<1>6. (\A i \in RequestIds : Asked(i))'
  BY <1>3 DEF Asked
<1>7. LapsedInv'
  BY <1>1, <1>3, WritingFinished DEF LapsedInv, At, IdleHandler, FriendsTypeOK
<1>8. AnomaliesNeedOverlap'
  BY <1>1, <1>3, <1>4 DEF AnomaliesNeedOverlap
<1>9. ASSUME NEW k \in Handlers
      PROVE  CallInv(k)' /\ CheckHolds(k)'
  <2>1. CASE k = h
    BY <1>1, <2>1, WritingFinished DEF CallInv, CheckHolds, At, IdleHandler
  <2>2. CASE k # h
    <3>1. CallInv(k)'
      BY <1>1, <1>3, <2>2, WritingFinished DEF CallInv, At
    <3>2. \A p : NoneOpen(p) => NoneOpen(p)'
      BY <1>3, <1>4 DEF NoneOpen
    <3>3. CheckHolds(k)'
      BY <1>1, <2>2, <3>2, WritingFinished DEF CheckHolds
    <3> QED BY <3>1, <3>3
  <2> QED BY <2>1, <2>2
<1> QED BY <1>5, <1>6, <1>7, <1>8, <1>9

\* The removal: fewer friends contradict no check, and what it calls lapsed is.
LEMMA RemoveInv ==
  ASSUME FriendsInv, NEW h \in Handlers, CommitRemove(h)
  PROVE  FriendsInv'
<1> USE DEF FriendsInv
<1>1. /\ UNCHANGED <<settings, selectedFriends, exceptFriends, request, overlapped>>
      /\ friendships' \subseteq friendships
      /\ handler' = [handler EXCEPT ![h] = IdleHandler]
      /\ lapsed' = lapsed \cup AnsweredBetween(handler[h].user, handler[h].peer)
  BY DEF CommitRemove, removeFriendship, Finish
<1>2. /\ handler' \in [Handlers -> HandlerRecords] /\ handler'[h] = IdleHandler
      /\ \A k \in Handlers \ {h} : handler'[k] = handler[k]
  BY <1>1, IdleIsHandler DEF FriendsTypeOK
<1>3. ASSUME NEW i \in AnsweredBetween(handler[h].user, handler[h].peer)
      PROVE  /\ i \in RequestIds /\ request[i].status \in {"ACCEPTED", "REJECTED"}
             /\ \A k \in Handlers : At(k, "accept", "commit") => handler[k].id # i
  BY DEF AnsweredBetween, RowsBetween, Rows
<1>4. FriendsTypeOK'
  BY <1>1, <1>2, <1>3 DEF FriendsTypeOK, StoreTypeOK
<1>5. (\A i \in RequestIds : Asked(i))' /\ AnomaliesNeedOverlap'
  BY <1>1 DEF Asked, AnomaliesNeedOverlap, Between
<1>6. LapsedInv'
  BY <1>1, <1>2, <1>3 DEF LapsedInv, At, IdleHandler
<1>7. ASSUME NEW k \in Handlers
      PROVE  CallInv(k)' /\ CheckHolds(k)'
  BY <1>1, <1>2 DEF CallInv, CheckHolds, NoneOpen, Between, At, IdleHandler
<1> QED BY <1>4, <1>5, <1>6, <1>7

LEMMA FriendsStepInv ==
  ASSUME FriendsInv, [FriendsNext]_friendsVars
  PROVE  FriendsInv'
<1>1. ASSUME NEW h \in Handlers, CreateDuplicate(h) \/ CommitNothing(h) \/ Fail(h)
      PROVE  FriendsInv'
  BY <1>1, IdleStep DEF CreateDuplicate, CommitNothing, Fail, Finish
<1>2. CASE UNCHANGED friendsVars
  BY <1>2
  DEF friendsVars, store, FriendsInv, FriendsTypeOK, StoreTypeOK, Asked, CallInv, At,
      LapsedInv, AnomaliesNeedOverlap, CheckHolds, NoneOpen, Between
<1> QED
  BY <1>1, <1>2, BeginInv, PassedCheckInv, DeleteInv, CreateInv, AcceptInv, RejectInv, RemoveInv
  DEF FriendsNext

LEMMA FriendsInvariant == FriendsSpec => []FriendsInv
BY FriendsInitInv, FriendsStepInv, PTL DEF FriendsSpec

-----------------------------------------------------------------------------
(* The results.                                                             *)

\* The tables, the rows of the requests and the calls keep their types.
THEOREM FriendsTypeCorrect == FriendsSpec => []FriendsTypeOK
<1>1. FriendsInv => FriendsTypeOK
  BY DEF FriendsInv
<1> QED BY <1>1, FriendsInvariant, PTL

\* Two open requests of a pair, or an open request between friends, need a call
\* that wrote for the pair between another one's checks and its row: one user at a
\* time never gets there, with any number of users, requests and calls.
THEOREM AnomaliesComeFromOverlap == FriendsSpec => []AnomaliesNeedOverlap
<1>1. FriendsInv => AnomaliesNeedOverlap
  BY DEF FriendsInv
<1> QED BY <1>1, FriendsInvariant, PTL

\* Only acceptFriendRequest's transaction adds a friendship.
LEMMA OnlyAcceptBefriends ==
  ASSUME FriendsInv, [FriendsNext]_friendsVars,
         ~ \E h \in Handlers : CommitAccept(h) \/ CommitRemove(h)
  PROVE  UNCHANGED store
BY DEF FriendsNext, friendsVars, sendFriendRequest, removeFriend, acceptFriendRequest,
       rejectFriendRequest, Answer, Begin, CheckNotFriends, Check,
       assertNoPendingRequestBetween, DeleteOldRequests, CreateRequest, CreateDuplicate,
       getPendingRequestForReceiver, CommitReject, CommitNothing, CheckFriends, Fail

\* A friendship needs the consent of both: one has asked, the other accepts; and a
\* request that a removal found answered does not bring the friendship back.
THEOREM FriendshipNeedsConsent == FriendsSpec => FriendshipsConsented
<1>1. ASSUME FriendsInv, [FriendsNext]_friendsVars
      PROVE  [FriendshipConsented]_friendsVars
  <2>1. ASSUME NEW h \in Handlers, CommitAccept(h)
        PROVE  FriendshipConsented
    <3>1. friendships' = friendships \cup {Between(handler[h].id)}
      BY <2>1 DEF CommitAccept, createFriendship, Between
    <3>2. /\ At(h, "accept", "commit") /\ handler[h].id \notin lapsed
          /\ handler[h].user = request[handler[h].id].receiver
      BY <1>1, <2>1 DEF CommitAccept, FriendsInv, CallInv, LapsedInv
    <3> QED BY <3>1, <3>2 DEF FriendshipConsented
  <2>2. ASSUME NEW h \in Handlers, CommitRemove(h)
        PROVE  FriendshipConsented
    BY <2>2 DEF CommitRemove, removeFriendship, FriendshipConsented
  <2>3. CASE UNCHANGED store
    BY <2>3 DEF store, FriendshipConsented
  <2> QED BY <1>1, <2>1, <2>2, <2>3, OnlyAcceptBefriends
<1>2. FriendsInv /\ [FriendsNext]_friendsVars => [FriendshipConsented]_friendsVars
  BY <1>1
<1> QED BY <1>2, FriendsInvariant, PTL DEF FriendsSpec, FriendshipsConsented

-----------------------------------------------------------------------------
(* The refinement.                                                          *)

LEMMA EnvironmentInit == FriendsInit => Environment!SharingInit
BY DEF FriendsInit, StoreInit, Environment!SharingInit, Environment!StoreInit, NoEdits,
       NoRow, Environment!NoRow

\* An acceptance is a Befriend, a removal that finds the row an Unfriend, and
\* everything else leaves the tables alone.
LEMMA EnvironmentStep ==
  ASSUME FriendsInv, [FriendsNext]_friendsVars
  PROVE  [Environment!SharingNext]_(Environment!sharingVars)
<1>1. Environment!ObserveFriends
  BY DEF Environment!ObserveFriends, NoEdits
<1>2. ASSUME NEW h \in Handlers, CommitAccept(h)
      PROVE  Environment!SharingNext
  <2> DEFINE id == handler[h].id
             a == request[id].sender
             b == request[id].receiver
  <2>1. id \in RequestIds /\ request[id].status # "UNUSED"
    BY <1>2 DEF CommitAccept, FriendsInv, CallInv, At
  <2>2. a \in Users /\ b \in Users /\ a # b
    BY <2>1 DEF FriendsInv, Asked
  <2>3. Environment!Befriend(a, b)
    BY <1>1, <1>2, <2>2
    DEF Environment!Befriend, Environment!createFriendship, CommitAccept, createFriendship,
        normalizeFriendPair, Environment!normalizeFriendPair
  <2> QED BY <2>2, <2>3 DEF Environment!SharingNext, Environment!StoreStep
<1>3. ASSUME NEW h \in Handlers, CommitRemove(h)
      PROVE  [Environment!SharingNext]_(Environment!sharingVars)
  <2> DEFINE a == handler[h].user
             b == handler[h].peer
  <2>1. a \in Users /\ b \in Users /\ a # b
    BY <1>3 DEF CommitRemove, FriendsInv, CallInv, At
  <2>2. CASE areFriends(a, b)
    <3>1. Environment!Unfriend(a, b)
      BY <1>1, <1>3, <2>1, <2>2
      DEF Environment!Unfriend, Environment!removeFriendship, CommitRemove, removeFriendship,
          normalizeFriendPair, Environment!normalizeFriendPair, areFriends,
          Environment!areFriends
    <3> QED BY <2>1, <3>1 DEF Environment!SharingNext, Environment!StoreStep
  <2>3. CASE ~areFriends(a, b)
    BY <1>3, <2>3
    DEF CommitRemove, removeFriendship, areFriends, Environment!sharingVars,
        Environment!store
  <2> QED BY <2>2, <2>3
<1>4. CASE UNCHANGED store
  BY <1>4 DEF store, Environment!sharingVars, Environment!store
<1> QED BY <1>2, <1>3, <1>4, OnlyAcceptBefriends

\* What the handlers of FriendsService do to the tables is what Sharing, and all that
\* stands on it, assumes of friendships: Friends implements Sharing without edits.
THEOREM FriendsAreAnEnvironment == FriendsSpec => FriendsImplementEnvironment
<1>1. FriendsInv /\ [FriendsNext]_friendsVars =>
        [Environment!SharingNext]_(Environment!sharingVars)
  BY EnvironmentStep
<1> QED
  BY <1>1, EnvironmentInit, FriendsInvariant, PTL
  DEF FriendsSpec, FriendsImplementEnvironment, Environment!SharingSpec
=============================================================================
