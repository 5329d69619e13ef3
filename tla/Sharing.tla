------------------------------- MODULE Sharing -------------------------------
(***************************************************************************)
(* SharingService: the owner's privacy mode and the two friend lists, as    *)
(* its HTTP handlers write them while friendships come and go.  Replacing a *)
(* list is not one step: assertConfirmedFriends reads friendships one id at *)
(* a time, awaiting each read, and only then does the transaction commit.   *)
(***************************************************************************)
EXTENDS PrivacyStore

CONSTANTS
  Owners,                       \* the users who change their own sharing
  Edits                         \* slots for list updates in flight

ASSUME OwnersAssumption == Owners \subseteq Users

VARIABLES
  edit,                         \* [Edits -> the local state of one request]
  friendsSince                  \* history: who was the owner's friend at some
                                \* instant since the request began

sharingVars == <<store, edit, friendsSince>>

IdleEdit == [owner |-> NoUser, mode |-> "SELECTED", ids |-> {}, todo |-> {}]

EditRecords == [owner : Users \cup {NoUser}, mode : ListModes,
                ids : SUBSET Users, todo : SUBSET Users]

Editing(e) == edit[e].owner # NoUser

SharingTypeOK ==
  /\ StoreTypeOK
  /\ edit \in [Edits -> EditRecords]
  /\ friendsSince \in [Edits -> SUBSET Users]

SharingInit ==
  /\ StoreInit
  /\ edit = [e \in Edits |-> IdleEdit]
  /\ friendsSince = [e \in Edits |-> {}]

-----------------------------------------------------------------------------
(* Every step of the store extends the history of the requests in flight.   *)

ObserveFriends ==
  friendsSince' = [e \in Edits |->
    IF Editing(e) THEN friendsSince[e] \cup getFriendIds(edit[e].owner)'
                  ELSE friendsSince[e]]

\* GET /sharing-settings: inserts the GHOST row on the first call.
getSettings(u) ==
  /\ getOrCreateSettings(u)
  /\ UNCHANGED <<edit, friendsSince>>

\* PUT /sharing-settings: its read of the old mode decides nothing.
updateMode(u, mode) ==
  /\ UpsertMode(u, mode)
  /\ UNCHANGED <<edit, friendsSince>>

\* PUT /sharing-settings/selected and /except up to the first await: an owner
\* that lists itself is refused at once.
BeginListUpdate(e, u, mode, ids) ==
  /\ ~Editing(e)
  /\ u \notin ids
  /\ edit' = [edit EXCEPT ![e] =
                [owner |-> u, mode |-> mode, ids |-> ids, todo |-> ids]]
  /\ friendsSince' = [friendsSince EXCEPT ![e] = getFriendIds(u)]
  /\ UNCHANGED store

EndRequest(e) ==
  /\ edit' = [edit EXCEPT ![e] = IdleEdit]
  /\ friendsSince' = [friendsSince EXCEPT ![e] = {}]

\* Mutant: the answer of areFriends is not looked at.
ConfirmAnyone(e, f) ==
  /\ f \in edit[e].todo
  /\ edit' = [edit EXCEPT ![e].todo = @ \ {f}]
  /\ UNCHANGED <<store, friendsSince>>

\* One turn of the loop of assertConfirmedFriends: a friend passes.
ConfirmFriend(e, f) ==
  /\ f \in edit[e].todo
  /\ areFriends(edit[e].owner, f)
  /\ edit' = [edit EXCEPT ![e].todo = @ \ {f}]
  /\ UNCHANGED <<store, friendsSince>>

\* The other turn of the loop: the exception ends the request.
RejectFriend(e, f) ==
  /\ f \in edit[e].todo
  /\ ~areFriends(edit[e].owner, f)
  /\ EndRequest(e)
  /\ UNCHANGED store

\* The database fails or the process dies before the commit.
AbortListUpdate(e) ==
  /\ Editing(e)
  /\ EndRequest(e)
  /\ UNCHANGED store

CommitListUpdate(e) ==
  /\ Editing(e)
  /\ edit[e].todo = {}
  /\ ReplaceList(edit[e].owner, edit[e].mode, edit[e].ids)
  /\ EndRequest(e)

\* Mutant: normalizeFriendPair no longer throws on identical ids.
BefriendAnyPair(a, b) ==
  /\ createFriendship(a, b)
  /\ UNCHANGED edit
  /\ ObserveFriends

\* acceptFriendRequest and removeFriend, as far as these tables are concerned.
Befriend(a, b) ==
  /\ a # b
  /\ createFriendship(a, b)
  /\ UNCHANGED edit
  /\ ObserveFriends

Unfriend(a, b) ==
  /\ areFriends(a, b)
  /\ a # b
  /\ removeFriendship(a, b)
  /\ UNCHANGED edit
  /\ ObserveFriends

\* The steps that may change the store, and the ones that only move a request.
StoreStep ==
  \/ \E u \in Owners : getSettings(u)
  \/ \E u \in Owners, mode \in Modes : updateMode(u, mode)
  \/ \E e \in Edits : CommitListUpdate(e)
  \/ \E a, b \in Users : Befriend(a, b) \/ Unfriend(a, b)

RequestStep ==
  \E e \in Edits :
    \/ \E u \in Owners, mode \in ListModes, ids \in SUBSET Users :
         BeginListUpdate(e, u, mode, ids)
    \/ \E f \in Users : ConfirmFriend(e, f) \/ RejectFriend(e, f)
    \/ AbortListUpdate(e)

SharingNext == StoreStep \/ RequestStep

SharingSpec == SharingInit /\ [][SharingNext]_sharingVars

-----------------------------------------------------------------------------
(* Properties.                                                              *)

\* A list row is only written for a user who was the owner's confirmed friend
\* at some instant of the request that writes it, however the friendships
\* change between the reads of assertConfirmedFriends and the commit.
ListWriteVetted ==
  \A o \in Users :
    \A f \in (selectedFriends'[o] \ selectedFriends[o])
               \cup (exceptFriends'[o] \ exceptFriends[o]) :
      \E e \in Edits : edit[e].owner = o /\ f # o /\ f \in friendsSince[e]

ListWritesVetted == [][ListWriteVetted]_sharingVars
=============================================================================
