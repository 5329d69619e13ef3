---------------------------- MODULE PrivacyStore ----------------------------
(***************************************************************************)
(* The four PostgreSQL tables that decide who may see whom (friendships,    *)
(* sharing_settings, sharing_selected_friends, sharing_except_friends), the *)
(* queries the services run against them and the statements and             *)
(* transactions that write them.  Each operator is ONE query or ONE commit; *)
(* the modules that extend this one decide how the handlers interleave them.*)
(***************************************************************************)
CONSTANTS
  Users,                        \* ids of the registered accounts
  NoUser                        \* stands for "nobody" in an idle slot

ASSUME NoUserAssumption == NoUser \notin Users

VARIABLES
  friendships,                  \* set of unordered pairs: one row per pair
  settings,                     \* [Users -> Modes or NoRow]: mode column
  selectedFriends,              \* [Users -> SUBSET Users]: rows by owner
  exceptFriends                 \* [Users -> SUBSET Users]: rows by owner

store == <<friendships, settings, selectedFriends, exceptFriends>>

Modes == {"EVERYONE", "SELECTED", "EXCEPT_SELECTED", "GHOST"}
NoRow == "NO_ROW"               \* the user has no sharing_settings row yet
ListModes == {"SELECTED", "EXCEPT_SELECTED"}

\* userAId < userBId is a canonical name of the unordered pair; equal ids throw.
normalizeFriendPair(a, b) == {a, b}
Pairs == {normalizeFriendPair(q[1], q[2]) :
            q \in {r \in Users \X Users : r[1] # r[2]}}

StoreTypeOK ==
  /\ friendships \subseteq Pairs
  /\ settings \in [Users -> Modes \cup {NoRow}]
  /\ selectedFriends \in [Users -> SUBSET Users]
  /\ exceptFriends \in [Users -> SUBSET Users]

StoreInit ==
  /\ friendships = {}
  /\ settings = [u \in Users |-> NoRow]
  /\ selectedFriends = [u \in Users |-> {}]
  /\ exceptFriends = [u \in Users |-> {}]

-----------------------------------------------------------------------------
(* Queries.                                                                 *)

areFriends(a, b) == normalizeFriendPair(a, b) \in friendships

\* Mutant: the conditional picks the user's own side of each row.
getFriendIdsSwapped(u) == {f \in {u} : \E g \in Users \ {u} : areFriends(u, g)}

getFriendIds(u) == {f \in Users \ {u} : areFriends(u, f)}

getModeForUser(u) == IF settings[u] = NoRow THEN "GHOST" ELSE settings[u]

isSelectedFriend(owner, viewer) == viewer \in selectedFriends[owner]

isExceptFriend(owner, viewer) == viewer \in exceptFriends[owner]

\* The last of the three questions of canViewerSeeOwner: what a given mode
\* says of a viewer, with the row of the one list that the mode consults.
ModeAllows(mode, owner, viewer) ==
  \/ mode = "EVERYONE"
  \/ mode = "SELECTED" /\ isSelectedFriend(owner, viewer)
  \/ mode = "EXCEPT_SELECTED" /\ ~isExceptFriend(owner, viewer)

\* The verdict that canViewerSeeOwner would give if its reads were one query.
CanSee(viewer, owner) ==
  /\ viewer # owner
  /\ areFriends(viewer, owner)
  /\ ModeAllows(getModeForUser(owner), owner, viewer)

-----------------------------------------------------------------------------
(* Writes.                                                                  *)

\* sharingSettings.upsert with an empty update: only inserts the default row.
getOrCreateSettings(u) ==
  /\ settings' = [settings EXCEPT ![u] = IF @ = NoRow THEN "GHOST" ELSE @]
  /\ UNCHANGED <<friendships, selectedFriends, exceptFriends>>

UpsertMode(u, mode) ==
  /\ settings' = [settings EXCEPT ![u] = mode]
  /\ UNCHANGED <<friendships, selectedFriends, exceptFriends>>

\* Mutant: the mode is not part of the transaction that writes its list.
ReplaceListOutsideMode(u, mode, ids) ==
  /\ selectedFriends' = [selectedFriends EXCEPT ![u] =
                           IF mode = "SELECTED" THEN ids ELSE @]
  /\ exceptFriends' = [exceptFriends EXCEPT ![u] =
                         IF mode = "EXCEPT_SELECTED" THEN ids ELSE @]
  /\ UNCHANGED <<friendships, settings>>

\* The transaction of updateSelectedFriends / updateExceptFriends: the mode and
\* the rows of its list are replaced in one commit.  The upsert of the settings
\* row is its first statement, so two transactions of one owner are serial.
ReplaceList(u, mode, ids) ==
  /\ settings' = [settings EXCEPT ![u] = mode]
  /\ selectedFriends' = [selectedFriends EXCEPT ![u] =
                           IF mode = "SELECTED" THEN ids ELSE @]
  /\ exceptFriends' = [exceptFriends EXCEPT ![u] =
                         IF mode = "EXCEPT_SELECTED" THEN ids ELSE @]
  /\ UNCHANGED friendships

\* friendship.upsert of acceptFriendRequest's transaction.
createFriendship(a, b) ==
  /\ friendships' = friendships \cup {normalizeFriendPair(a, b)}
  /\ UNCHANGED <<settings, selectedFriends, exceptFriends>>

\* friendship.deleteMany of removeFriend: the sharing lists keep their rows.
removeFriendship(a, b) ==
  /\ friendships' = friendships \ {normalizeFriendPair(a, b)}
  /\ UNCHANGED <<settings, selectedFriends, exceptFriends>>
=============================================================================
