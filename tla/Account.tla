------------------------------ MODULE Account ------------------------------
(***************************************************************************)
(* One user's rows in PostgreSQL as the pages of the web client see them,   *)
(* through GET /friends and GET /sharing-settings, and what the other users *)
(* do to them.  A handler's work is one step here: its awaits are the       *)
(* subject of Friends and Sharing.  The sharing lists keep the rows of      *)
(* former friends.                                                          *)
(***************************************************************************)
EXTENDS Naturals, FiniteSets

CONSTANTS
  Others,                       \* the other users
  FirstModes,                   \* bound: the sharing modes to begin with
  MaxEvents                     \* bound: what the other users do

Modes == {"GHOST", "EVERYONE", "SELECTED", "EXCEPT_SELECTED"}

ASSUME AccountAssumption == FirstModes \subseteq Modes /\ MaxEvents \in Nat

VARIABLES
  friends, incoming, outgoing,  \* friends; senders, receivers of open requests
  asked,                        \* users that have sent a request: none sends two,
                                \* so that a request is known by its sender
  serverMode, selected, except, \* the sharing settings and the two lists
  former,                       \* history: users that were friends once, or whose
                                \* rows were left in a sharing list
  events                        \* counter for the bound

listVars == <<friends, incoming, outgoing>>
sharingVars == <<serverMode, selected, except>>
accountVars == <<listVars, asked, sharingVars, former, events>>

Known == friends \cup incoming \cup outgoing

\* A user is in one of the three lists at most.
AccountTypeOK ==
  /\ friends \subseteq Others /\ incoming \subseteq Others /\ outgoing \subseteq Others
  /\ friends \cap incoming = {} /\ (friends \cup incoming) \cap outgoing = {}
  /\ asked \subseteq Others
  /\ serverMode \in Modes /\ selected \subseteq Others /\ except \subseteq Others
  /\ former \subseteq Others
  /\ events \in 0..MaxEvents

\* Every user is a friend, has asked, has been asked or is a stranger.
AccountInit ==
  /\ \E status \in [Others -> {"friend", "incoming", "outgoing", "stranger"}] :
       /\ friends = {u \in Others : status[u] = "friend"}
       /\ incoming = {u \in Others : status[u] = "incoming"}
       /\ outgoing = {u \in Others : status[u] = "outgoing"}
  /\ asked = incoming
  /\ serverMode \in FirstModes
  /\ selected \in SUBSET Others /\ except \in SUBSET Others
  /\ former = (selected \cup except) \ friends
  /\ events = 0

-----------------------------------------------------------------------------
(* What the requests do.  Each says in ok whether it is answered with       *)
(* success; otherwise it changes nothing.                                   *)

sendFriendRequest(u, ok) ==
  /\ ok = (u \in Others \ Known)
  /\ outgoing' = IF ok THEN outgoing \cup {u} ELSE outgoing
  /\ UNCHANGED <<friends, incoming, former>>

acceptFriendRequest(u, ok) ==
  /\ ok = (u \in incoming)
  /\ friends' = IF ok THEN friends \cup {u} ELSE friends
  /\ incoming' = incoming \ {u}
  /\ UNCHANGED <<outgoing, former>>

rejectFriendRequest(u, ok) ==
  /\ ok = (u \in incoming)
  /\ incoming' = incoming \ {u}
  /\ UNCHANGED <<friends, outgoing, former>>

removeFriend(u, ok) ==
  /\ ok = (u \in friends)
  /\ friends' = friends \ {u}
  /\ former' = IF ok THEN former \cup {u} ELSE former
  /\ UNCHANGED <<incoming, outgoing>>

updateSharingMode(m) == serverMode' = m /\ UNCHANGED <<selected, except>>

\* assertConfirmedFriends refuses the list that names a user who is no friend.
setFriends(m, ids, ok) ==
  /\ ok = (ids \subseteq friends)
  /\ IF ok
     THEN /\ serverMode' = m
          /\ selected' = IF m = "SELECTED" THEN ids ELSE selected
          /\ except' = IF m = "EXCEPT_SELECTED" THEN ids ELSE except
     ELSE UNCHANGED sharingVars

-----------------------------------------------------------------------------
(* What the other users do, through the same handlers.                      *)

OtherSends(u) ==
  /\ u \notin Known \cup asked
  /\ incoming' = incoming \cup {u} /\ asked' = asked \cup {u}
  /\ UNCHANGED <<friends, outgoing, former>>

OtherAnswers(u) ==
  /\ u \in outgoing
  /\ outgoing' = outgoing \ {u}
  /\ friends' \in {friends, friends \cup {u}}
  /\ UNCHANGED <<incoming, asked, former>>

OtherRemoves(u) == \E ok \in {TRUE} : removeFriend(u, ok) /\ UNCHANGED asked

OtherActs ==
  /\ events < MaxEvents /\ events' = events + 1
  /\ \E u \in Others : OtherSends(u) \/ OtherAnswers(u) \/ OtherRemoves(u)
  /\ UNCHANGED sharingVars
=============================================================================
