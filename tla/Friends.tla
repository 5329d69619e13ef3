------------------------------- MODULE Friends -------------------------------
(***************************************************************************)
(* FriendsService: friend requests and what becomes of them.  Each handler  *)
(* checks first and writes later, in queries that are awaited one by one;   *)
(* only an acceptance writes in a transaction.  The schema holds one row    *)
(* per (sender, receiver), which says nothing of the opposite direction.    *)
(***************************************************************************)
EXTENDS PrivacyStore

CONSTANTS
  Handlers,                     \* slots for HTTP requests in flight
  RequestIds,                   \* bound: the ids that request rows can get
  NoRequest                     \* stands for "no request" in a slot

ASSUME NoRequestAssumption == NoRequest \notin RequestIds

VARIABLES
  request,                      \* [RequestIds -> a row of friend_requests]
  handler,                      \* [Handlers -> the local state of one call]
  overlapped,                   \* history: requests created by a call during
                                \* which another call wrote for the same pair
  lapsed                        \* history: requests that a removal of the
                                \* friendship found answered for good

friendsVars == <<store, request, handler, overlapped, lapsed>>

(* A deleted row's id is not used again.                                    *)
Rows == {"PENDING", "ACCEPTED", "REJECTED"}

RequestRecords == [sender : Users \cup {NoUser}, receiver : Users \cup {NoUser},
                   status : Rows \cup {"UNUSED", "DELETED"}]

UnusedRequest == [sender |-> NoUser, receiver |-> NoUser, status |-> "UNUSED"]

HandlerRecords == [kind : {"none", "send", "accept", "reject", "remove"},
                   pc : {"free", "friends", "pending", "delete", "create", "read",
                         "commit"},
                   user : Users \cup {NoUser}, peer : Users \cup {NoUser},
                   id : RequestIds \cup {NoRequest}, disturbed : BOOLEAN]

IdleHandler == [kind |-> "none", pc |-> "free", user |-> NoUser, peer |-> NoUser,
                id |-> NoRequest, disturbed |-> FALSE]

FriendsTypeOK ==
  /\ StoreTypeOK
  /\ request \in [RequestIds -> RequestRecords]
  /\ handler \in [Handlers -> HandlerRecords]
  /\ overlapped \subseteq RequestIds
  /\ lapsed \subseteq RequestIds

FriendsInit ==
  /\ StoreInit
  /\ request = [id \in RequestIds |-> UnusedRequest]
  /\ handler = [h \in Handlers |-> IdleHandler]
  /\ overlapped = {}
  /\ lapsed = {}

Between(id) == normalizeFriendPair(request[id].sender, request[id].receiver)
RowsBetween(a, b) ==
  {id \in RequestIds : /\ request[id].status \in Rows
                       /\ Between(id) = normalizeFriendPair(a, b)}
PendingBetween(a, b) ==
  {id \in RowsBetween(a, b) : request[id].status = "PENDING"}

-----------------------------------------------------------------------------
(* The life of a call.                                                      *)

Begin(h, local) ==
  /\ handler[h].pc = "free"
  /\ handler' = [handler EXCEPT ![h] = local]
  /\ UNCHANGED <<store, request, overlapped, lapsed>>

At(h, kind, pc) == handler[h].kind = kind /\ handler[h].pc = pc

\* A check that passes, and one that answers 404 or 409.
Check(h, passes, pc) ==
  /\ handler' = [handler EXCEPT ![h] =
                   IF passes THEN [@ EXCEPT !.pc = pc] ELSE IdleHandler]
  /\ UNCHANGED <<store, request, overlapped, lapsed>>

Finish(h) == handler' = [handler EXCEPT ![h] = IdleHandler]

\* The call ends with a write for a pair, which other senders of the pair meet.
FinishWriting(h, pair) ==
  handler' = [k \in Handlers |->
    IF k = h THEN IdleHandler
    ELSE [handler[k] EXCEPT !.disturbed =
            @ \/ /\ handler[k].kind = "send"
                 /\ normalizeFriendPair(handler[k].user, handler[k].peer) = pair]]

\* The database fails or the process dies between two queries.
Fail(h) ==
  /\ handler[h].pc # "free"
  /\ Finish(h)
  /\ UNCHANGED <<store, request, overlapped, lapsed>>

-----------------------------------------------------------------------------
(* sendFriendRequest.                                                       *)

\* Mutant: a request to oneself is let through.
sendToAnyone(h, u, v) ==
  Begin(h, [IdleHandler EXCEPT !.kind = "send", !.pc = "friends", !.user = u,
                               !.peer = v])

sendFriendRequest(h, u, v) ==
  /\ u # v
  /\ Begin(h, [IdleHandler EXCEPT !.kind = "send", !.pc = "friends", !.user = u,
                                  !.peer = v])

CheckNotFriends(h) ==
  /\ At(h, "send", "friends")
  /\ Check(h, ~areFriends(handler[h].user, handler[h].peer), "pending")

assertNoPendingRequestBetween(h) ==
  /\ At(h, "send", "pending")
  /\ Check(h, PendingBetween(handler[h].user, handler[h].peer) = {}, "delete")

\* Whatever the rows have become since the checks.
DeleteOldRequests(h) ==
  /\ At(h, "send", "delete")
  /\ request' = [id \in RequestIds |->
       IF id \in RowsBetween(handler[h].user, handler[h].peer)
       THEN [request[id] EXCEPT !.status = "DELETED"] ELSE request[id]]
  /\ handler' = [handler EXCEPT ![h].pc = "create"]
  /\ UNCHANGED <<store, overlapped, lapsed>>

CreateRequest(h, id) ==
  /\ At(h, "send", "create")
  /\ request[id].status = "UNUSED"
  /\ \A i \in RowsBetween(handler[h].user, handler[h].peer) :
       request[i].sender # handler[h].user
  /\ request' = [request EXCEPT ![id] =
       [sender |-> handler[h].user, receiver |-> handler[h].peer,
        status |-> "PENDING"]]
  /\ overlapped' = IF handler[h].disturbed THEN overlapped \cup {id} ELSE overlapped
  /\ FinishWriting(h, normalizeFriendPair(handler[h].user, handler[h].peer))
  /\ UNCHANGED <<store, lapsed>>

\* The unique index refuses a second row of the same sender and receiver.
CreateDuplicate(h) ==
  /\ At(h, "send", "create")
  /\ \E i \in RowsBetween(handler[h].user, handler[h].peer) :
       request[i].sender = handler[h].user
  /\ Finish(h)
  /\ UNCHANGED <<store, request, overlapped, lapsed>>

-----------------------------------------------------------------------------
(* acceptFriendRequest and rejectFriendRequest.                             *)

Answer(h, kind, u, id) ==
  /\ request[id].status # "UNUSED"
  /\ Begin(h, [IdleHandler EXCEPT !.kind = kind, !.pc = "read", !.user = u,
                                  !.id = id])

acceptFriendRequest(h, u, id) == Answer(h, "accept", u, id)
rejectFriendRequest(h, u, id) == Answer(h, "reject", u, id)

\* Mutant: the status of the row is not looked at.
AnyRequestForReceiver(h) ==
  /\ handler[h].pc = "read"
  /\ Check(h, /\ request[handler[h].id].status \in Rows
              /\ request[handler[h].id].receiver = handler[h].user, "commit")

getPendingRequestForReceiver(h) ==
  /\ handler[h].pc = "read"
  /\ Check(h, /\ request[handler[h].id].status = "PENDING"
              /\ request[handler[h].id].receiver = handler[h].user, "commit")

\* Mutant: the other pending request of the pair is left as it is.
AcceptLeavingPending(h) ==
  LET id == handler[h].id IN
  /\ At(h, "accept", "commit")
  /\ request[id].status \in Rows
  /\ request' = [request EXCEPT ![id].status = "ACCEPTED"]
  /\ createFriendship(request[id].sender, request[id].receiver)
  /\ FinishWriting(h, Between(id))
  /\ UNCHANGED <<overlapped, lapsed>>

\* The transaction of acceptFriendRequest.  It finds its row by id, in whatever
\* state; the pending request of the opposite direction is rejected.
CommitAccept(h) ==
  LET id == handler[h].id IN
  /\ At(h, "accept", "commit")
  /\ request[id].status \in Rows
  /\ request' = [i \in RequestIds |->
       IF i = id THEN [request[i] EXCEPT !.status = "ACCEPTED"]
       ELSE IF i \in PendingBetween(request[id].sender, request[id].receiver)
       THEN [request[i] EXCEPT !.status = "REJECTED"]
       ELSE request[i]]
  /\ createFriendship(request[id].sender, request[id].receiver)
  /\ FinishWriting(h, Between(id))
  /\ UNCHANGED <<overlapped, lapsed>>

CommitReject(h) ==
  /\ At(h, "reject", "commit")
  /\ request[handler[h].id].status \in Rows
  /\ request' = [request EXCEPT ![handler[h].id].status = "REJECTED"]
  /\ Finish(h)
  /\ UNCHANGED <<store, overlapped, lapsed>>

\* The row has been deleted in the meantime: the update throws.
CommitNothing(h) ==
  /\ handler[h].kind \in {"accept", "reject"} /\ handler[h].pc = "commit"
  /\ request[handler[h].id].status = "DELETED"
  /\ Finish(h)
  /\ UNCHANGED <<store, request, overlapped, lapsed>>

-----------------------------------------------------------------------------
(* removeFriend.                                                            *)

removeFriend(h, u, v) ==
  /\ u # v
  /\ Begin(h, [IdleHandler EXCEPT !.kind = "remove", !.pc = "friends", !.user = u,
                                  !.peer = v])

CheckFriends(h) ==
  /\ At(h, "remove", "friends")
  /\ Check(h, areFriends(handler[h].user, handler[h].peer), "commit")

\* Requests of the pair that no call can turn into a friendship any more, as
\* far as the checks of the calls in flight go.
AnsweredBetween(a, b) ==
  {id \in RowsBetween(a, b) :
     /\ request[id].status # "PENDING"
     /\ \A h \in Handlers : At(h, "accept", "commit") => handler[h].id # id}

\* The rows of the pair's requests and of its sharing lists stay.
CommitRemove(h) ==
  /\ At(h, "remove", "commit")
  /\ removeFriendship(handler[h].user, handler[h].peer)
  /\ Finish(h)
  /\ lapsed' = lapsed \cup AnsweredBetween(handler[h].user, handler[h].peer)
  /\ UNCHANGED <<request, overlapped>>

-----------------------------------------------------------------------------

FriendsNext ==
  \E h \in Handlers :
    \/ \E u, v \in Users : sendFriendRequest(h, u, v) \/ removeFriend(h, u, v)
    \/ \E u \in Users, id \in RequestIds :
         acceptFriendRequest(h, u, id) \/ rejectFriendRequest(h, u, id)
    \/ CheckNotFriends(h) \/ assertNoPendingRequestBetween(h)
    \/ DeleteOldRequests(h)
    \/ \E id \in RequestIds : CreateRequest(h, id)
    \/ CreateDuplicate(h)
    \/ getPendingRequestForReceiver(h)
    \/ CommitAccept(h) \/ CommitReject(h) \/ CommitNothing(h)
    \/ CheckFriends(h) \/ CommitRemove(h)
    \/ Fail(h)

FriendsSpec == FriendsInit /\ [][FriendsNext]_friendsVars

-----------------------------------------------------------------------------
(* Properties.                                                              *)

\* A friendship only comes about by the receiver accepting what the other side
\* has asked for; and after a removal the same request does not bring it back,
\* however often it is answered again, unless it was still open or its
\* acceptance already on its way.
FriendshipConsented ==
  \A pair \in friendships' \ friendships :
    \E h \in Handlers :
      /\ At(h, "accept", "commit")
      /\ Between(handler[h].id) = pair
      /\ handler[h].user = request[handler[h].id].receiver
      /\ handler[h].id \notin lapsed

FriendshipsConsented == [][FriendshipConsented]_friendsVars

\* Two open requests between two users, and an open request between friends,
\* only come from calls that overlapped: users who wait for each other's
\* requests never get there, whatever they send, answer and remove.
AnomaliesNeedOverlap ==
  \A id \in RequestIds :
    request[id].status = "PENDING" /\ id \notin overlapped =>
      /\ Between(id) \notin friendships
      /\ \A other \in RequestIds :
           /\ request[other].status = "PENDING"
           /\ Between(other) = Between(id)
           /\ other # id
           => other \in overlapped

\* The other services know of this one only that friendships between two
\* different users come and go, one row at a time: that is what Sharing and
\* everything on top of it assume.
NoEdits == [e \in {} |-> NoUser]
Environment == INSTANCE Sharing
  WITH Owners <- {}, Edits <- {}, edit <- NoEdits, friendsSince <- NoEdits

FriendsImplementEnvironment == Environment!SharingSpec
=============================================================================
