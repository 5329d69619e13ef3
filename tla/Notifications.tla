---------------------------- MODULE Notifications --------------------------
(***************************************************************************)
(* The notifications of the web client: the store, its polling of the open  *)
(* friend requests and its listeners on the socket.  The items outlive a    *)
(* logout; they end with the page.                                          *)
(***************************************************************************)
EXTENDS Naturals, SequencesExt

CONSTANTS
  Users,
  Ids,                          \* friend requests
  Addressee,                    \* [Ids -> Users]
  Cap                           \* the store keeps 50 items

ASSUME NotificationsAssumption ==
  Addressee \in [Ids -> Users] /\ IsFiniteSet(Ids) /\ Cap \in Nat \ {0}

VARIABLES
  open, seen,                   \* the server's open requests; those ever made
  items,                        \* the store's items, the newest first
  prevRequestIds,
  polling, listening,           \* the timer runs; the listeners are registered
  polled,                       \* history: announced by a poll since the polls began
  twice                         \* history: a poll announced one of these again

requestVars == <<open, seen>>
pollVars == <<prevRequestIds, polling, polled, twice>>
notificationVars == <<requestVars, items, listening, pollVars>>

Notice == "notice"              \* an item that is about no open request
Items == [id : Ids \cup {Notice}, read : BOOLEAN]

NotificationsTypeOK ==
  /\ open \subseteq seen /\ seen \subseteq Ids
  /\ items \in Seq(Items) /\ Len(items) <= Cap
  /\ prevRequestIds \subseteq seen /\ polled \subseteq seen
  /\ polling \in BOOLEAN /\ listening \in BOOLEAN /\ twice \in BOOLEAN

NotificationsInit ==
  /\ open \in SUBSET Ids /\ seen = open
  /\ items = <<>> /\ prevRequestIds = {} /\ polled = {} /\ twice = FALSE
  /\ polling = FALSE /\ listening = FALSE

unreadCount == Len(SelectSeq(items, LAMBDA n : ~n.read))
\* What GET /friends lists for u.
incomingRequests(u) == {id \in open : Addressee[id] = u}

\* Each is put in front; the items beyond the cap are dropped.
addNotification(ids) ==
  LET all == [i \in 1..Len(ids) |-> [id |-> ids[i], read |-> FALSE]] \o items
  IN  SubSeq(all, 1, IF Len(all) > Cap THEN Cap ELSE Len(all))

markAllRead == items' = [i \in DOMAIN items |-> [items[i] EXCEPT !.read = TRUE]]
markRead(i) == items' = [items EXCEPT ![i].read = TRUE]
clearAll == items' = <<>>

startSocketListeners == listening' = TRUE
\* Also what socketService.disconnect does to them.
stopSocketListeners == listening' = FALSE

\* Mutant: the answer is not kept for the next one.
pollForgetting(ids) ==
  LET new == ids \ prevRequestIds
  IN  /\ items' = addNotification(SetToSeq(new))
      /\ polled' = polled \cup new
      /\ twice' = (twice \/ new \cap polled # {})
      /\ UNCHANGED <<polling, prevRequestIds>>

\* The answer to a poll, whenever it comes: those not in the answer applied
\* before are announced.
pollFriendRequests(ids) ==
  LET new == ids \ prevRequestIds
  IN  /\ items' = addNotification(SetToSeq(new))
      /\ prevRequestIds' = ids
      /\ polled' = polled \cup new
      /\ twice' = (twice \/ new \cap polled # {})
      /\ UNCHANGED polling

startPolling == polling' = TRUE /\ prevRequestIds' = {} /\ polled' = {} /\ twice' = FALSE
stopPolling == polling' = FALSE /\ prevRequestIds' = {} /\ polled' = {} /\ twice' = FALSE

\* A request is made; its event finds the user's socket connected, or not.
friendRequest(id, connected) ==
  /\ id \notin seen
  /\ seen' = seen \cup {id} /\ open' = open \cup {id}
  /\ items' = IF connected /\ listening THEN addNotification(<<id>>) ELSE items
  /\ UNCHANGED <<listening, pollVars>>

\* friend:accepted or friend:removed reaches the socket.
notice(connected) ==
  /\ connected /\ listening
  /\ items' = addNotification(<<Notice>>)
  /\ UNCHANGED <<requestVars, listening, pollVars>>

\* It is answered, in another window perhaps.
requestEnds(id) ==
  /\ open' = open \ {id} /\ open' # open
  /\ UNCHANGED <<seen, items, listening, pollVars>>
=============================================================================
