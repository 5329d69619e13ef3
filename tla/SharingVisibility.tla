-------------------------- MODULE SharingVisibility --------------------------
(***************************************************************************)
(* canViewerSeeOwner running against the handlers of Sharing.  The verdict  *)
(* of a call is put together from different instants of the store; this     *)
(* module says how far it can be trusted.                                   *)
(***************************************************************************)
EXTENDS Sharing, Visibility

VARIABLES
  seen,                         \* history: the values that CanSee has had at
                                \* the instants of the call so far
  unfriended                    \* history: the pair lost its friendship row
                                \* during the call

visibilityVars == <<sharingVars, check, seen, unfriended>>

VisibilityTypeOK ==
  /\ SharingTypeOK
  /\ CheckTypeOK
  /\ seen \in [Calls -> SUBSET BOOLEAN]
  /\ unfriended \in [Calls -> BOOLEAN]

VisibilityInit ==
  /\ SharingInit
  /\ CheckInit
  /\ seen = [c \in Calls |-> {}]
  /\ unfriended = [c \in Calls |-> FALSE]

-----------------------------------------------------------------------------

\* A call starts its own history.
Start(c, v, o) ==
  /\ IF v = o THEN AskSelf(c, v) ELSE Ask(c, v, o)
  /\ seen' = [seen EXCEPT ![c] = {CanSee(v, o)}]
  /\ unfriended' = [unfriended EXCEPT ![c] = FALSE]
  /\ UNCHANGED <<edit, friendsSince>>

ReadStep(c) ==
  /\ ReadFriendship(c) \/ ReadMode(c) \/ ReadList(c)
  /\ UNCHANGED <<edit, friendsSince, seen, unfriended>>

\* A commit is observed by every call in flight.
WriteStep ==
  /\ StoreStep
  /\ UNCHANGED check
  /\ seen' = [c \in Calls |->
       IF Running(c)
       THEN seen[c] \cup {CanSee(check[c].viewer, check[c].owner)'}
       ELSE seen[c]]
  /\ unfriended' = [c \in Calls |->
       \/ unfriended[c]
       \/ /\ Running(c)
          /\ areFriends(check[c].viewer, check[c].owner)
          /\ ~areFriends(check[c].viewer, check[c].owner)']

VisibilityNext ==
  \/ \E c \in Calls : ReadStep(c) \/ \E v, o \in Users : Start(c, v, o)
  \/ WriteStep
  \/ RequestStep /\ UNCHANGED <<check, seen, unfriended>>

VisibilitySpec == VisibilityInit /\ [][VisibilityNext]_visibilityVars

-----------------------------------------------------------------------------
(* Properties.                                                              *)

\* A refusal is never an artefact of the reads being spread in time: whenever
\* canViewerSeeOwner answers false, the viewer really was not allowed at some
\* instant of the call, whatever the owner wrote between its queries.
DenialJustified ==
  \A c \in Calls : Done(c) /\ ~check[c].result => FALSE \in seen[c]

\* A grant is as good as a single query's, unless the pair stopped being
\* friends during the call: the mode and the list row, read at two instants,
\* never combine into a permission that the owner had not given.  Without the
\* exception it does not hold: read the row, remove the friendship, change GHOST
\* to EVERYONE, read the mode.
GrantJustified ==
  \A c \in Calls :
    Done(c) /\ check[c].result => TRUE \in seen[c] \/ unfriended[c]
=============================================================================
