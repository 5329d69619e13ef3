----------------------------- MODULE Visibility -----------------------------
(***************************************************************************)
(* LocationVisibilityService.canViewerSeeOwner, the one authority on who    *)
(* sees whom.  A call is two or three queries, each awaited, so other       *)
(* handlers may write the tables between them: one action per query.  The   *)
(* modules that extend this one supply the writers.                         *)
(***************************************************************************)
EXTENDS PrivacyStore

CONSTANT Calls                  \* slots for calls in flight

VARIABLE check                  \* [Calls -> the local state of one call]

Steps == {"idle", "friendship", "mode", "list", "done"}

CheckRecords == [pc : Steps, viewer : Users \cup {NoUser},
                 owner : Users \cup {NoUser}, mode : Modes, result : BOOLEAN]

IdleCheck == [pc |-> "idle", viewer |-> NoUser, owner |-> NoUser,
              mode |-> "GHOST", result |-> FALSE]

CheckTypeOK == check \in [Calls -> CheckRecords]

CheckInit == check = [c \in Calls |-> IdleCheck]

\* The call has started and has not yet returned; it has returned.
Running(c) == check[c].pc \in {"friendship", "mode", "list"}
Done(c) == check[c].pc = "done"

Return(c, verdict) ==
  check' = [check EXCEPT ![c].pc = "done", ![c].result = verdict]

\* A user never sees itself through this path: no query is made.
AskSelf(c, u) ==
  /\ ~Running(c)
  /\ check' = [check EXCEPT ![c] = [pc |-> "done", viewer |-> u, owner |-> u,
                                    mode |-> "GHOST", result |-> FALSE]]
  /\ UNCHANGED store

Ask(c, v, o) ==
  /\ ~Running(c)
  /\ v # o
  /\ check' = [check EXCEPT ![c] = [pc |-> "friendship", viewer |-> v, owner |-> o,
                                    mode |-> "GHOST", result |-> FALSE]]
  /\ UNCHANGED store

ReadFriendship(c) ==
  /\ check[c].pc = "friendship"
  /\ IF areFriends(check[c].viewer, check[c].owner)
     THEN check' = [check EXCEPT ![c].pc = "mode"]
     ELSE Return(c, FALSE)
  /\ UNCHANGED store

\* GHOST and EVERYONE decide at once, the other modes need their list's row.
ReadMode(c) ==
  LET mode == getModeForUser(check[c].owner) IN
  /\ check[c].pc = "mode"
  /\ IF mode \in ListModes
     THEN check' = [check EXCEPT ![c].pc = "list", ![c].mode = mode]
     ELSE Return(c, mode = "EVERYONE")
  /\ UNCHANGED store

\* Mutant: isViewerAllowedInExceptMode forgets to negate the row it finds.
ReadListUnnegated(c) ==
  /\ check[c].pc = "list"
  /\ Return(c, IF check[c].mode = "SELECTED"
               THEN isSelectedFriend(check[c].owner, check[c].viewer)
               ELSE isExceptFriend(check[c].owner, check[c].viewer))
  /\ UNCHANGED store

\* The row is looked up in the list of the mode that was read before.
ReadList(c) ==
  /\ check[c].pc = "list"
  /\ Return(c, ModeAllows(check[c].mode, check[c].owner, check[c].viewer))
  /\ UNCHANGED store
=============================================================================
