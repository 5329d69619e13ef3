------------------------------ MODULE MCFriends ------------------------------
(* Friends with two users: requests, calls and users are interchangeable.    *)
EXTENDS Friends, TLC

FriendsSymmetry ==
  Permutations(Users) \cup Permutations(Handlers) \cup Permutations(RequestIds)
=============================================================================
