------------------------ MODULE MCSharingVisibility ------------------------
(* One call of canViewerSeeOwner against one owner's writes and friendships. *)
EXTENDS SharingVisibility, TLC

VisibilitySymmetry == Permutations(Users \ Owners) \cup Permutations(Edits)
=============================================================================
