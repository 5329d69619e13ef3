--------------------------- MODULE MCConnections ---------------------------
(* Connections on small instances: tabs, and pods, are interchangeable.      *)
EXTENDS Connections, TLC

ConnSymmetry == Permutations(Sockets) \cup Permutations(Pods)
=============================================================================
