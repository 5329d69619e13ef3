----------------------------- MODULE MCRealtime -----------------------------
(* Realtime on small instances: handlers, and viewers, are interchangeable.  *)
EXTENDS Realtime, TLC

RealtimeSymmetry == Permutations(Calls) \cup Permutations(Viewers)
=============================================================================
