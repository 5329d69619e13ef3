---------------------------- MODULE MCAdmission ----------------------------
(* Admission on a small instance: a limit of two POSTs in three units.       *)
EXTENDS Admission
=============================================================================
