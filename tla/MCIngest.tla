------------------------------ MODULE MCIngest ------------------------------
(* Ingest on small instances: handlers are interchangeable.                  *)
EXTENDS Ingest, TLC

IngestSymmetry == Permutations(Handlers)
=============================================================================
