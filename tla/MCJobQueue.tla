----------------------------- MODULE MCJobQueue -----------------------------
(* Instances of JobQueue for TLC. *)
EXTENDS JobQueue, TLC

ProcSymmetry == Permutations(Procs)
=============================================================================
