---------------------------- MODULE MCEngineRuns ----------------------------
(* Instances of EngineRuns for TLC. *)
EXTENDS EngineRuns, TLC

CONSTANTS c1, c2, k1, k2

OneAndTwo == k1 :> {1, 2} @@ k2 :> {1}

(* For safety only: callers are alike. *)
Alike == Permutations(Callers)
=============================================================================
