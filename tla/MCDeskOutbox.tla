---------------------------- MODULE MCDeskOutbox ----------------------------
(* Instances of DeskOutbox for TLC. *)
EXTENDS DeskOutbox, TLC

CONSTANTS worker, h1, h2, f1, f2

(* For safety only: HTTP threads and invoices are alike. *)
Alike == Permutations({h1, h2}) \cup Permutations({f1, f2})
=============================================================================
