------------------------------ MODULE PaidWork ------------------------------
(***************************************************************************)
(* What the job queue promises about external, billable work, whatever the *)
(* processes, leases and attempts behind it: a unit of work is called only *)
(* while nothing it already paid for is outstanding, an outcome nobody     *)
(* knows is never decided by guessing, an accepted result is final, and    *)
(* work is done again only after a verdict or with the operator's consent. *)
(***************************************************************************)
CONSTANTS Work, None

VARIABLES verdict,  \* "none", "open", "accepted", "refused" or "unresolved"
          debt,     \* a call was made and its outcome was never settled
          origin,   \* the unit this one repeats
          consent   \* the operator accepted that it may be billed twice

vars == <<verdict, debt, origin, consent>>

Init ==
    /\ verdict = [w \in Work |-> "none"]
    /\ debt = [w \in Work |-> FALSE]
    /\ origin = [w \in Work |-> None]
    /\ consent = [w \in Work |-> FALSE]

Kept(w) == origin'[w] = origin[w] /\ consent'[w] = consent[w]

Same(w) == verdict'[w] = verdict[w] /\ debt'[w] = debt[w] /\ Kept(w)

(* New work, or a repetition of work that has a verdict. *)
Create(w) ==
    /\ verdict[w] = "none" /\ verdict'[w] = "open"
    /\ ~debt'[w]
    /\ \/ origin'[w] = None
       \/ consent'[w]
       \/ verdict[origin'[w]] \in {"accepted", "refused"}

(* One call at a time.  A worker whose lease ran out just before its call   *)
(* may make it late, when the work already counts as unresolved.            *)
Call(w) ==
    /\ verdict[w] \in {"open", "unresolved"} /\ verdict'[w] = verdict[w]
    /\ ~debt[w] /\ debt'[w]
    /\ Kept(w)

(* The call is over and the work has no verdict from it: the provider       *)
(* refused for now, or its answer was lost on the way to the archive.       *)
Forgive(w) ==
    /\ verdict[w] \in {"open", "unresolved"} /\ verdict'[w] = verdict[w]
    /\ debt[w] /\ ~debt'[w]
    /\ Kept(w)

(* A verdict settles what is outstanding. *)
Settle(w) ==
    /\ verdict[w] = "open" /\ verdict'[w] \in {"accepted", "refused"}
    /\ ~debt'[w]
    /\ Kept(w)

Lose(w) ==
    /\ verdict[w] = "open" /\ verdict'[w] = "unresolved"
    /\ debt'[w] = debt[w]
    /\ Kept(w)

(* The outstanding call is asked for its outcome; no other call is made. *)
Recover(w) ==
    /\ verdict[w] = "unresolved" /\ verdict'[w] = "open"
    /\ debt[w] /\ debt'[w]
    /\ Kept(w)

Move(w) == Create(w) \/ Call(w) \/ Forgive(w) \/ Settle(w) \/ Lose(w) \/ Recover(w)

(* Units are independent: one command may create or lose several at once. *)
Next == \A w \in Work : Move(w) \/ Same(w)

Spec == Init /\ [][Next]_vars
=============================================================================
