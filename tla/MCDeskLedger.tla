---------------------------- MODULE MCDeskLedger ----------------------------
(* Instances of DeskLedger for TLC: three files, the first two of which are *)
(* copies of one invoice and the third looks like them by amount and date.  *)
EXTENDS DeskLedger, TLC

CONSTANTS f1, f2, f3, scan, rescan, copy, lookalike, acme, beta

AllContents == {scan, rescan, copy, lookalike}

(* Each file keeps its invoice; the scan of the first may be replaced. *)
FileContents == (f1 :> {scan, rescan}) @@ (f2 :> {copy}) @@ (f3 :> {lookalike})

KeyOf == [c \in AllContents |-> IF c = lookalike THEN "F-2" ELSE "F-1"]
AmountAndDate == [c \in AllContents |-> "120"]
VendorOf == [c \in AllContents |-> IF c = lookalike THEN beta ELSE acme]
OrderMissing == {copy}
Euros == AllContents
PaidInErp == {lookalike}
=============================================================================
