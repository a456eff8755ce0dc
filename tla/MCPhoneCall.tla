----------------------------- MODULE MCPhoneCall -----------------------------
(* Two companies whose names share a root, two exported orders and the turns  *)
(* their callers make of them.                                                *)
EXTENDS PhoneCall

CONSTANTS Norte, Sur

MCCompanies == {Norte, Sur}
MCNifDigits == (Norte :> <<4, 1, 2, 2, 0, 9, 8, 7>>) @@ (Sur :> <<7, 2, 3, 0, 1, 1, 4, 5>>)

\* Both of Norte: one to be paid, by the master; one with an IBAN that is not
\* its own, by the ERP alone.
PO475 == <<2, 0, 2, 6, 0, 4, 7, 5>>
PO5 == <<2, 0, 2, 6, 0, 0, 0, 5>>
MCOrderOwner == PO475 :> Norte
MCEntryOwner == (PO475 :> Norte) @@ (PO5 :> Norte)

Rule(status, codes) == [status |-> status, codes |-> codes]
MCEvaluated ==
    << [order |-> PO475, nif |-> Norte, total |-> TRUE, decision |-> "NO_PAGAR", reglas |-> <<Rule("FAIL", <<"TOTAL_MISMATCH">>)>>],
       [order |-> PO475, nif |-> None, total |-> TRUE, decision |-> "PAGAR",
        reglas |-> <<Rule("PASS", <<>>), Rule("NOT_APPLICABLE", <<"ORDER_IDENTITY_UNUSABLE">>)>>],
       [order |-> PO5, nif |-> None, total |-> TRUE, decision |-> "NO_PAGAR",
        reglas |-> <<Rule("FAIL", <<"TOTAL_MISMATCH">>), Rule("FAIL", <<"IBAN_MISMATCH">>)>>],
       [order |-> None, nif |-> Sur, total |-> TRUE, decision |-> "PAGAR", reglas |-> <<Rule("PASS", <<>>)>>] >>

Heard == [roots |-> [c \in MCCompanies |-> 0], digits |-> <<>>, opaque |-> FALSE, po |-> None, invoice |-> FALSE,
          yes |-> FALSE, no |-> FALSE]
Names(n, s) == [Heard EXCEPT !.roots = (Norte :> n) @@ (Sur :> s)]
Number(d) == [Heard EXCEPT !.digits = d]
WholeOrder(o) == [Heard EXCEPT !.po = o, !.digits = o]
Turn == [company |-> None, order |-> None, answer |-> None, oye |-> <<Heard>>]

MCTurns ==
    [ norte   |-> [Turn EXCEPT !.company = Norte, !.oye = <<Names(1, 1), Names(2, 1)>>],
      sur     |-> [Turn EXCEPT !.company = Sur, !.oye = <<Names(1, 1), Number(<<3, 7, 2, 3, 0, 1, 1, 4, 5>>)>>],
      yes     |-> [Turn EXCEPT !.answer = "yes", !.oye = <<[Heard EXCEPT !.yes = TRUE]>>],
      no      |-> [Turn EXCEPT !.answer = "no", !.oye = <<[Heard EXCEPT !.no = TRUE]>>],
      po475   |-> [Turn EXCEPT !.order = PO475,
                   !.oye = <<[Number(<<5>>) EXCEPT !.opaque = TRUE, !.invoice = TRUE], Number(<<5>>), WholeOrder(PO475)>>],
      five    |-> [Turn EXCEPT !.order = PO5, !.oye = <<Number(<<5>>)>>] ]

\* Enough for a caller to be known and to hear of an order.
MCZombieTurns == [t \in {"norte", "yes", "po475"} |-> MCTurns[t]]

=============================================================================
