---------------------------- MODULE InvoiceEvaluation ----------------------------
(***************************************************************************)
(* The recommendation on one invoice: build_context aligns the frozen       *)
(* inputs, prepare_context adds the guards, the observations and the        *)
(* bindings, evaluate executes every enabled rule and aggregates            *)
(* (rules_ingestion/decision_context.py, execution_context.py,              *)
(* evaluator.py). Between two evaluations the world changes by one part of  *)
(* the input: an order is paid, a master loses a row, a link breaks, a      *)
(* snapshot cannot be captured.                                             *)
(***************************************************************************)
EXTENDS RuleExecution

CONSTANTS
    Baseline,       \* an input on which everything is in order
    Alternatives,   \* for some of its parts, other values the part may take
    Crashes,        \* bound: the rules whose check may raise, and NULL: none raises
    MaxChanges      \* bound: how many parts differ from the baseline at once

Decisions == {"PAGAR", "ESCALAR", "NO_PAGAR"}

\* JSON null is no text.
ASSUME EvaluationAssumption == NULL \notin Decisions \union {"missing", "ambiguous"}

Snapshots    == Histories \union {"suppliers", "orders", "erp"}
Parts        == InvoiceScalars \union Snapshots \union
    {"file_id", "document_type", "lines", "taxes", "issues", "annotations", "reading", "evidence",
     "rules", "today"}
LinkKinds    == {"good", "uncertain", "broken", "background", "none"}
Availability == {"available", "partial", "unavailable", "absent"}
Amounts      == Int \union {NULL, BAD}
Linked(scalar) == scalar.link \in LinkKinds
\* What a part of the input is made of.
Formed(part, value) ==
    /\ part \in InvoiceScalars \union {"document_type"} => Linked(value)
    /\ part = "invoice.total" => value.raw \in Amounts
    /\ part = "orders" => value.rows = NULL \/ \A i \in DOMAIN value.rows :
                             value.rows[i] # BAD => value.rows[i].total \in Amounts
    /\ part = "lines" => \A i \in DOMAIN value : Linked(value[i])
    /\ part = "taxes" => \A i \in DOMAIN value, k \in {"label", "amount", "rate"} : Linked(value[i][k])
    /\ part \in Snapshots => value.avail \in Availability /\ {"avail", "auth", "rows"} \subseteq DOMAIN value
    /\ part \in Histories \union {"erp"} => "complete" \in DOMAIN value
    /\ part \in Histories => {"kind", "include"} \subseteq DOMAIN value
ASSUME InputAssumption ==
    /\ Parts \subseteq DOMAIN Baseline
    /\ Baseline = [part \in DOMAIN Baseline |-> Baseline[part]]
    /\ \A part \in DOMAIN Baseline : Formed(part, Baseline[part])
    /\ \A part \in DOMAIN Alternatives :
          part \in DOMAIN Baseline /\ \A value \in Alternatives[part] : Formed(part, value)

NoContext == [findings |-> {}, bindings |-> <<>>]

VARIABLES
    input,      \* the invoice, the snapshots and the ruleset, frozen
    changed,    \* the parts that differ from the baseline
    stage,      \* "open", "aligned", "prepared", "decided"
    context,    \* the findings and the bindings the context publishes
    results,    \* one result per enabled rule, in order
    decision,   \* the recommendation, or NULL
    before      \* the last change and what was recommended before it, or NULL

vars == <<input, changed, stage, context, results, decision, before>>

EnabledRules(in) == SelectSeq(in["rules"], LAMBDA r : r.enabled # FALSE)
Captured(in)     == {h \in {"approved", "paid"} : in[h].avail # "absent"}

ExecFields(in)   == The({ExecutionFields(fields) : fields \in {Fields(in)}})
Observations(in) ==
    The({[h \in Histories |-> HistoryObservation(in, h, fields)] : fields \in {ExecFields(in)}})

Bindings(in) ==
    The({[i \in DOMAIN rules |-> BindRule(rules[i], fields, taxes)] :
            rules \in {EnabledRules(in)}, fields \in {ExecFields(in)}, taxes \in {ExecutionTaxes(in)}})

\* The alignment matcher's doubt about a history falls when the observation of
\* that history is complete; an incomplete result is a finding of its own.
Retired(finding, seen) ==
    finding.code = "HISTORY_RECORDS_MALFORMED" /\ seen[finding.source].coverage = "complete"
Outstanding(in, findings, res) ==
    The({{f \in findings : ~Retired(f, seen)} : seen \in {Observations(in)}})
    \union {Finding("UNRESOLVED", res[i].rule) : i \in {j \in DOMAIN res : ~res[j].complete}}
    \union (IF res # <<>> /\ \A i \in DOMAIN res : res[i].status = "NOT_APPLICABLE"
            THEN {Finding("NO_APPLICABLE_RULES", NULL)} ELSE {})
    \union (IF res = <<>> THEN {Finding("NO_ENABLED_RULES", NULL)} ELSE {})

Rank(d) == CASE d = "PAGAR" -> 0 [] d = "ESCALAR" -> 1 [] d = "NO_PAGAR" -> 2
Aggregate(res, outstanding) ==
    LET applied == {res[i].consequence : i \in DOMAIN res} \ {NULL}
        all     == applied \union (IF \/ outstanding # {} \/ res = <<>>
                                      \/ \E i \in DOMAIN res : ~res[i].complete
                                   THEN {"ESCALAR"} ELSE {})
    IN  IF all = {} THEN "ESCALAR"
        ELSE CHOOSE d \in all : \A e \in all : Rank(e) <= Rank(d)
\* approval_eligible
Eligible(res, d) == d = "PAGAR" /\ \E i \in DOMAIN res : res[i].status = "PASS"

\* crash is the rule whose check fails with an exception, if one does.
Executed(in, crash) ==
    The({[i \in DOMAIN rules |->
            IF rules[i].id = crash
            THEN Result(rules[i], "ERROR", {Step("BLOCKED", "CHECK_EXECUTION_ERROR", {})})
            ELSE ExecuteRule(rules[i], fields, taxes, seen, Captured(in), in["today"])] :
         rules \in {EnabledRules(in)}, fields \in {ExecFields(in)},
         taxes \in {ExecutionTaxes(in)}, seen \in {Observations(in)}})

----------------------------------------------------------------------------
Init ==
    /\ input = Baseline
    /\ changed = {}
    /\ stage = "open"
    /\ context = NoContext
    /\ results = <<>>
    /\ decision = NULL
    /\ before = NULL

Align ==
    /\ stage = "open"
    /\ context' = [context EXCEPT !.findings = Findings(input)]
    /\ stage' = "aligned"
    /\ UNCHANGED <<input, changed, results, decision, before>>

Prepare ==
    /\ stage = "aligned"
    /\ context' = [context EXCEPT !.bindings = Bindings(input)]
    /\ stage' = "prepared"
    /\ UNCHANGED <<input, changed, results, decision, before>>

Evaluate(crash) ==
    /\ stage = "prepared"
    /\ results' = Executed(input, crash)
    /\ decision' = Aggregate(results', Outstanding(input, context.findings, results'))
    /\ stage' = "decided"
    /\ UNCHANGED <<input, changed, context, before>>

Change(part, value) ==
    /\ stage = "decided"
    /\ Cardinality(changed) < MaxChanges
    /\ part \notin changed
    /\ input' = [input EXCEPT ![part] = value]
    /\ changed' = changed \union {part}
    /\ before' = [part |-> part, was |-> input[part], decision |-> decision,
                  raised |-> \E i \in DOMAIN results : results[i].status = "ERROR"]
    /\ stage' = "open"
    /\ context' = NoContext
    /\ results' = <<>>
    /\ decision' = NULL

Next ==
    \/ Align
    \/ Prepare
    \/ \E crash \in Crashes : Evaluate(crash)
    \/ \E part \in DOMAIN Alternatives : \E value \in Alternatives[part] : Change(part, value)

Spec == Init /\ [][Next]_vars

----------------------------------------------------------------------------

Same(a, b) == a # NULL /\ b # NULL /\ Normal(a) = Normal(b)

\* The evidence behind the printed values, read off the input itself.
Doubtless(in, pointer, scalar) ==
    /\ \A i \in DOMAIN in["issues"] : ~Overlap(in["issues"][i].field, pointer)
    /\ \/ scalar.raw = NULL
       \/ scalar.link = "good" /\ in["reading"] /\ in["evidence"]
AllDoubtless(in) ==
    /\ in["issues"] = <<>> /\ PrintedLinks(in) = {"good"} /\ in["reading"] /\ in["evidence"]

\* What each snapshot must be trusted for before its rows may settle a payment.
Trusted(in) ==
    /\ {"supplier.identity", "supplier.bank_details"} \subseteq in["suppliers"].auth
    /\ {"order.identity", "order.amount", "order.currency"} \subseteq in["orders"].auth
    /\ "order.payment_status" \in in["erp"].auth
    /\ \A h \in {"processed"} \union Captured(in) : ("history." \o h) \in in[h].auth

\* What the business means by an invoice that may be paid, from the raw input. The
\* histories keep numbers and suppliers as they were normalised when recorded.
PayableInvoice(in) ==
    LET Raw(f)  == in[f].raw
        vendors == RowsWhere(in["suppliers"], LAMBDA r : Same(r.nif, Raw("invoice.supplier_tax_id")))
        orders  == RowsWhere(in["orders"], LAMBDA r : Same(r.pedido, Raw("invoice.order_reference")))
        ledger  == RowsWhere(in["erp"], LAMBDA r : Same(r.pedido, Raw("invoice.order_reference")))
        Vendor1 == in["suppliers"].rows[CHOOSE i \in vendors : TRUE]
        Earlier(h) == RowsWhere(in[h], LAMBDA r :
                         /\ ~OwnSubmission(in, h, r)
                         /\ r.number = Normal(Raw("invoice.number"))
                         /\ r.supplier = Vendor1.id)
    IN  /\ ~Missing(in["suppliers"]) /\ ~Missing(in["orders"]) /\ ~Missing(in["erp"])
        /\ Trusted(in) /\ vendors # {} /\ orders # {} /\ ledger # {}
        /\ \A i \in vendors : /\ in["suppliers"].rows[i].id = Vendor1.id
                              /\ Same(in["suppliers"].rows[i].iban, Raw("invoice.iban"))
        /\ \A i \in orders : /\ Normal(in["orders"].rows[i].owner) = Vendor1.id
                             /\ Abs(Raw("invoice.total") - in["orders"].rows[i].total) <= 1
        /\ \A i \in ledger : in["erp"].rows[i].estado = "PENDIENTE"
        /\ \A h \in {"processed"} \union Captured(in) :
              in[h].avail = "available" /\ in[h].complete /\ Earlier(h) = {}
        /\ Raw("invoice.issue_date") <= in["today"]
        /\ AllDoubtless(in) /\ in["document_type"].raw = "invoice" /\ ~in["annotations"]

\* A rule book asks for a check when an enabled rule makes it with such settings.
Asks(in, check, Settings(_)) ==
    \E i \in DOMAIN EnabledRules(in) :
        /\ EnabledRules(in)[i].kind = "python_check" /\ EnabledRules(in)[i].canonical = check
        /\ Settings(Params(EnabledRules(in)[i]))
AsksEnough(in) ==
    /\ Asks(in, "VENDOR", LAMBDA p : p["require_iban_match"] = TRUE)
    /\ Asks(in, "DUPLICATES", LAMBDA p : p["require_erp_pending"] = TRUE)
    /\ Asks(in, "AMOUNT", LAMBDA p : /\ p["check_matches_pedido"] = TRUE
                                     /\ p["order_currency_policy"] = "explicit"
                                     /\ p["tolerance_eur"] \in 0 .. 1)
    /\ Asks(in, "DATES", LAMBDA p : p["allow_future"] = FALSE)

(* Under a rule book with these four checks, whatever else is in it, no invoice  *)
(* is recommended for payment unless it is payable by the raw input: the way     *)
(* from printed values over normalised keys, unique master rows, qualities,      *)
(* guards and three-valued verdicts to PAGAR loses no doubt (decision_context,   *)
(* execution_context, evaluator).                                                *)
PaidIsPayable ==
    decision = "PAGAR" /\ AsksEnough(input) => PayableInvoice(input)

\* The printed values a fact rests on.
RestsOn(in, f) ==
    CASE f \in InvoiceScalars -> {f}
      [] f \in SupplierFields -> {"invoice.supplier_tax_id"}
      [] f \in OrderFields \union {"erp.order_payment_status"} -> {"invoice.order_reference"}
      [] OTHER -> {}
Grounded(in, f) ==
    /\ \A g \in RestsOn(in, f) : Doubtless(in, PointerOf[g], in[g])
    /\ f = "invoice.line_amounts" =>
          \A i \in DOMAIN in["lines"] : Doubtless(in, <<"lines", i, "amount">>, in["lines"][i])
    /\ f = "invoice.vat_amount" =>
          \A i \in DOMAIN in["taxes"] :
             Doubtless(in, <<"taxes", i, "amount">>, in["taxes"][i].amount)

(* A rejection rests on an assertion that failed on facts whose own printed     *)
(* values are all read without doubt: an unreadable or unlinked value may only  *)
(* escalate (_input_guards, RuleFrame.check).                                   *)
RejectionIsProved ==
    decision = "NO_PAGAR" =>
        \E i \in DOMAIN results :
            /\ EnabledRules(input)[i].onFail = "NO_PAGAR"
            /\ \E s \in results[i].steps :
                  s.verdict = "FAIL" /\ \A f \in s.uses : Grounded(input, f)

(* A condition whose binding was published as ready and supported is settled    *)
(* when it is executed: bind_rule and execute_rule, written apart, agree on      *)
(* what a condition needs.                                                      *)
ReadyIsConclusive ==
    stage = "decided" =>
        \A i \in DOMAIN results :
            (EnabledRules(input)[i].kind = "structured" /\ results[i].status # "ERROR"
               /\ context.bindings[i].ready /\ context.bindings[i].supported)
              => results[i].complete

\* Knowing less of a part, with the same value: evidence, coverage, authority.
Weaker(part, was, now) ==
    \/ part \in {"reading", "evidence"} /\ was /\ ~now
    \/ part = "issues" /\ was = <<>>
    \/ part \in InvoiceScalars /\ was.raw = now.raw /\ was.link = "good"
    \/ /\ part \in Snapshots /\ DOMAIN now = DOMAIN was
       /\ \A k \in DOMAIN was \ {"avail", "auth", "complete"} : now[k] = was[k]
       /\ "complete" \in DOMAIN was => (now.complete => was.complete)
       /\ now.auth \subseteq was.auth
       /\ now.avail # "absent"
       /\ was.avail \in {"available", now.avail}
(* Losing evidence or the coverage of a snapshot never turns another            *)
(* recommendation into PAGAR. Losing the authority of a snapshot never turns a  *)
(* rejection into PAGAR; what made the case doubtful may leave with it, for a   *)
(* source that is not trusted raises no finding (_resolve_erp, _resolve_history) *)
(* and, under order_currency_policy "invoice", states no currency (_monetary).   *)
WeakerNeverPays ==
    (/\ decision = "PAGAR" /\ before # NULL /\ before.decision # "PAGAR" /\ ~before.raised
     /\ Weaker(before.part, before.was, input[before.part]))
        => /\ before.decision = "ESCALAR"
           /\ before.part \in Snapshots /\ input[before.part].auth # before.was.auth
=================================================================================
