------------------------------ MODULE RuleExecution ------------------------------
(***************************************************************************)
(* How one frozen rule is planned, bound to the facts and executed:         *)
(* rules_ingestion/conditions.py (the typed, three-valued conditions) and   *)
(* rules_ingestion/execution_rules.py (plan_rule, bind_rule, execute_rule   *)
(* and the six canonical checks), over the vocabulary of                    *)
(* rules_ingestion/decision_registry.py.                                    *)
(*                                                                         *)
(* A rule is a record:                                                      *)
(*   id, enabled, onFail, canonical; kind: "python_check" or "structured";  *)
(*   declared: the condition names the check's own module and function;     *)
(*   params: the parameters it sets (a function), or BAD;                   *)
(*   inputs: the fields it declares;  applies: a group of clauses or NULL;  *)
(*   group: [logic, clauses];  otherwise: the verdict when group is false.  *)
(* A clause is [field, op, other, literal]: other is a field or NULL, and   *)
(* then literal is [type, value, currency].                                 *)
(***************************************************************************)
EXTENDS InvoiceFacts

CONSTANT ControlOk      \* the tax identifiers whose control character is right

Aliases == [f \in {"nif", "iban", "pedido", "importe", "iva", "fecha"} |->
    CASE f = "nif"     -> "invoice.supplier_tax_id"
      [] f = "iban"    -> "invoice.iban"
      [] f = "pedido"  -> "invoice.order_reference"
      [] f = "importe" -> "invoice.total"
      [] f = "iva"     -> "invoice.vat_amount"
      [] f = "fecha"   -> "invoice.issue_date"]
FieldId(name) == IF name \in DOMAIN Aliases THEN Aliases[name] ELSE name

MoneyFields == {"invoice.total", "invoice.taxable_base", "invoice.vat_amount", "order.total"}
FieldType(f) ==
    IF f \in MoneyFields                            THEN "money"
    ELSE IF f = "supplier.payment_terms_days"       THEN "integer"
    ELSE IF f = "invoice.issue_date"                THEN "date"
    ELSE IF f = "supplier.active"                   THEN "boolean"
    ELSE IF f = "invoice.line_amounts"              THEN "decimal_list"
    ELSE IF f \in {HistoryField[h] : h \in Histories} THEN "source_ref_list"
    ELSE "string"
CurrencyField(f) == IF f = "order.total" THEN "order.currency" ELSE "invoice.currency"

----------------------------------------------------------------------------
(* Conditions.                                                              *)

Presence == {"exists", "missing"}
Member   == {"in", "not_in"}
Ordered  == {"<", "<=", ">", ">="}

OperandType(clause) ==
    IF clause.other # NULL THEN FieldType(FieldId(clause.other)) ELSE clause.literal.type

ValidClause(clause, fields) ==
    /\ FieldId(clause.field) \in DOMAIN fields
    /\ clause.op \in Presence \union Member \union Ordered \union {"==", "!="}
    /\ clause.op \notin Presence =>
         LET lhs == FieldType(FieldId(clause.field))
             rhs == OperandType(clause)
         IN  /\ clause.other # NULL => FieldId(clause.other) \in DOMAIN fields
             /\ IF clause.op \in Member THEN lhs = "string" /\ rhs = "string_list"
                ELSE lhs = rhs /\ lhs \notin {"decimal_list", "source_ref_list"}
             /\ clause.op \in Ordered => lhs \in {"money", "integer", "date"}
ValidGroup(group, fields) ==
    /\ group.logic \in {"AND", "OR"}
    /\ group.clauses # <<>>
    /\ \A i \in DOMAIN group.clauses : ValidClause(group.clauses[i], fields)

WithCurrency(f) == {f} \union (IF f \in MoneyFields THEN {CurrencyField(f)} ELSE {})
ClauseFields(clause) ==
    IF clause.op \in Presence THEN {FieldId(clause.field)}
    ELSE WithCurrency(FieldId(clause.field)) \union
         (IF clause.other # NULL THEN WithCurrency(FieldId(clause.other)) ELSE {})
GroupFields(group) == UNION {ClauseFields(group.clauses[i]) : i \in DOMAIN group.clauses}

Compare(op, a, b) ==
    CASE op = "=="     -> a = b
      [] op = "!="     -> a # b
      [] op = "<"      -> a < b
      [] op = "<="     -> a <= b
      [] op = ">"      -> a > b
      [] op = ">="     -> a >= b
      [] op = "in"     -> a \in b
      [] op = "not_in" -> a \notin b

Truth(b) == IF b THEN "TRUE" ELSE "FALSE"

ClauseTruth(clause, fields) ==
    LET f    == FieldId(clause.field)
        g    == FieldId(clause.other)
        Unit(x) == IF x \in MoneyFields THEN fields[CurrencyField(x)].value ELSE NULL
        ready == \A x \in ClauseFields(clause) : Usable(fields[x])
        theirs == IF clause.other # NULL THEN Unit(g) ELSE clause.literal.currency
    IN  IF clause.op \in Presence
        THEN IF /\ fields[f].quality \notin {"uncertain", "unlinked"}
                /\ fields[f].state \in {"present", "missing"}
             THEN Truth(Present(fields[f]) = (clause.op = "exists")) ELSE "UNKNOWN"
        ELSE IF ~ready \/ Unit(f) # theirs THEN "UNKNOWN"
        ELSE Truth(Compare(clause.op, fields[f].value,
                           IF clause.other # NULL THEN fields[g].value
                           ELSE clause.literal.value))

\* Kleene's conjunction and disjunction, and the clauses that settle them.
GroupTruth(logic, truths) ==
    LET decisive == IF logic = "AND" THEN "FALSE" ELSE "TRUE"
        values   == {truths[i] : i \in DOMAIN truths}
    IN  IF decisive \in values THEN decisive
        ELSE IF "UNKNOWN" \in values THEN "UNKNOWN"
        ELSE IF logic = "AND" THEN "TRUE" ELSE "FALSE"
Selected(logic, truths) ==
    LET decisive == IF logic = "AND" THEN "FALSE" ELSE "TRUE"
        settling == {i \in DOMAIN truths : truths[i] = decisive}
    IN  IF settling # {} THEN settling ELSE DOMAIN truths

EvaluateGroup(group, fields) ==
    LET truths == [i \in DOMAIN group.clauses |-> ClauseTruth(group.clauses[i], fields)]
    IN  [truth    |-> GroupTruth(group.logic, truths),
         required |-> UNION {ClauseFields(group.clauses[i]) : i \in Selected(group.logic, truths)}]

----------------------------------------------------------------------------
(* The plan: what the rule needs, and why it may not be executable.           *)

Canonicals == {"VENDOR", "DUPLICATES", "AMOUNT", "AUTHORIZATION", "DATES", "MISSING"}
DefaultLimit == 1000000      \* 10000 EUR, in cents
Defaults == [c \in Canonicals |->
    CASE c = "VENDOR" -> [require_nif_in_master |-> TRUE, require_iban_match |-> TRUE,
                          require_active |-> FALSE, check_nif_control_digit |-> FALSE]
      [] c = "DUPLICATES" -> [require_erp_pending |-> TRUE,
                              hard_key |-> {"invoice.number", "supplier.id"},
                              soft_key |-> {"invoice.total", "invoice.issue_date"},
                              soft_duplicate_verdict |-> "NEEDS_REVIEW"]
      [] c = "AMOUNT" -> [tolerance_eur |-> 1, check_line_items_sum |-> TRUE,
                          check_total_is_base_plus_iva |-> TRUE, check_matches_pedido |-> TRUE,
                          check_iva |-> FALSE, allowed_currencies |-> {},
                          order_currency_policy |-> "explicit"]
      [] c = "AUTHORIZATION" -> [escalate_above_eur |-> DefaultLimit]
      [] c = "DATES" -> [allow_future |-> FALSE, enforce_payment_terms |-> TRUE]
      [] c = "MISSING" -> [required_fields |-> {"nif", "iban", "pedido", "importe", "iva", "fecha"}]]
Flags == {"require_nif_in_master", "require_iban_match", "require_active",
          "check_nif_control_digit", "require_erp_pending", "check_line_items_sum",
          "check_total_is_base_plus_iva", "check_matches_pedido", "check_iva",
          "allow_future", "enforce_payment_terms"}

\* The settings of one table over those of another.
Over(f, g) == [p \in DOMAIN f \union DOMAIN g |-> IF p \in DOMAIN f THEN f[p] ELSE g[p]]

Own(rule)    == IF rule.params = BAD THEN <<>> ELSE rule.params
Params(rule) == Over(Own(rule), Defaults[rule.canonical])

BaseDependencies(c) ==
    CASE c = "VENDOR"        -> {"supplier.id", "invoice.supplier_tax_id", "supplier.tax_id"}
      [] c = "DUPLICATES"    -> {"invoice.number", "supplier.id", "invoice.total",
                                 "invoice.issue_date", "invoice.currency",
                                 "history.processed_matches"}
      [] c = "AMOUNT"        -> {"invoice.currency"}
      [] c = "AUTHORIZATION" -> {"invoice.total", "invoice.currency"}
      [] c = "DATES"         -> {"invoice.issue_date"}
      [] c = "MISSING"       -> {}
FlagDependencies(flag) ==
    CASE flag = "require_iban_match"    -> {"invoice.iban", "supplier.iban"}
      [] flag \in {"require_nif_in_master"} -> {"invoice.supplier_tax_id", "supplier.tax_id"}
      [] flag = "require_active"        -> {"supplier.active"}
      [] flag = "check_nif_control_digit" -> {"invoice.supplier_tax_id"}
      [] flag = "require_erp_pending"   -> {"invoice.order_reference", "order.id",
                                            "order.supplier_id", "erp.order_payment_status"}
      [] flag = "check_line_items_sum"  -> {"invoice.line_amounts", "invoice.taxable_base"}
      [] flag = "check_total_is_base_plus_iva" ->
             {"invoice.taxable_base", "invoice.vat_amount", "invoice.total"}
      [] flag = "check_matches_pedido"  ->
             {"invoice.total", "invoice.order_reference", "supplier.id", "order.id",
              "order.supplier_id", "order.total", "order.currency"}
      [] flag = "check_iva"             -> {"invoice.vat_amount", "invoice.taxable_base",
                                            "invoice.currency"}
      [] flag = "enforce_payment_terms" -> {"supplier.id", "supplier.payment_terms_days"}
      [] OTHER                          -> {}

CanonicalRequests(rule) ==
    LET p == Params(rule)
    IN  BaseDependencies(rule.canonical)
        \union (UNION {FlagDependencies(f) : f \in {g \in Flags \intersect DOMAIN p : p[g] = TRUE}})
        \union (IF rule.canonical = "DUPLICATES" THEN p["hard_key"] \union p["soft_key"] ELSE {})
        \union (IF rule.canonical = "MISSING" /\ p["required_fields"] # BAD
                THEN p["required_fields"] ELSE {})

Dependency(name, phase) == [name |-> name, phase |-> phase]
Executable(rule) == rule.kind = "python_check" /\ rule.canonical \in Canonicals
Dependencies(rule, fields) ==
    {Dependency(n, "unconditional") : n \in rule.inputs} \union
    IF rule.kind = "structured"
    THEN {Dependency(n, "compliance") : n \in IF ValidGroup(rule.group, fields)
                                              THEN GroupFields(rule.group) ELSE {}} \union
         {Dependency(n, "applicability") : n \in IF rule.applies # NULL
                                                 THEN GroupFields(rule.applies) ELSE {}}
    ELSE IF Executable(rule) THEN {Dependency(n, "compliance") : n \in CanonicalRequests(rule)}
    ELSE {}

ParameterErrors(rule, taxes) ==
    LET p == Params(rule)
        c == rule.canonical
    IN  \/ ~rule.declared
        \/ \E k \in DOMAIN Own(rule) : k \notin DOMAIN Defaults[c]
        \/ \E f \in Flags \intersect DOMAIN p : p[f] \notin BOOLEAN
        \/ c = "AMOUNT" /\ (p["tolerance_eur"] = BAD \/ p["tolerance_eur"] < 0)
        \/ c = "AMOUNT" /\ p["order_currency_policy"] \notin {"explicit", "invoice"}
        \/ c = "AUTHORIZATION" /\ (p["escalate_above_eur"] = BAD \/ p["escalate_above_eur"] < 0)
        \/ c = "MISSING" /\ p["required_fields"] \in {BAD, {}}
        \/ c = "DUPLICATES" /\ p["hard_key"] # {"invoice.number", "supplier.id"}
        \/ c = "DUPLICATES" /\ p["soft_key"] # {"invoice.total", "invoice.issue_date"}
        \/ c = "DUPLICATES" /\ p["soft_duplicate_verdict"] # "NEEDS_REVIEW"
        \/ /\ c = "AMOUNT" /\ p["check_total_is_base_plus_iva"] = TRUE
           /\ \E i \in DOMAIN taxes :
                 taxes[i].kind.value \in {"withholding", "unknown"} \/ ~Present(taxes[i].kind)

Unsupported(rule, fields, taxes) ==
    \/ rule.enabled \notin BOOLEAN
    \/ rule.onFail \notin {"ESCALAR", "NO_PAGAR"}
    \/ rule.params = BAD
    \/ \E d \in Dependencies(rule, fields) : FieldId(d.name) \notin DOMAIN fields
    \/ IF rule.kind = "structured"
       THEN \/ DOMAIN Own(rule) # {}
            \/ ~ValidGroup(rule.group, fields)
            \/ rule.applies # NULL /\ ~ValidGroup(rule.applies, fields)
            \/ rule.otherwise \notin {"FAIL", "NEEDS_REVIEW"}
       ELSE ~Executable(rule) \/ ParameterErrors(rule, taxes)

----------------------------------------------------------------------------
(* The binding that the context publishes before anything is executed.        *)

\* Mutant: the condition counts as known whatever is known of its applicability.
NeededOfCondition(rule, fields) ==
    LET app  == EvaluateGroup(rule.applies, fields)
        main == EvaluateGroup(rule.group, fields)
    IN  [known |-> main.truth # "UNKNOWN",
         applicability |-> IF rule.applies = NULL THEN {} ELSE app.required,
         compliance    |-> main.required]

\* What a structured rule needs, given what is known of its condition.
Needed(rule, fields) ==
    LET app     == EvaluateGroup(rule.applies, fields)
        applies == rule.applies = NULL \/ app.truth = "TRUE"
        main    == EvaluateGroup(rule.group, fields)
    IN  [known |-> IF applies THEN main.truth # "UNKNOWN" ELSE app.truth # "UNKNOWN",
         applicability |-> IF rule.applies = NULL THEN {} ELSE app.required,
         compliance    |-> IF applies THEN main.required ELSE {}]

BindRule(rule, fields, taxes) ==
    LET unsupported == Unsupported(rule, fields, taxes)
        conditional == rule.kind = "structured" /\ ~unsupported
        needed      == Needed(rule, fields)
        known       == conditional => needed.known
        Required(d) == \/ d.phase = "unconditional" \/ ~conditional
                       \/ d.phase = "applicability" /\ FieldId(d.name) \in needed.applicability
                       \/ d.phase = "compliance" /\ FieldId(d.name) \in needed.compliance
        MayLack(d)  == \/ rule.canonical = "MISSING"
                       \/ rule.kind = "structured" /\ known /\ d.phase # "unconditional"
        Sound(d)    == LET f == FieldId(d.name)
                       IN  /\ f \in DOMAIN fields
                           /\ fields[f].quality \notin {"uncertain", "unlinked"}
                           /\ fields[f].state \in {"present"} \union
                                 (IF MayLack(d) THEN {"missing"} ELSE {})
        TaxSound(t) == \A k \in {"kind", "amount", "rate"} : Usable(t[k])
        vat == rule.kind = "python_check" /\ rule.canonical = "AMOUNT" /\ ~unsupported
               /\ Params(rule)["check_iva"]
    IN  [rule      |-> rule.id,
         ready     |-> /\ known
                       /\ vat => \A i \in DOMAIN taxes : TaxSound(taxes[i])
                       /\ \A d \in Dependencies(rule, fields) : Required(d) => Sound(d),
         supported |-> ~unsupported]

----------------------------------------------------------------------------
(* The checks. A step is one assertion of a rule: its verdict, its reason and  *)
(* the facts it read.                                                          *)

Step(verdict, code, uses) == [verdict |-> verdict, code |-> code, uses |-> uses]

\* Mutant: what cannot be read is not asserted.
ClaimIfUsable(fields, uses, holds, failure, code) ==
    IF \A f \in uses : Usable(fields[f])
    THEN {Step(IF holds THEN "PASS" ELSE failure, code, uses)} ELSE {}

Claim(fields, uses, holds, failure, code) ==
    IF \A f \in uses : Usable(fields[f])
    THEN {Step(IF holds THEN "PASS" ELSE failure, code, uses)}
    ELSE {Step("BLOCKED", "UNUSABLE_INPUT", uses)}

Vendor(p, fields) ==
    LET V(f) == fields[f].value
    IN  Claim(fields, {"supplier.id"}, TRUE, "FAIL", "SUPPLIER_UNRESOLVED")
        \union (IF p["require_nif_in_master"]
                THEN Claim(fields, {"invoice.supplier_tax_id", "supplier.tax_id"},
                            V("invoice.supplier_tax_id") = V("supplier.tax_id"),
                            "FAIL", "TAX_ID_MISMATCH") ELSE {})
        \union (IF p["check_nif_control_digit"]
                THEN Claim(fields, {"invoice.supplier_tax_id"},
                            V("invoice.supplier_tax_id") \in ControlOk,
                            "FAIL", "NIF_CONTROL_MISMATCH") ELSE {})
        \union (IF p["require_iban_match"]
                THEN Claim(fields, {"invoice.iban", "supplier.iban"},
                            V("invoice.iban") = V("supplier.iban"),
                            "FAIL", "IBAN_MISMATCH") ELSE {})
        \union (IF p["require_active"]
                THEN Claim(fields, {"supplier.active"}, V("supplier.active") = TRUE,
                            "FAIL", "SUPPLIER_INACTIVE") ELSE {})

ErpPending(fields) ==
    LET uses == {"invoice.order_reference", "order.id", "order.supplier_id", "supplier.id",
                 "erp.order_payment_status"}
    IN  IF /\ \A f \in uses : Usable(fields[f])
           /\ fields["invoice.order_reference"].value = fields["order.id"].value
           /\ fields["order.supplier_id"].value = fields["supplier.id"].value
        THEN {Step(IF fields["erp.order_payment_status"].value = "PAGADA"
                   THEN "FAIL" ELSE "PASS", "ERP_ALREADY_PAID", uses)}
        ELSE {Step("BLOCKED", "ERP_PAYMENT_STATE_UNUSABLE", uses)}

HardFields == {"invoice.number", "supplier.id"}
SoftFields == {"invoice.total", "invoice.issue_date"}
HistorySteps(h, seen) ==
    (IF seen.hard # {} THEN {Step("FAIL", "DUPLICATE " \o h, HardFields)} ELSE {}) \union
    (IF seen.soft # {} THEN {Step("NEEDS_REVIEW", "SOFT_DUPLICATE_MATCH", SoftFields)} ELSE {}) \union
    (IF seen.coverage # "complete"
     THEN {Step("BLOCKED", "HISTORY_COVERAGE_INCOMPLETE", HardFields)}
     ELSE IF seen.hard = {} /\ seen.soft = {}
          THEN {Step("PASS", "NO_HISTORY_DUPLICATE", HardFields \union SoftFields)} ELSE {})

\* Only the processed history is demanded; the others count when they were captured.
Duplicates(p, fields, seen, captured) ==
    (IF p["require_erp_pending"] THEN ErpPending(fields) ELSE {}) \union
    UNION {HistorySteps(h, seen[h]) : h \in {"processed"} \union captured}

Abs(n) == IF n < 0 THEN -n ELSE n

\* The order's amount may be read in the invoice's currency when it states none.
Monetary(p, fields, uses, difference, code) ==
    LET borrowed == /\ "order.total" \in uses
                    /\ p["order_currency_policy"] = "invoice"
                    /\ fields["order.currency"].state \in {"missing", "unavailable"}
        currencies == {CurrencyField(f) : f \in uses} \ (IF borrowed THEN {"order.currency"} ELSE {})
        all        == uses \union currencies
        V(f)       == fields[f].value
    IN  IF \E f \in all : ~Usable(fields[f])
        THEN {Step("BLOCKED", "UNUSABLE_AMOUNT_INPUT", all)}
        ELSE IF \E f \in currencies : V(f) # "EUR"
        THEN {Step("BLOCKED", "UNSUPPORTED_CURRENCY_COMPARISON", all)}
        ELSE {Step(IF Abs(difference) <= p["tolerance_eur"] THEN "PASS" ELSE "FAIL", code, all)}

RoundHalfUp(n, d) == IF n >= 0 THEN (2 * n + d) \div (2 * d) ELSE -((-2 * n + d) \div (2 * d))

Vat(p, fields, taxes) ==
    LET uses == {"invoice.taxable_base", "invoice.currency"}
        tax  == taxes[1]
        base == fields["invoice.taxable_base"].value
    IN  IF Len(taxes) # 1 \/ ~Usable(tax.kind) \/ tax.kind.value # "vat"
        THEN {Step("BLOCKED", "VAT_BASE_ALLOCATION_UNAVAILABLE", {})}
        ELSE IF ~Usable(tax.rate) \/ ~Usable(tax.amount) \/ \E f \in uses : ~Usable(fields[f])
        THEN {Step("BLOCKED", "VAT_INPUT_UNUSABLE", uses)}
        ELSE IF fields["invoice.currency"].value # "EUR"
        THEN {Step("BLOCKED", "UNSUPPORTED_CURRENCY_COMPARISON", uses)}
        ELSE IF tax.rate.value \notin 0 .. 100 THEN {Step("FAIL", "VAT_RATE_INVALID", uses)}
        ELSE {Step(IF Abs(tax.amount.value - RoundHalfUp(base * tax.rate.value, 100))
                        <= p["tolerance_eur"]
                   THEN "PASS" ELSE "FAIL", "VAT_AMOUNT_MISMATCH", uses)}

OrderIdentity == {"supplier.id", "order.supplier_id", "invoice.order_reference", "order.id"}
Amount(p, fields, taxes) ==
    LET V(f)     == fields[f].value
        lineGap  == SumOf(V("invoice.line_amounts")) - V("invoice.taxable_base")
        totalGap == V("invoice.taxable_base") + V("invoice.vat_amount") - V("invoice.total")
        orderGap == V("invoice.total") - V("order.total")
        owned == /\ \A f \in OrderIdentity : Usable(fields[f])
                 /\ fields["supplier.id"].value = fields["order.supplier_id"].value
    IN  (IF p["allowed_currencies"] # {}
         THEN Claim(fields, {"invoice.currency"},
                     fields["invoice.currency"].value \in p["allowed_currencies"],
                     "FAIL", "CURRENCY_NOT_ALLOWED") ELSE {})
        \union (IF p["check_iva"] THEN Vat(p, fields, taxes) ELSE {})
        \union (IF p["check_line_items_sum"]
                THEN Monetary(p, fields, {"invoice.line_amounts", "invoice.taxable_base"},
                              lineGap, "LINE_SUM_MISMATCH") ELSE {})
        \union (IF p["check_total_is_base_plus_iva"]
                THEN Monetary(p, fields, {"invoice.taxable_base", "invoice.vat_amount",
                                          "invoice.total"}, totalGap, "TOTAL_MISMATCH") ELSE {})
        \union (IF ~p["check_matches_pedido"] THEN {}
                ELSE IF ~owned THEN {Step("BLOCKED", "ORDER_IDENTITY_UNUSABLE", OrderIdentity)}
                ELSE Monetary(p, fields, {"invoice.total", "order.total"},
                              orderGap, "ORDER_AMOUNT_MISMATCH"))

Authorization(p, fields) ==
    LET uses == {"invoice.total", "invoice.currency"}
    IN  IF ~Usable(fields["invoice.total"]) \/ ~Usable(fields["invoice.currency"])
           \/ fields["invoice.currency"].value # "EUR"
        THEN {Step("BLOCKED", "AUTHORIZATION_INPUT_UNUSABLE", uses)}
        ELSE Claim(fields, uses, fields["invoice.total"].value <= p["escalate_above_eur"],
                    "NEEDS_REVIEW", "AUTHORIZATION_REQUIRED")

Dates(p, fields, today) ==
    LET issued == fields["invoice.issue_date"].value
    IN  (IF p["allow_future"] THEN {}
         ELSE Claim(fields, {"invoice.issue_date"}, issued <= today,
                     "FAIL", "FUTURE_INVOICE_DATE"))
        \union (IF p["enforce_payment_terms"]
                THEN Claim(fields, {"invoice.issue_date", "supplier.payment_terms_days"},
                            today - issued <= fields["supplier.payment_terms_days"].value,
                            "NEEDS_REVIEW", "PAYMENT_TERMS_EXCEEDED") ELSE {})

CleanlyMissing(fact) ==
    fact.state = "missing" /\ fact.quality \notin {"uncertain", "unlinked"}
RequiredFields(p, fields) ==
    {LET f == FieldId(n)
     IN  IF Usable(fields[f]) THEN Step("PASS", "REQUIREMENT_SATISFIED", {f})
         ELSE IF CleanlyMissing(fields[f]) THEN Step("FAIL", "REQUIRED_FIELD_MISSING", {f})
         ELSE Step("BLOCKED", "UNUSABLE_INPUT", {f}) : n \in p["required_fields"]}

\* What a declared input that cannot be used leaves before the check itself.
Declared(rule, fields) ==
    {Step("BLOCKED", "UNUSABLE_DECLARED_INPUT", {FieldId(n)}) :
        n \in {m \in rule.inputs :
                 /\ ~Usable(fields[FieldId(m)])
                 /\ ~(rule.canonical = "MISSING" /\ CleanlyMissing(fields[FieldId(m)]))}}

Result(rule, status, steps) ==
    [rule |-> rule.id, status |-> status, steps |-> steps,
     complete |-> \/ status = "NOT_APPLICABLE"
                  \/ /\ \A s \in steps : s.verdict # "BLOCKED"
                     /\ status \notin {"UNSUPPORTED", "ERROR", "BLOCKED"},
     consequence |-> CASE status = "NOT_APPLICABLE" -> NULL
                       [] status = "VIOLATED"       -> rule.onFail
                       [] status = "PASS"           -> "PAGAR"
                       [] OTHER                     -> "ESCALAR"]
Finish(rule, steps) ==
    LET verdicts == {s.verdict : s \in steps}
    IN  Result(rule, IF "FAIL" \in verdicts THEN "VIOLATED"
                     ELSE IF "BLOCKED" \in verdicts \/ verdicts = {} THEN "BLOCKED"
                     ELSE IF "NEEDS_REVIEW" \in verdicts THEN "NEEDS_REVIEW" ELSE "PASS",
               IF steps = {} THEN {Step("BLOCKED", "NO_EXECUTABLE_ASSERTIONS", {})} ELSE steps)

ExecuteStructured(rule, fields) ==
    LET declared == Declared(rule, fields)
        app      == EvaluateGroup(rule.applies, fields)
        main     == EvaluateGroup(rule.group, fields)
        verdict  == CASE main.truth = "TRUE"  -> "PASS"
                      [] main.truth = "FALSE" -> rule.otherwise
                      [] OTHER                -> "BLOCKED"
    IN  IF rule.applies # NULL /\ app.truth = "FALSE"
        THEN Result(rule, IF declared # {} THEN "BLOCKED" ELSE "NOT_APPLICABLE", declared)
        ELSE IF rule.applies # NULL /\ app.truth = "UNKNOWN"
        THEN Result(rule, "BLOCKED",
                    declared \union {Step("BLOCKED", "APPLICABILITY_UNKNOWN", app.required)})
        ELSE Finish(rule, declared \union {Step(verdict, "CONDITION", main.required)})

CanonicalCheck(rule, fields, taxes, seen, captured, today) ==
    LET p == Params(rule)
        c == rule.canonical
    IN  CASE c = "VENDOR"        -> Vendor(p, fields)
          [] c = "DUPLICATES"    -> Duplicates(p, fields, seen, captured)
          [] c = "AMOUNT"        -> Amount(p, fields, taxes)
          [] c = "AUTHORIZATION" -> Authorization(p, fields)
          [] c = "DATES"         -> Dates(p, fields, today)
          [] c = "MISSING"       -> RequiredFields(p, fields)

ExecuteRule(rule, fields, taxes, seen, captured, today) ==
    IF Unsupported(rule, fields, taxes)
    THEN Result(rule, "UNSUPPORTED", {Step("BLOCKED", "UNSUPPORTED", {})})
    ELSE IF rule.kind = "structured" THEN ExecuteStructured(rule, fields)
    ELSE Finish(rule, Declared(rule, fields)
                      \union CanonicalCheck(rule, fields, taxes, seen, captured, today))
=================================================================================
