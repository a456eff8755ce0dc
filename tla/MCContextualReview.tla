--------------------------- MODULE MCContextualReview ---------------------------
EXTENDS ContextualReview

MCSpelling == [t \in {"f1", "t1", "t2", "i1", "o1"} |->
    CASE t = "f1" -> "F1" [] t = "t1" -> "T1" [] t = "t2" -> "T2" [] t = "i1" -> "I1" [] t = "o1" -> "O1"]

S(raw, link) == [raw |-> raw, link |-> link]
Good(raw)    == S(raw, "good")
Tax(kind, amount, rate) == [label |-> Good(kind), amount |-> Good(amount), rate |-> Good(rate)]

Vendor1 == [id |-> "P1", nif |-> "t1", iban |-> "i1", city |-> "Murcia", active |-> NULL, terms |-> 30]
Vendor2 == [id |-> "P2", nif |-> "T2", iban |-> "I2", city |-> "Lorca", active |-> NULL, terms |-> NULL]
Order1 == [pedido |-> "o1", owner |-> "P1", total |-> 121, currency |-> "EUR"]
Order2 == [pedido |-> "O2", owner |-> "P2", total |-> 50, currency |-> NULL]
Past(number, supplier, total, date) ==
    [file |-> "B", number |-> number, supplier |-> supplier, total |-> total, date |-> date,
     currency |-> "EUR"]

Masters == {"supplier.identity", "supplier.bank_details", "supplier.payment_terms"}
Suppliers(avail, rows) == [avail |-> avail, auth |-> Masters, rows |-> rows]
Orders(avail, rows) ==
    [avail |-> avail, auth |-> {"order.identity", "order.amount", "order.currency"}, rows |-> rows]
Erp(avail, complete, rows) ==
    [avail |-> avail, auth |-> {"order.payment_status"}, rows |-> rows, complete |-> complete]
History(h, avail, complete, rows) ==
    [avail |-> avail, auth |-> {"history." \o h}, rows |-> rows, complete |-> complete,
     kind |-> h, include |-> TRUE]

Rule(id, canonical, params) ==
    [id |-> id, enabled |-> TRUE, onFail |-> "NO_PAGAR", canonical |-> canonical,
     kind |-> "python_check", declared |-> TRUE, params |-> params, inputs |-> {},
     applies |-> NULL, group |-> NULL, otherwise |-> NULL]
Clause(f, op, g)    == [field |-> f, op |-> op, other |-> g, literal |-> NULL]
Against(f, op, t, v, c) ==
    [field |-> f, op |-> op, other |-> NULL, literal |-> [type |-> t, value |-> v, currency |-> c]]
Group(logic, clauses) == [logic |-> logic, clauses |-> clauses]
Condition(id, applies, group, otherwise) ==
    [Rule(id, NULL, <<>>) EXCEPT !.kind = "structured", !.applies = applies,
                                 !.group = group, !.otherwise = otherwise]

Terms == Condition("terms",
    Group("OR", <<Against("invoice.total", ">", "money", 200, "EUR"),
                  Against("supplier.city", "==", "string", "Lorca", NULL)>>),
    Group("AND", <<Clause("supplier.iban", "==", "invoice.iban"),
                   Against("supplier.payment_terms_days", ">=", "integer", 15, NULL)>>), "FAIL")
Ceiling == Condition("ceiling", NULL,
    Group("OR", <<Clause("invoice.total", "<=", "order.total"),
                  Against("invoice.number", "in", "string_list", {"F1", "F2"}, NULL),
                  Clause("order.id", "missing", NULL)>>), "FAIL")

Core == <<Rule("vendor", "VENDOR", <<>>), Rule("duplicates", "DUPLICATES", <<>>),
          Rule("amount", "AMOUNT", <<>>),
          [Rule("authorization", "AUTHORIZATION", <<>>) EXCEPT !.onFail = "ESCALAR"],
          [Rule("dates", "DATES", <<>>) EXCEPT !.onFail = "ESCALAR"],
          [Rule("missing", "MISSING", <<>>) EXCEPT !.onFail = "ESCALAR"], Terms, Ceiling>>

MCBaseline == [p \in InvoiceScalars \union Histories \union
        {"file_id", "document_type", "lines", "taxes", "issues", "annotations", "reading",
         "evidence", "workbook", "suppliers", "orders", "erp", "rules", "today"} |->
    CASE p = "invoice.number" -> Good("F1") [] p = "invoice.supplier_tax_id" -> Good("T1")
      [] p = "invoice.iban" -> Good("I1")   [] p = "invoice.order_reference" -> Good("O1")
      [] p = "invoice.issue_date" -> Good(10) [] p = "invoice.currency" -> Good("EUR")
      [] p = "invoice.taxable_base" -> Good(100) [] p = "invoice.total" -> Good(121)
      [] p = "file_id" -> "A" [] p = "document_type" -> Good("invoice")
      [] p = "lines" -> <<Good(60), Good(40)>> [] p = "taxes" -> <<Tax("vat", 21, 21)>>
      [] p = "issues" -> <<>> [] p = "annotations" -> FALSE
      [] p \in {"reading", "evidence"} -> TRUE
      [] p = "workbook" -> FALSE
      [] p = "suppliers" -> Suppliers("available", <<Vendor1, Vendor2>>)
      [] p = "orders" -> Orders("available", <<Order1, Order2>>)
      [] p = "erp" -> Erp("available", TRUE, <<[pedido |-> "O1", estado |-> "PENDIENTE"],
                                               [pedido |-> "O2", estado |-> "PAGADA"]>>)
      [] p = "processed" -> History(p, "available", TRUE, <<Past("F9", "P1", 50, 3)>>)
      [] p = "approved" -> History(p, "absent", FALSE, NULL)
      [] p = "paid" -> History(p, "available", TRUE, <<>>)
      [] p = "rules" -> Core
      [] p = "today" -> 12]

Links(raw) == {S(raw, l) : l \in {"none", "uncertain", "broken", "background"}}
Issue(field, kind) == [field |-> field, kind |-> kind]
Only(rules) == [Core EXCEPT ![8] = rules]
Base(p) == MCBaseline[p]

MCAlternatives == [p \in InvoiceScalars \union Histories \union
        {"document_type", "lines", "taxes", "issues", "annotations", "reading", "evidence", "workbook",
         "suppliers", "orders", "erp", "rules", "today"} |->
    CASE p = "invoice.number" -> Links("F1") \union {Good("f1"), Good("F2"), S(NULL, "none")}
      [] p = "invoice.supplier_tax_id" -> {S("T1", "uncertain"), S("T1", "background"), S("T2", "broken")} \union {Good("t2"), Good("T3"), Good(BAD), S(NULL, "none")}
      [] p = "invoice.iban" -> {Good("I9"), S("I9", "broken"), S("I1", "none"), S(NULL, "none")}
      [] p = "invoice.order_reference" -> {Good("O2"), Good("O3"), S("O2", "broken"), S("O2", "uncertain"), S(NULL, "none")}
      [] p = "invoice.issue_date" -> {Good(13), S(13, "background"), S(NULL, "none")}
      [] p = "invoice.currency" -> {Good("USD"), Good(BAD), S(NULL, "none")}
      [] p = "invoice.taxable_base" -> {Good(90), S(90, "uncertain")}
      [] p = "invoice.total" -> {Good(122), Good(1300000), S(1300000, "broken"), S(NULL, "none")}
      [] p = "document_type" -> {Good("credit_note"), S("invoice", "none")}
      [] p = "lines" -> {<<>>, <<Good(60)>>, <<Good(60), S(NULL, "none")>>, <<Good(60), S(10, "broken")>>}
      [] p = "taxes" -> {<<>>, <<Tax("vat", 21, 21), Tax("withholding", 5, 5)>>, <<Tax("unknown", 21, 21)>>,
                         <<[Tax("vat", 10, 21) EXCEPT !.amount.link = "broken"]>>, <<Tax("vat", 21, 10)>>}
      [] p = "issues" -> {<<Issue(<<>>, "ambiguous")>>, <<Issue(<<"totals">>, "conflicting")>>,
                          <<Issue(<<"payment", "iban">>, "unreadable")>>, <<Issue(<<"document_type">>, "unreadable")>>,
                          <<Issue(<<"taxes", 1, "label">>, "ambiguous"), Issue(<<>>, "unreadable")>>}
      [] p \in {"annotations", "workbook"} -> {TRUE}
      [] p \in {"reading", "evidence"} -> {FALSE}
      [] p = "suppliers" -> {Suppliers("unavailable", Base(p).rows), Suppliers("partial", Base(p).rows),
                             [Base(p) EXCEPT !.auth = {"supplier.identity"}], [Base(p) EXCEPT !.auth = {}],
                             Suppliers("available", NULL),
                             Suppliers("available", <<Vendor1, [Vendor1 EXCEPT !.iban = "I2"]>>),
                             Suppliers("available", <<Vendor1, Vendor1>>),
                             Suppliers("available", <<Vendor1, [Vendor2 EXCEPT !.id = "P1"]>>),
                             Suppliers("available", <<[Vendor1 EXCEPT !.id = NULL]>>),
                             Suppliers("available", <<[Vendor1 EXCEPT !.terms = BAD, !.city = "Lorca"]>>)}
      [] p = "orders" -> {Orders("absent", NULL), Orders("unavailable", Base(p).rows), Orders("partial", Base(p).rows),
                          [Base(p) EXCEPT !.auth = {"order.identity", "order.amount"}],
                          [Base(p) EXCEPT !.auth = {"order.currency", "order.amount"}],
                          Orders("available", <<Order1, [Order1 EXCEPT !.total = 90]>>),
                          Orders("available", <<[Order1 EXCEPT !.owner = "P2"]>>),
                          Orders("available", <<[Order1 EXCEPT !.currency = NULL]>>),
                          Orders("available", <<[Order1 EXCEPT !.total = 90]>>)}
      [] p = "erp" -> {Erp("unavailable", FALSE, Base(p).rows), Erp("partial", FALSE, Base(p).rows),
                       [Base(p) EXCEPT !.auth = {}], [Base(p) EXCEPT !.complete = FALSE],
                       Erp("available", TRUE, <<[pedido |-> "o1", estado |-> "PAGADA"]>>),
                       Erp("available", TRUE, <<[pedido |-> "O1", estado |-> "PAGADA"], [pedido |-> "o1", estado |-> "PENDIENTE"]>>),
                       Erp("available", TRUE, <<>>)}
      [] p = "processed" -> {History(p, "unavailable", TRUE, Base(p).rows), History(p, "partial", FALSE, <<Past("F1", "P1", 7, 7)>>),
                             History(p, "available", TRUE, <<Past("F1", "P1", 7, 7)>>),
                             History(p, "available", TRUE, <<Past("F7", "P1", 121, 10)>>),
                             History(p, "available", TRUE, <<[Past("F7", "P1", 121, 10) EXCEPT !.currency = NULL]>>),
                             History(p, "available", TRUE, <<[Past("F1", "P1", 121, 10) EXCEPT !.file = "A"]>>),
                             [History(p, "available", TRUE, <<[Past("F1", "P1", 121, 10) EXCEPT !.file = "A"]>>) EXCEPT !.include = FALSE],
                             History(p, "available", TRUE, <<[Past("F9", NULL, 50, 3) EXCEPT !.currency = NULL]>>),
                             History(p, "available", TRUE, <<Past(NULL, "P1", NULL, 3)>>),
                             History(p, "available", TRUE, <<Past("F1", "P1", NULL, NULL), BAD>>),
                             [Base(p) EXCEPT !.kind = "paid"], [Base(p) EXCEPT !.auth = {}]}
      [] p = "approved" -> {History(p, "available", TRUE, <<Past("F1", "P1", 121, 10)>>), History(p, "unavailable", FALSE, NULL)}
      [] p = "paid" -> {History(p, "available", TRUE, <<Past("F1", "P1", 121, 10)>>), History(p, "partial", FALSE, <<>>), History(p, "absent", FALSE, NULL)}
      [] p = "today" -> {9, 50}
      [] p = "rules" -> {<<>>, <<Terms>>, <<[Rule("vendor", "VENDOR", <<>>) EXCEPT !.enabled = FALSE]>>,
            Only([Ceiling EXCEPT !.onFail = BAD]), Only([Ceiling EXCEPT !.otherwise = "NEEDS_REVIEW"]),
            Only([Ceiling EXCEPT !.inputs = {"supplier.active"}]),
            Only([Terms EXCEPT !.inputs = {"supplier.active"}]),
            Only([Ceiling EXCEPT !.group.clauses[3].field = "order.weight"]),
            Only([Ceiling EXCEPT !.group.clauses[1].other = "invoice.iban"]),
            Only(Rule("terms2", "DATES", [enforce_payment_terms |-> FALSE, allow_future |-> TRUE])),
            [Core EXCEPT ![1].params = [require_active |-> TRUE]],
            [Core EXCEPT ![1].params = [check_nif_control_digit |-> TRUE]],
            [Core EXCEPT ![1].params = [require_iban_match |-> FALSE]],
            [Core EXCEPT ![1].declared = FALSE],
            [Core EXCEPT ![2].params = [hard_key |-> {"invoice.number"}]],
            [Core EXCEPT ![3].params = [order_currency_policy |-> "invoice"]],
            [Core EXCEPT ![3].params = [check_iva |-> TRUE, tolerance_eur |-> 0]],
            [Core EXCEPT ![3].params = [allowed_currencies |-> {"USD"}]],
            [Core EXCEPT ![6].params = [required_fields |-> {"supplier.city", "iban"}]],
            [Core EXCEPT ![6].canonical = "MISSING2"]}]

Answered == [status |-> 200, raised |-> NULL, length |-> "short", finish |-> "stop", body |-> "json"]
MCCalls ==
    {Answered, [Answered EXCEPT !.raised = "timeout"], [Answered EXCEPT !.status = 401],
     [Answered EXCEPT !.status = 429], [Answered EXCEPT !.status = 500],
     [Answered EXCEPT !.length = "cut"], [Answered EXCEPT !.length = "long"],
     [Answered EXCEPT !.finish = "length"]}
Remark(kind, blocking, duplicate) ==
    [kind |-> kind, blocking |-> blocking, duplicate |-> duplicate, rules |-> {"amount"}]
MCRemarks ==
    {Remark("CONTRADICTORY_EVIDENCE", TRUE, FALSE), Remark("REVIEW_LIMITATION", TRUE, FALSE),
     Remark("MISSED_DETAIL", FALSE, TRUE), Remark("MISSED_DETAIL", FALSE, FALSE),
     Remark("AUTHORIZATION_GAP", FALSE, FALSE)}
=================================================================================
