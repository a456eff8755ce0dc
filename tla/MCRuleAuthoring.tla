---------------------------- MODULE MCRuleAuthoring ----------------------------
EXTENDS RuleAuthoring

AnyRevision == Permutations(Revisions)

NoHits == [f \in Canonicals |-> 0]
Line(hits, says) ==
    [declared |-> TRUE, hits |-> hits @@ NoHits, grounded |-> DOMAIN hits, numbered |-> FALSE,
     deontic |-> TRUE, noise |-> FALSE, domain |-> 2, length |-> 9, says |-> says,
     above |-> NULL, margin |-> NULL, days |-> NULL]
Groups(values, seps) ==
    [parts |-> [i \in DOMAIN values |-> [value |-> values[i], len |-> IF i = 1 THEN 1 ELSE 3]],
     seps  |-> seps]
FiveThousand == Groups(<<5, 0>>, <<".">>)
InCents(n)   == [parts |-> Append(n.parts, [value |-> 0, len |-> 2]), seps |-> Append(n.seps, ",")]

One == [parts |-> <<[value |-> 1, len |-> 1]>>, seps |-> <<>>]

\* Facturas superiores a <amount> EUR requieren aprobacion del responsable
Limit(n) == [Line([AUTHORIZATION |-> 2, AMOUNT |-> 1],
                  {"superior a", "aprobacion", "responsable", "autoriz"}) EXCEPT !.above = n]
\* No pagar a proveedores ... : no lexicon but the supplier's
Havens == [Line([VENDOR |-> 1], {"paraiso", "prohibido", "proveedor"}) EXCEPT !.hits = NoHits]
\* Solo se pagan facturas en euros, con una tolerancia de 1 euro
OnlyEuros == [Line([AMOUNT |-> 2], {"euro", "solo"}) EXCEPT !.margin = One]
\* Reunion el viernes para hablar de facturas; not from the sheet of rules
Meeting == [Line(<<>>, {}) EXCEPT !.declared = FALSE, !.deontic = FALSE, !.noise = TRUE, !.length = 6]
MCBooks == << <<Limit(FiveThousand), OnlyEuros>>,
              <<Limit(InCents(FiveThousand)), Limit(Groups(<<3, 0>>, <<".">>))>>,
              <<Havens, Meeting>> >>

TwiceWritten == << <<Limit(FiveThousand), Limit(InCents(FiveThousand))>> >>

Hard == [hard_key |-> {"invoice.number", "supplier.id"}, soft_key |-> {"invoice.total", "invoice.issue_date"},
         require_erp_pending |-> TRUE, soft_duplicate_verdict |-> "NEEDS_REVIEW"]
Balanced == [
    enabled |-> [f \in Canonicals |-> f # "AUTHORIZATION"],
    onFail  |-> [f \in Canonicals |-> IF f = "DUPLICATES" THEN "NO_PAGAR" ELSE "ESCALAR"],
    params  |-> [f \in Canonicals |->
        CASE f = "VENDOR"     -> [require_active |-> FALSE, require_nif_in_master |-> TRUE,
                                  require_iban_match |-> TRUE, check_nif_control_digit |-> FALSE]
          [] f = "DUPLICATES" -> Hard
          [] f = "AMOUNT"     -> [tolerance_eur |-> 1, check_line_items_sum |-> TRUE, check_iva |-> TRUE,
                                  check_total_is_base_plus_iva |-> TRUE, check_matches_pedido |-> TRUE,
                                  allowed_currencies |-> {"EUR"}, order_currency_policy |-> "invoice"]
          [] f = "AUTHORIZATION" -> [escalate_above_eur |-> 1000000]
          [] f = "DATES"      -> [allow_future |-> FALSE, enforce_payment_terms |-> FALSE]
          [] f = "MISSING"    -> [required_fields |-> {"nif", "iban", "pedido", "importe", "iva", "fecha"}]],
    sheetParams |-> TRUE, enableNew |-> TRUE]
Conservative == [Balanced EXCEPT
    !.enabled["AUTHORIZATION"] = TRUE, !.params["AUTHORIZATION"] = [escalate_above_eur |-> 2500000],
    !.params["VENDOR"].require_active = TRUE, !.sheetParams = FALSE, !.enableNew = FALSE]
MCProfiles == [balanced |-> Balanced, conservative |-> Conservative]

Answer(label, sure, isRule) == [label |-> label, sure |-> sure, isRule |-> isRule]
MCJevAnswers == {NULL, Answer("NONE", TRUE, "likely"), Answer("AUTHORIZATION", TRUE, "likely"),
                 Answer("VENDOR", FALSE, "unsure")}
Deep(label, sure, isRule, evidence) ==
    [label |-> label, sure |-> sure, isRule |-> isRule, evidence |-> evidence]
MCDeepAnswers == {NULL, Deep("AMOUNT", TRUE, "likely", "quoted"), Deep("VENDOR", TRUE, "likely", "invented"),
                  Deep("NONE", FALSE, "unlikely", "quoted")}
MCDrafts == {NULL,
    Draft(<<[field |-> "invoice.total", op |-> "<=", value |-> Value("number", 5000)],
            [field |-> "iban", op |-> "==", value |-> Value("field", "supplier.iban")]>>, "NO_PAGAR"),
    Draft(<<[field |-> "invoice.currency", op |-> ">=", value |-> Value("word", "EUR")]>>, "ESCALAR"),
    Draft(<<[field |-> "supplier.city", op |-> "not_in", value |-> Value("word", "Lorca")]>>, "MAYBE")}
================================================================================
