------------------------------ MODULE InvoiceFacts ------------------------------
(***************************************************************************)
(* What the system knows about one invoice when it decides: the facts that  *)
(* rules_ingestion/decision_context.py resolves from the interpreted        *)
(* invoice and from the captured snapshots of the supplier and order        *)
(* masters, the ERP and the three histories, and what                       *)
(* rules_ingestion/execution_context.py adds to them before the rules run.  *)
(*                                                                         *)
(* An input is a function from parts to values, so that a test of the       *)
(* module can change one part at a time:                                    *)
(*   "invoice.number", ...   a printed value and its link to the reading;   *)
(*   "lines", "taxes"        sequences of the same;                         *)
(*   "issues"                the interpreter's own doubts, by JSON pointer;  *)
(*   "reading", "evidence"   whether the two documents were acquired;       *)
(*   "suppliers", "orders", "erp", "processed", "approved", "paid"          *)
(*                           the snapshots;  "rules", "today".              *)
(* Only blocking findings are kept: the informative ones decide nothing.    *)
(***************************************************************************)
EXTENDS Integers, Sequences, FiniteSets, SequencesExt

CONSTANTS
    NULL,       \* JSON null, or an absent key
    BAD,        \* a value of the wrong shape: not a date, not a decimal, not an object
    Spelling    \* the spellings that norm_text, norm_nif and norm_iban fold, and into what

TextFields  == {"invoice.number", "invoice.supplier_tax_id", "invoice.iban",
                "invoice.order_reference"}
InvoiceScalars == TextFields \union
    {"invoice.issue_date", "invoice.currency", "invoice.taxable_base", "invoice.total"}
SupplierFields == {"supplier.id", "supplier.tax_id", "supplier.iban", "supplier.city",
                   "supplier.active", "supplier.payment_terms_days"}
OrderFields    == {"order.id", "order.supplier_id", "order.total", "order.currency"}
Histories      == {"processed", "approved", "paid"}
HistoryField   == [h \in Histories |->
                     CASE h = "processed" -> "history.processed_matches"
                       [] h = "approved"  -> "history.approved_matches"
                       [] h = "paid"      -> "history.paid_matches"]

PointerOf == [f \in InvoiceScalars |->
    CASE f = "invoice.number"          -> <<"invoice_number">>
      [] f = "invoice.supplier_tax_id" -> <<"supplier", "tax_id">>
      [] f = "invoice.iban"            -> <<"payment", "iban">>
      [] f = "invoice.order_reference" -> <<"purchase_order_reference">>
      [] f = "invoice.issue_date"      -> <<"issue_date">>
      [] f = "invoice.currency"        -> <<"currency">>
      [] f = "invoice.taxable_base"    -> <<"totals", "taxable_base">>
      [] f = "invoice.total"           -> <<"totals", "total">>]

\* The element of a one-element set: The({F(x) : x \in {e}}) is F of e, computed once.
The(S) == CHOOSE x \in S : TRUE

Normal(text) == IF text \in DOMAIN Spelling THEN Spelling[text] ELSE text

----------------------------------------------------------------------------
(* Facts, their quality and their lineage.                                  *)

QualityRank == [not_applicable |-> 0, no_reported_issue |-> 1, unlinked |-> 2, uncertain |-> 3]
Worst(qs)   == CHOOSE q \in qs : \A r \in qs : QualityRank[r] <= QualityRank[q]

\* weak: the fact rests on a printed value whose evidence link does not hold.
Fact(value, state, quality, from) ==
    [value |-> value, state |-> state, quality |-> quality, from |-> from, weak |-> FALSE]
Derived(value, state, from) == Fact(value, state, "not_applicable", from)

Present(fact) == fact.state = "present"
Usable(fact)  == Present(fact) /\ fact.quality \notin {"uncertain", "unlinked"}

Lineage(fields, f) ==
    {f} \union fields[f].from \union UNION {fields[g].from : g \in fields[f].from}
PropagateQuality(fields) ==
    [f \in DOMAIN fields |->
        [fields[f] EXCEPT !.quality = Worst({fields[g].quality : g \in Lineage(fields, f)})]]

----------------------------------------------------------------------------
(* The printed invoice. A scalar is [raw, link]; link tells how the reading   *)
(* backs it: "good", "uncertain" (a block with uncertainties), "broken" (a    *)
(* reference that does not exist), "background", or "none".                   *)

Overlap(p, q) == IsPrefix(p, q) \/ IsPrefix(q, p)

\* The issue at the root pointer reaches every value; it relates to none.
IssueState(in, pointer) ==
    LET hits == {i \in DOMAIN in["issues"] : Overlap(in["issues"][i].field, pointer)}
        first == CHOOSE i \in hits : \A j \in hits : i <= j
    IN  IF hits = {} THEN NULL
        ELSE IF in["issues"][first].kind = "unreadable" THEN "missing" ELSE "ambiguous"
IssueRelated(in, pointer) ==
    \E i \in DOMAIN in["issues"] :
        in["issues"][i].field # <<>> /\ Overlap(in["issues"][i].field, pointer)

LinkedQuality(in, pointer, link) ==
    IF IssueRelated(in, pointer)                              THEN "uncertain"
    ELSE IF link = "none" \/ ~in["evidence"]                  THEN "unlinked"
    ELSE IF link = "uncertain" /\ in["reading"]               THEN "uncertain"
    ELSE "no_reported_issue"

GoodLink(in, link) ==
    in["reading"] /\ in["evidence"] /\ link \in {"good", "uncertain"}

InvoiceScalar(in, pointer, scalar, isText) ==
    LET issue   == IssueState(in, pointer)
        quality == LinkedQuality(in, pointer, scalar.link)
        weak    == scalar.raw # NULL /\ ~GoodLink(in, scalar.link)
        fact    == IF issue # NULL        THEN Fact(NULL, issue, "uncertain", {})
                   ELSE IF scalar.raw = NULL
                        THEN Fact(NULL, "missing", "no_reported_issue", {})
                   ELSE IF scalar.raw = BAD THEN Fact(NULL, "invalid", quality, {})
                   ELSE Fact(IF isText THEN Normal(scalar.raw) ELSE scalar.raw,
                             "present", quality, {})
    IN  [fact EXCEPT !.weak = weak]

TaxKind(in, pointer, label) ==
    LET issue == IssueState(in, pointer)
        fact  == IF issue # NULL THEN Fact(NULL, issue, "uncertain", {})
                 ELSE Fact(label.raw, "present", LinkedQuality(in, pointer, label.link), {})
    IN  [fact EXCEPT !.weak = ~GoodLink(in, label.link)]

LineFacts(in) == [i \in DOMAIN in["lines"] |->
    InvoiceScalar(in, <<"lines", i, "amount">>, in["lines"][i], FALSE)]
TaxFacts(in) == [i \in DOMAIN in["taxes"] |->
    [kind   |-> TaxKind(in, <<"taxes", i, "label">>, in["taxes"][i].label),
     amount |-> InvoiceScalar(in, <<"taxes", i, "amount">>, in["taxes"][i].amount, FALSE),
     rate   |-> InvoiceScalar(in, <<"taxes", i, "rate_percent">>, in["taxes"][i].rate, FALSE)]]

\* A fact computed from several printed values is as good as the worst of them.
Combined(value, state, own, qualities, weak) ==
    [Fact(value, state, Worst({own} \union qualities), {}) EXCEPT !.weak = weak]

LineAmounts(lines) ==
    LET states == {lines[i].state : i \in DOMAIN lines}
        state  == IF lines = <<>> THEN "missing"
                  ELSE IF "invalid" \in states THEN "invalid"
                  ELSE IF states # {"present"} THEN "missing" ELSE "present"
        clean  == \A i \in DOMAIN lines : lines[i].quality = "no_reported_issue"
    IN  Combined(IF state = "present" THEN [i \in DOMAIN lines |-> lines[i].value] ELSE NULL,
                 state,
                 IF state # "present" THEN "not_applicable"
                 ELSE IF clean THEN "no_reported_issue" ELSE "uncertain",
                 {lines[i].quality : i \in DOMAIN lines},
                 \E i \in DOMAIN lines : lines[i].weak)

SumOf(numbers) == FoldSeq(LAMBDA a, b : a + b, 0, numbers)

VatAmount(taxes) ==
    LET kinds  == {IF taxes[i].kind.value = NULL THEN "unknown" ELSE taxes[i].kind.value :
                     i \in DOMAIN taxes}
        states == {taxes[i].amount.state : i \in DOMAIN taxes}
        vat    == SelectSeq(taxes, LAMBDA t : t.kind.value = "vat")
        state  == IF taxes = <<>> THEN "missing"
                  ELSE IF "unknown" \in kinds THEN "ambiguous"
                  ELSE IF "invalid" \in states THEN "invalid"
                  ELSE IF states # {"present"} \/ vat = <<>> THEN "missing" ELSE "present"
    IN  Combined(IF state = "present"
                 THEN SumOf([i \in DOMAIN vat |-> vat[i].amount.value]) ELSE NULL,
                 state,
                 IF state = "present" THEN "no_reported_issue" ELSE "not_applicable",
                 UNION {{taxes[i].kind.quality, taxes[i].amount.quality} : i \in DOMAIN taxes},
                 \E i \in DOMAIN taxes : taxes[i].kind.weak \/ taxes[i].amount.weak)

DocumentType(in) ==
    [Fact(in["document_type"].raw, "present",
          LinkedQuality(in, <<"document_type">>, in["document_type"].link), {})
        EXCEPT !.weak = ~GoodLink(in, in["document_type"].link)]

PrintedFacts(in) ==
    [f \in InvoiceScalars \union
           {"invoice.document_type", "invoice.line_amounts", "invoice.vat_amount"} |->
        IF f \in InvoiceScalars THEN InvoiceScalar(in, PointerOf[f], in[f], f \in TextFields)
        ELSE IF f = "invoice.document_type" THEN DocumentType(in)
        ELSE IF f = "invoice.line_amounts"  THEN The({LineAmounts(lines) : lines \in {LineFacts(in)}})
        ELSE The({VatAmount(taxes) : taxes \in {TaxFacts(in)}})]

----------------------------------------------------------------------------
(* The masters. A snapshot is [avail, auth, rows]; rows = NULL is a payload   *)
(* without a list of records, and a row may be BAD.                           *)

Missing(snap) == snap.avail \in {"absent", "unavailable"}

\* Why a master cannot be used at all, as the code of the finding it leaves.
MasterBlock(snap, scope, unavailable, malformed) ==
    IF Missing(snap)                    THEN unavailable
    ELSE IF snap.rows = NULL            THEN malformed
    ELSE IF scope \notin snap.auth      THEN "AUTHORITY_NOT_GRANTED"
    ELSE IF snap.avail = "partial"      THEN "INSUFFICIENT_COVERAGE"
    ELSE "NONE"
BlockState(code) == IF code = "INSUFFICIENT_COVERAGE" THEN "ambiguous" ELSE "unavailable"

RowsWhere(snap, Test(_)) == {i \in DOMAIN snap.rows : snap.rows[i] # BAD /\ Test(snap.rows[i])}

\* Mutant: the first candidate wins.
FirstRow(snap, rows) == rows # {}

\* One record, or several that say exactly the same.
OneRow(snap, rows) == rows # {} /\ \A i, j \in rows : snap.rows[i] = snap.rows[j]

MasterField(snap, scope, raw, value, parent) ==
    Derived(IF scope \in snap.auth /\ raw \notin {NULL, BAD} THEN value ELSE NULL,
            IF scope \notin snap.auth THEN "unavailable"
            ELSE IF raw = NULL THEN "missing" ELSE IF raw = BAD THEN "invalid" ELSE "present",
            {parent})

SupplierCandidates(in, tax) ==
    RowsWhere(in["suppliers"], LAMBDA r : r.nif # NULL /\ Normal(r.nif) = tax)
SupplierResolved(in, tax) ==
    LET snap == in["suppliers"]
        rows == SupplierCandidates(in, tax)
        id   == snap.rows[CHOOSE i \in rows : TRUE].id
    IN  /\ OneRow(snap, rows)
        /\ id \notin {NULL, BAD}
        /\ \A i \in RowsWhere(snap, LAMBDA r : r.id = id) :
              snap.rows[i].nif # NULL /\ Normal(snap.rows[i].nif) = tax

SupplierFacts(in, printed) ==
    LET snap  == in["suppliers"]
        tax   == printed["invoice.supplier_tax_id"]
        block == MasterBlock(snap, "supplier.identity",
                             "SUPPLIER_MASTER_UNAVAILABLE", "SUPPLIER_MASTER_MALFORMED")
        state == IF block # "NONE" THEN BlockState(block)
                 ELSE IF ~Present(tax) THEN tax.state
                 ELSE IF SupplierResolved(in, tax.value) THEN "present"
                 ELSE IF SupplierCandidates(in, tax.value) = {} THEN "missing" ELSE "ambiguous"
        row   == snap.rows[CHOOSE i \in SupplierCandidates(in, tax.value) : TRUE]
        Column(scope, raw, value) == MasterField(snap, scope, raw, value, "supplier.id")
    IN  [f \in SupplierFields |->
           IF f = "supplier.id"
           THEN Derived(IF state = "present" THEN row.id ELSE NULL, state,
                        {"invoice.supplier_tax_id"})
           ELSE IF state # "present" THEN Derived(NULL, "unavailable", {"supplier.id"})
           ELSE CASE f = "supplier.tax_id" -> Column("supplier.identity", row.nif, Normal(row.nif))
                  [] f = "supplier.iban"   -> Column("supplier.bank_details", row.iban, Normal(row.iban))
                  [] f = "supplier.city"   -> Column("supplier.identity", row.city, Normal(row.city))
                  [] f = "supplier.active" -> Column("supplier.active", row.active, row.active)
                  [] OTHER                 -> Column("supplier.payment_terms", row.terms, row.terms)]

SupplierFindings(in, facts) ==
    LET snap  == in["suppliers"]
        block == MasterBlock(snap, "supplier.identity",
                             "SUPPLIER_MASTER_UNAVAILABLE", "SUPPLIER_MASTER_MALFORMED")
        tax   == facts["invoice.supplier_tax_id"]
    IN  IF block # "NONE" THEN IF snap.avail = "absent" THEN {} ELSE {block}
        ELSE IF Present(tax) /\ facts["supplier.id"].state = "ambiguous"
             THEN {"SUPPLIER_IDENTITY_AMBIGUOUS"} ELSE {}

OrderCandidates(in, ref) ==
    RowsWhere(in["orders"], LAMBDA r : r.pedido # NULL /\ Normal(r.pedido) = ref)

OrderFacts(in, printed) ==
    LET snap  == in["orders"]
        ref   == printed["invoice.order_reference"]
        block == MasterBlock(snap, "order.identity",
                             "ORDER_MASTER_UNAVAILABLE", "ORDER_MASTER_MALFORMED")
        rows  == OrderCandidates(in, ref.value)
        state == IF block # "NONE" THEN BlockState(block)
                 ELSE IF ~Present(ref) THEN ref.state
                 ELSE IF OneRow(snap, rows) THEN "present"
                 ELSE IF rows = {} THEN "missing" ELSE "ambiguous"
        row   == snap.rows[CHOOSE i \in rows : TRUE]
        Column(scope, raw, value) == MasterField(snap, scope, raw, value, "order.id")
    IN  [f \in OrderFields |->
           IF f = "order.id"
           THEN Derived(IF state = "present" THEN ref.value ELSE NULL, state,
                        {"invoice.order_reference"})
           ELSE IF state # "present" THEN Derived(NULL, "unavailable", {"order.id"})
           ELSE CASE f = "order.supplier_id" -> Column("order.identity", row.owner, Normal(row.owner))
                  [] f = "order.total"       -> Column("order.amount", row.total, row.total)
                  [] OTHER                   -> Column("order.currency", row.currency, row.currency)]

OrderFindings(in, facts) ==
    LET snap   == in["orders"]
        block  == MasterBlock(snap, "order.identity",
                              "ORDER_MASTER_UNAVAILABLE", "ORDER_MASTER_MALFORMED")
        owner  == facts["order.supplier_id"].value
        holder == facts["supplier.id"].value
    IN  (IF block # "NONE" THEN IF snap.avail = "absent" THEN {} ELSE {block}
         ELSE IF Present(facts["invoice.order_reference"]) /\ facts["order.id"].state = "ambiguous"
              THEN {"ORDER_IDENTITY_AMBIGUOUS"} ELSE {})
        \union (IF owner # NULL /\ holder # NULL /\ owner # holder
                THEN {"ORDER_SUPPLIER_MISMATCH"} ELSE {})

----------------------------------------------------------------------------
(* The ERP and the histories say something only from a complete snapshot.     *)

Complete(snap) == snap.avail = "available" /\ snap.rows # NULL /\ snap.complete

ErpStates(in, printed) ==
    LET ref  == printed["invoice.order_reference"].value
        rows == RowsWhere(in["erp"], LAMBDA r : r.pedido # NULL /\ Normal(r.pedido) = ref)
    IN  {in["erp"].rows[i].estado : i \in rows}

ErpFact(in, printed) ==
    LET snap   == in["erp"]
        states == ErpStates(in, printed)
        known  == states \intersect {"PENDIENTE", "PAGADA"}
        ref    == {"invoice.order_reference"}
    IN  IF ~Complete(snap) \/ "order.payment_status" \notin snap.auth
        THEN Derived(NULL, "unavailable", {})
        ELSE IF states = {} THEN Derived(NULL, "missing", ref)
        ELSE IF Cardinality(known) # 1 \/ states # known THEN Derived(NULL, "ambiguous", ref)
        ELSE Derived(CHOOSE s \in known : TRUE, "present", ref)

ErpFindings(in, fact) ==
    LET snap == in["erp"]
    IN  IF snap.avail = "absent" THEN {}
        ELSE IF snap.avail # "available" THEN {"ERP_UNAVAILABLE"}
        ELSE IF "order.payment_status" \notin snap.auth THEN {}
        ELSE IF ~Complete(snap) THEN {"ERP_INSUFFICIENT_COVERAGE"}
        ELSE IF fact.state = "ambiguous" THEN {"ERP_STATUS_CONFLICT"} ELSE {}

HistoryKeys == {"invoice.number", "supplier.id", "invoice.total", "invoice.issue_date",
                "invoice.currency"}
OwnSubmission(in, h, row) ==
    h = "processed" /\ row.file = in["file_id"] /\ ~in[h].include
WholeRecord(row) ==
    \A k \in {"number", "supplier", "total", "date", "currency"} : row[k] \notin {NULL, BAD}
HistoryMatches(in, h, facts) ==
    RowsWhere(in[h], LAMBDA r :
        /\ ~OwnSubmission(in, h, r)
        /\ WholeRecord(r)
        /\ \/ r.number = facts["invoice.number"].value /\ r.supplier = facts["supplier.id"].value
           \/ /\ r.total = facts["invoice.total"].value
              /\ r.date = facts["invoice.issue_date"].value
              /\ r.currency = facts["invoice.currency"].value)
HistoryMalformed(in, h) ==
    \E i \in DOMAIN in[h].rows :
        \/ in[h].rows[i] = BAD
        \/ ~OwnSubmission(in, h, in[h].rows[i]) /\ ~WholeRecord(in[h].rows[i])

HistoryAnswers(in, h) ==
    Complete(in[h]) /\ ("history." \o h) \in in[h].auth /\ in[h].kind = h

\* The quality of the keys is read before it has been propagated to them.
HistoryFact(in, h, facts) ==
    LET doubtful  == \E f \in HistoryKeys : facts[f].quality \in {"uncertain", "unlinked"}
        states    == {facts[f].state : f \in HistoryKeys}
        inherited == IF "unavailable" \in states THEN "unavailable"
                     ELSE IF "ambiguous" \in states THEN "ambiguous"
                     ELSE IF "invalid" \in states THEN "invalid" ELSE "missing"
    IN  IF ~HistoryAnswers(in, h) THEN Derived(NULL, "unavailable", HistoryKeys)
        ELSE IF doubtful THEN Derived(NULL, "ambiguous", HistoryKeys)
        ELSE IF states # {"present"} THEN Derived(NULL, inherited, HistoryKeys)
        ELSE IF HistoryMalformed(in, h) THEN Derived(NULL, "ambiguous", HistoryKeys)
        ELSE Derived(HistoryMatches(in, h, facts), "present", HistoryKeys)

HistoryFindings(in, h, facts) ==
    LET snap == in[h]
    IN  IF snap.avail = "absent" THEN {}
        ELSE IF snap.avail # "available" THEN {"HISTORY_UNAVAILABLE"}
        ELSE IF ("history." \o h) \notin snap.auth THEN {}
        ELSE IF ~Complete(snap) THEN {"HISTORY_INSUFFICIENT_COVERAGE"}
        ELSE IF snap.kind # h THEN {"HISTORY_KIND_MISMATCH"}
        ELSE IF \E f \in HistoryKeys : facts[f].quality \in {"uncertain", "unlinked"}
             THEN {"HISTORY_INPUT_UNCERTAIN"}
        ELSE IF (\A f \in HistoryKeys : Present(facts[f])) /\ HistoryMalformed(in, h)
             THEN {"HISTORY_RECORDS_MALFORMED"} ELSE {}

----------------------------------------------------------------------------
(* The alignment: every fact, then the quality of what it was computed from.  *)

WithMasters(in, printed) ==
    The({[f \in DOMAIN printed \union SupplierFields \union OrderFields
                \union {"erp.order_payment_status"} |->
            IF f \in SupplierFields THEN supplier[f]
            ELSE IF f \in OrderFields THEN order[f]
            ELSE IF f = "erp.order_payment_status" THEN ErpFact(in, printed) ELSE printed[f]] :
         supplier \in {SupplierFacts(in, printed)}, order \in {OrderFacts(in, printed)}})
WithHistories(in, facts) ==
    [f \in DOMAIN facts \union {HistoryField[h] : h \in Histories} |->
        IF f \in DOMAIN facts THEN facts[f]
        ELSE HistoryFact(in, CHOOSE h \in Histories : HistoryField[h] = f, facts)]
ResolvedFacts(in) ==
    The({WithHistories(in, facts) : facts \in {WithMasters(in, printed) : printed \in {PrintedFacts(in)}}})
Fields(in) == The({PropagateQuality(facts) : facts \in {ResolvedFacts(in)}})

\* How the values that are printed at all are linked.
LinkOf(scalar)    == IF scalar.raw = NULL THEN {} ELSE {scalar.link}
PrintedLinks(in) ==
    (UNION {LinkOf(in[f]) : f \in InvoiceScalars \union {"document_type"}}) \union
    (UNION {LinkOf(in["lines"][i]) : i \in DOMAIN in["lines"]}) \union
    (UNION {LinkOf(in["taxes"][i][k]) : i \in DOMAIN in["taxes"], k \in {"label", "amount", "rate"}})

\* ingestion/validation.py on the frozen documents: the checks that do not hold.
FailedChecks(in) ==
    LET links == PrintedLinks(in)
    IN  (IF "broken" \in links THEN {"evidence_references"} ELSE {})
        \union (IF links \intersect {"none", "broken"} # {} THEN {"factual_leaves_linked"} ELSE {})
        \union (IF "background" \in links THEN {"foreground_evidence_only"} ELSE {})
        \union (IF "uncertain" \in links THEN {"source_uncertainty_clear", "coverage_accounted"} ELSE {})
        \union (IF in["issues"] # <<>> THEN {"invoice_issues_clear"} ELSE {})
        \union (IF in["document_type"].raw \notin {"invoice", "credit_note"}
                   \/ in["invoice.number"].raw = NULL THEN {"invoice_identity_present"} ELSE {})
        \union (IF in["invoice.currency"].raw = BAD THEN {"currency_code_shape"} ELSE {})
        \union (IF in["invoice.total"].raw = NULL THEN {"invoice_total_present"} ELSE {})
        \union (IF in["lines"] = <<>> \/ \E i \in DOMAIN in["lines"] : in["lines"][i].raw = NULL
                THEN {"invoice_lines_present"} ELSE {})

AcquisitionFindings(in) ==
    (IF in["reading"] THEN {} ELSE {"READING_UNAVAILABLE"})
    \union (IF in["evidence"] THEN {} ELSE {"EVIDENCE_UNAVAILABLE"})
    \union (IF in["reading"] /\ in["evidence"] THEN FailedChecks(in)
            ELSE {"EXTRACTION_CHECKS_UNAVAILABLE"})
    \union (IF in["annotations"] THEN {"UNREVIEWED_ANNOTATION"} ELSE {})
    \union (IF in["document_type"].raw # "invoice" THEN {"DOCUMENT_TYPE_UNSUPPORTED"} ELSE {})

MissingLinks(in, fields) ==
    LET Loose(fact) == Present(fact) /\ fact.quality = "unlinked"
    IN  IF \/ \E f \in DOMAIN fields : Loose(fields[f])
           \/ \E i \in DOMAIN in["lines"] : Loose(LineFacts(in)[i])
           \/ \E i \in DOMAIN in["taxes"] :
                 Loose(TaxFacts(in)[i].kind) \/ Loose(TaxFacts(in)[i].amount)
        THEN {"MISSING_EVIDENCE_LINK"} ELSE {}

\* A finding of one history names it: the evaluator may retire that one.
Finding(code, source) == [code |-> code, source |-> source]
FindingsOf(in, facts, fields) ==
    LET plain == AcquisitionFindings(in) \union SupplierFindings(in, facts)
                 \union OrderFindings(in, facts)
                 \union ErpFindings(in, facts["erp.order_payment_status"])
                 \union MissingLinks(in, fields)
                 \union (IF \E i \in DOMAIN in["rules"] : in["rules"][i].enabled # FALSE
                         THEN {} ELSE {"NO_ENABLED_RULES"})
    IN  {Finding(c, NULL) : c \in plain} \union
        UNION {{Finding(c, h) : c \in HistoryFindings(in, h, facts)} : h \in Histories}
Findings(in) ==
    The({FindingsOf(in, facts, fields) : facts \in {ResolvedFacts(in)}, fields \in {Fields(in)}})

----------------------------------------------------------------------------
(* The second pass (execution_context.py): evidence guards, and what each      *)
(* history establishes.                                                        *)

\* Mutant: a fact is guarded by its own evidence only, not by what led to it.
GuardedDirectly(fields, f) == fields[f].weak

Guarded(fields, f) == \E g \in Lineage(fields, f) : fields[g].weak
ExecutionFields(fields) ==
    [f \in DOMAIN fields |->
        IF Guarded(fields, f) THEN [fields[f] EXCEPT !.quality = "uncertain"] ELSE fields[f]]
ExecutionTaxes(in) ==
    LET Guard(fact) == IF fact.weak THEN [fact EXCEPT !.quality = "uncertain"] ELSE fact
    IN  [i \in DOMAIN in["taxes"] |->
           [k \in {"kind", "amount", "rate"} |-> Guard(TaxFacts(in)[i][k])]]

Known(x) == x \notin {NULL, BAD}
HardReady(fields) == Usable(fields["invoice.number"]) /\ Usable(fields["supplier.id"])
SoftReady(fields) == Usable(fields["invoice.total"]) /\ Usable(fields["invoice.issue_date"])

HardMatch(fields, row) ==
    /\ HardReady(fields)
    /\ Known(row.number) /\ row.number = fields["invoice.number"].value
    /\ Known(row.supplier) /\ row.supplier = fields["supplier.id"].value
\* A currency that only one of the two states does not tell them apart.
SoftMatch(fields, row) ==
    /\ SoftReady(fields)
    /\ Known(row.total) /\ row.total = fields["invoice.total"].value
    /\ Known(row.date) /\ row.date = fields["invoice.issue_date"].value
    /\ \/ row.currency = NULL \/ fields["invoice.currency"].value = NULL
       \/ row.currency = fields["invoice.currency"].value

Differs(fields, f, value) == Known(value) /\ Usable(fields[f]) /\ value # fields[f].value
\* A row that is incomplete, but not about this invoice whatever it lacks.
Accounted(fields, row) ==
    /\ \/ Known(row.number) /\ Known(row.supplier)
       \/ Differs(fields, "invoice.number", row.number)
       \/ Differs(fields, "supplier.id", row.supplier)
    /\ \/ Known(row.total) /\ Known(row.date)
       \/ Differs(fields, "invoice.total", row.total)
       \/ Differs(fields, "invoice.issue_date", row.date)
    /\ row.currency # BAD

HistoryObservation(in, h, fields) ==
    LET snap == in[h]
        told == ~Missing(snap) /\ ("history." \o h) \in snap.auth
                /\ snap.rows # NULL /\ snap.kind = h
        rows == RowsWhere(snap, LAMBDA r : ~OwnSubmission(in, h, r))
        hard == {i \in rows : HardMatch(fields, snap.rows[i])}
        soft == {i \in rows : SoftMatch(fields, snap.rows[i])} \ hard
        whole == /\ snap.avail = "available" /\ snap.complete
                 /\ HardReady(fields) /\ SoftReady(fields)
                 /\ \A i \in DOMAIN snap.rows : snap.rows[i] # BAD
                 /\ \A i \in rows : Accounted(fields, snap.rows[i])
    IN  IF ~told THEN [hard |-> {}, soft |-> {}, coverage |-> "unavailable"]
        ELSE [hard |-> hard, soft |-> soft, coverage |-> IF whole THEN "complete" ELSE "partial"]
=================================================================================
