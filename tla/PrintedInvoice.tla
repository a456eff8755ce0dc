----------------------------- MODULE PrintedInvoice -----------------------------
(***************************************************************************)
(* From printed lines to the fields of an invoice, without a model:          *)
(* ingestion/deterministic.py reads the text layer of a PDF line by line,    *)
(* ingestion/normalization.py reads single values, and                       *)
(* ingestion/validation.py says whether an interpretation, of this reader or  *)
(* of a model, is complete enough not to be reviewed by a person.            *)
(*                                                                         *)
(* A reading is a sequence of lines. A line is what the regular expressions   *)
(* find in it:                                                               *)
(*   opens     the label it opens with, or NULL;                             *)
(*   fecha, iva, cliente, doctype   whether it holds that word or label;     *)
(*   dates     the dates behind the date label, in order;                    *)
(*   numbers   the numbers behind its label, [w, rate]: rate if a % follows; *)
(*   token     what follows the invoice-number label, or NULL if it has no   *)
(*             digit or is a date or a plain number;                         *)
(*   orders, ibans, taxes, coins    purchase orders, labelled IBANs and tax  *)
(*             identifiers, currencies; shape: an identifier without label;  *)
(*   name      [v, legal]: the name behind a party label, or the whole line  *)
(*             when plain (no colon, no digit), and whether its legal form   *)
(*             shows;                                                        *)
(*   item      [quantity, amount] when it ends in an amount, or NULL;        *)
(*   uncertain the reader was not sure of its text;                          *)
(*   says      what the line means, which only a model is asked about.       *)
(***************************************************************************)
EXTENDS Integers, Sequences, FiniteSets, SequencesExt

CONSTANT NULL

BASE_LABELS  == <<"base imponible", "importe base", "subtotal", "base">>
TOTAL_LABELS == <<"total a pagar", "importe total", "total factura", "total">>
VatLabels    == {"cuota iva", "iva"}

\* A label also opens the lines of the longer labels that begin with it.
OpenLabel(line, label) ==
    \/ line.opens = label
    \/ label = "base" /\ line.opens = "base imponible"
    \/ label = "total" /\ line.opens \in {"total a pagar", "total factura"}

----------------------------------------------------------------------------
(* Written numbers: groups of digits and the separators between them, so that *)
(* "1.250,00" is [groups |-> <<1, 250, 0>>, lens |-> <<1, 3, 2>>,             *)
(* seps |-> <<".", ",">>]. A value is a number of thousandths: a group behind   *)
(* a separator has at most three digits here.                                *)

WrittenNumbers ==
    {w \in [groups : Seq(Nat), lens : Seq(Nat), seps : Seq({".", ","})] :
        /\ Len(w.groups) = Len(w.seps) + 1 /\ Len(w.lens) = Len(w.groups)
        /\ \A i \in 2 .. Len(w.lens) : w.lens[i] \in 1 .. 3}

Tens == <<10, 100, 1000>>
Joined(w, n) ==
    LET joined[i \in DOMAIN w.groups] ==
            IF i = 1 THEN w.groups[1] ELSE joined[i - 1] * Tens[w.lens[i]] + w.groups[i]
    IN  joined[n]
Whole(w)     == 1000 * Joined(w, Len(w.groups))
Fractional(w) ==
    LET n == Len(w.groups)
    IN  1000 * Joined(w, n - 1) + w.groups[n] * (1000 \div Tens[w.lens[n]])

\* _amount: the last separator is decimal when one or two digits follow it.
\* Mutant: it is always decimal.
AmountLastDecimal(w) == IF w.seps # <<>> THEN Fractional(w) ELSE Whole(w)
Amount(w) ==
    IF w.seps # <<>> /\ Last(w.lens) \in {1, 2} THEN Fractional(w) ELSE Whole(w)

\* normalize_decimal: two kinds of separator, or a comma, or a single dot, are decimal.
NormalizeDecimal(w) ==
    LET places(sep) == {i \in DOMAIN w.seps : w.seps[i] = sep}
        decimal == IF places(",") # {} /\ places(".") # {} THEN places(Last(w.seps)) ELSE DOMAIN w.seps
    IN  IF w.seps = <<>> THEN Whole(w)
        ELSE IF Cardinality(decimal) = 1 THEN Fractional(w)
        ELSE IF places(",") = {} /\ \A i \in 2 .. Len(w.lens) : w.lens[i] = 3 THEN Whole(w)
        ELSE NULL

\* How a value is printed by format(value, "f") without trailing zeros.
Printed(v) ==
    LET frac == v % 1000
        size == IF frac % 100 = 0 THEN 1 ELSE IF frac % 10 = 0 THEN 2 ELSE 3
    IN  IF frac = 0 THEN [groups |-> <<v \div 1000>>, lens |-> <<4>>, seps |-> <<>>]
        ELSE [groups |-> <<v \div 1000, frac \div (1000 \div Tens[size])>>, lens |-> <<4, size>>, seps |-> <<".">>]

----------------------------------------------------------------------------
(* Written dates, [order, a, b, year]: 03/04/2026 is dmy, 2026-04-03 is ymd,   *)
(* "3 de abril de 2026" is long. A date is <<year, month, day>>.              *)

WrittenDates == [order : {"dmy", "ymd", "long"}, a : Nat, b : Nat, year : Nat]
ASSUME NullAssumption == NULL \notin WrittenDates
Calendar(year, month, day) ==
    IF month \in 1 .. 12 /\ day \in 1 .. 31 THEN <<year, month, day>> ELSE NULL
DayFirst(d) == Calendar(d.year, d.b, d.a)

\* _first_date: day first, the first that exists.
FirstDate(dates) ==
    LET real == {i \in DOMAIN dates : DayFirst(dates[i]) # NULL}
    IN  IF real = {} THEN NULL ELSE DayFirst(dates[Min(real)])

\* normalize_date: a numeric date is read only when one order is possible.
NormalizeDate(d) ==
    IF d.order # "dmy" THEN DayFirst(d)
    ELSE IF d.a > 12 /\ d.b <= 12 THEN Calendar(d.year, d.b, d.a)
    ELSE IF d.b > 12 /\ d.a <= 12 THEN Calendar(d.year, d.a, d.b)
    ELSE NULL
IsoDate(date) == [order |-> "ymd", a |-> date[3], b |-> date[2], year |-> date[1]]

----------------------------------------------------------------------------
(* A line, as its recognisers leave it; what an item of it costs is printed in it. *)

IsLine(l) ==
    /\ DOMAIN l = {"opens", "fecha", "iva", "cliente", "doctype", "dates", "numbers", "token", "orders",
                   "ibans", "taxes", "coins", "shape", "name", "plain", "item", "uncertain", "says"}
    /\ IsFiniteSet(l.orders) /\ IsFiniteSet(l.ibans) /\ IsFiniteSet(l.coins)
    /\ l.taxes \in Seq(Range(l.taxes)) /\ l.dates \in Seq(WrittenDates)
    /\ l.numbers \in Seq([w : WrittenNumbers, rate : BOOLEAN])
IsPrinted(l) ==
    IsLine(l) /\ (l.item # NULL => \E n \in Range(l.numbers) : n.w = l.item.amount /\ ~n.rate)

----------------------------------------------------------------------------
(* The fields, each with the lines its evidence links to.                     *)

Field(v, at) == [v |-> v, at |-> at]
Gap          == Field(NULL, {})

\* The first line that has a value.
FirstValue(lines, Value(_)) ==
    LET having == {i \in DOMAIN lines : Value(lines[i]) # NULL}
    IN  IF having = {} THEN Gap ELSE Field(Value(lines[Min(having)]), {Min(having)})

Distinct(lines, Values(_)) == UNION {Values(lines[i]) : i \in DOMAIN lines}

\* The only value in the document, or none.
OnlyValue(lines, Values(_)) ==
    LET all == Distinct(lines, Values)
    IN  IF Cardinality(all) # 1 THEN Gap
        ELSE FirstValue(lines, LAMBDA l : IF Values(l) = {} THEN NULL ELSE CHOOSE v \in all : TRUE)

FirstAmount(numbers) ==
    LET amounts == {i \in DOMAIN numbers : ~numbers[i].rate}
    IN  IF amounts = {} THEN NULL ELSE Amount(numbers[Min(amounts)].w)
FirstRate(numbers) ==
    LET rates == {i \in DOMAIN numbers : numbers[i].rate}
    IN  IF rates = {} THEN NULL ELSE Whole(numbers[Min(rates)].w)

\* Labels are tried from the most specific to the least.
LabelValue(lines, labels) ==
    LET Of(label) == FirstValue(lines, LAMBDA l : IF OpenLabel(l, label) THEN FirstAmount(l.numbers) ELSE NULL)
        found     == {n \in DOMAIN labels : Of(labels[n]) # Gap}
    IN  IF found = {} THEN Gap ELSE Of(labels[Min(found)])

CustomerName(lines) ==
    FirstValue(lines, LAMBDA l : IF l.opens = "cliente" /\ l.name # NULL THEN l.name.v ELSE NULL)
CustomerTax(lines) ==
    FirstValue(lines, LAMBDA l : IF l.opens = "cliente" /\ l.taxes # <<>> THEN Head(l.taxes) ELSE NULL)

\* Mutant: the customer's identifier, printed again elsewhere, is taken for the supplier's.
SupplierTaxesOf(lines, line) == IF line.opens = "cliente" \/ line.cliente THEN {} ELSE ToSet(line.taxes)
SupplierTaxes(lines, line) ==
    IF line.opens = "cliente" \/ line.cliente THEN {}
    ELSE ToSet(line.taxes) \ {CustomerTax(lines).v}

SupplierName(lines) ==
    LET issuers == {i \in DOMAIN lines : lines[i].opens = "emisor"}
        named   == IF issuers # {} /\ lines[Min(issuers)].name # NULL
                   THEN Field(lines[Min(issuers)].name, {Min(issuers)})
                   ELSE FirstValue(lines, LAMBDA l : IF l.plain THEN l.name ELSE NULL)
    IN  IF named.v # NULL /\ named.v.legal THEN Field(named.v.v, named.at) ELSE Gap

Structural(line) ==
    \/ line.opens \in {"cliente", "concepto", "emisor", "factura"} \/ line.fecha
    \/ line.orders # {} \/ line.ibans # {} \/ line.shape
TotalsBoundary(line) ==
    line.opens \in ToSet(BASE_LABELS) \union ToSet(TOTAL_LABELS) \union VatLabels

\* The items stand after the last header line and before the first total.
ItemLines(lines) ==
    LET header == {0} \union {i \in DOMAIN lines : Structural(lines[i])}
        start  == Max(header)
        totals == {Len(lines) + 1} \union {i \in DOMAIN lines : i > start /\ TotalsBoundary(lines[i])}
    IN  {i \in DOMAIN lines : start < i /\ i < Min(totals) /\ lines[i].item # NULL}
\* The rows, by the line they stand in.
Rows(lines) ==
    [i \in ItemLines(lines) |-> [amount |-> Field(Amount(lines[i].item.amount), {i}),
                                 quantity |-> Field(lines[i].item.quantity, {i})]]

TaxRow(lines) ==
    LET amount == FirstValue(lines, LAMBDA l : IF l.iva THEN FirstAmount(l.numbers) ELSE NULL)
    IN  IF amount = Gap THEN <<>>
        ELSE LET i == CHOOSE i \in amount.at : TRUE
             IN  <<[amount |-> amount, rate |-> Field(FirstRate(lines[i].numbers), {i})]>>

\* The whole of extract. An issue is the name of the field it is about.
Extract(lines) ==
    [document_type |-> FirstValue(lines, LAMBDA l : IF l.doctype THEN "invoice" ELSE NULL),
     invoice_number |-> FirstValue(lines, LAMBDA l : IF l.opens = "factura" THEN l.token ELSE NULL),
     issue_date |-> FirstValue(lines, LAMBDA l : IF l.fecha THEN FirstDate(l.dates) ELSE NULL),
     order_reference |-> OnlyValue(lines, LAMBDA l : l.orders),
     iban |-> OnlyValue(lines, LAMBDA l : l.ibans),
     currency |-> OnlyValue(lines, LAMBDA l : l.coins),
     supplier_name |-> SupplierName(lines),
     supplier_tax |-> OnlyValue(lines, LAMBDA l : SupplierTaxes(lines, l)),
     customer_name |-> CustomerName(lines), customer_tax |-> CustomerTax(lines),
     taxable_base |-> LabelValue(lines, BASE_LABELS), total |-> LabelValue(lines, TOTAL_LABELS),
     rows |-> Rows(lines), taxes |-> TaxRow(lines), issues |-> {}]

Gaps(lines, invoice) ==
    {f \in {"document_type", "issue_date"} : invoice[f].v = NULL}
    \union {f \in {"taxes"} : invoice.taxes = <<>>}
    \union {f \in {"order_reference"} : Cardinality(Distinct(lines, LAMBDA l : l.orders)) > 1}
    \union {f \in {"iban"} : Cardinality(Distinct(lines, LAMBDA l : l.ibans)) > 1}
    \union {f \in {"currency"} : Cardinality(Distinct(lines, LAMBDA l : l.coins)) > 1}
    \union {f \in {"supplier_tax"} : Cardinality(Distinct(lines, LAMBDA l : SupplierTaxes(lines, l))) > 1}
    \union {f \in {"supplier_name"} : invoice[f].v = NULL}

----------------------------------------------------------------------------
(* normalize_invoice: what cannot be read for certain becomes null and an issue. *)

Scalars == {"document_type", "invoice_number", "issue_date", "order_reference", "iban", "currency",
            "supplier_name", "supplier_tax", "customer_name", "customer_tax", "taxable_base", "total"}

Reread(field, Read(_)) == IF field.v = NULL THEN field ELSE [field EXCEPT !.v = Read(field.v)]
RereadRow(row) == [f \in DOMAIN row |-> IF f = "amount" THEN Reread(row.amount, NormalizeDecimal) ELSE row[f]]
NormalizeInvoice(raw) ==
    LET normal == [raw EXCEPT !.issue_date = Reread(@, NormalizeDate),
                              !.taxable_base = Reread(@, NormalizeDecimal),
                              !.total = Reread(@, NormalizeDecimal),
                              !.rows = [i \in DOMAIN @ |-> RereadRow(@[i])],
                              !.taxes = [i \in DOMAIN @ |-> RereadRow(@[i])]]
    IN  [normal EXCEPT !.issues = @
            \union {f \in Scalars : raw[f].v # NULL /\ normal[f].v = NULL}
            \union {f \in {"rows"} : \E i \in DOMAIN raw.rows :
                        raw.rows[i].amount.v # NULL /\ normal.rows[i].amount.v = NULL}
            \union {f \in {"taxes"} : \E i \in DOMAIN raw.taxes :
                        raw.taxes[i].amount.v # NULL /\ normal.taxes[i].amount.v = NULL}]

\* The deterministic reader hands over strings it wrote itself.
WriteRow(row) == [f \in DOMAIN row |-> IF f = "amount" THEN Reread(row.amount, Printed) ELSE row[f]]
Written(invoice) ==
    [invoice EXCEPT !.issue_date = Reread(@, IsoDate), !.taxable_base = Reread(@, Printed),
                    !.total = Reread(@, Printed), !.rows = [i \in DOMAIN @ |-> WriteRow(@[i])],
                    !.taxes = [i \in DOMAIN @ |-> WriteRow(@[i])]]

----------------------------------------------------------------------------
(* validate_interpretation: the checks that fail.                            *)

SomeLeaf(invoice, Bad(_)) ==
    \/ \E f \in Scalars : Bad(invoice[f])
    \/ \E part \in {"rows", "taxes"} : \E i \in DOMAIN invoice[part] :
          \E f \in DOMAIN invoice[part][i] : Bad(invoice[part][i][f])
ValidLink(field, lines) == field.at # {} /\ field.at \subseteq DOMAIN lines

Codes == {"EUR", "USD"}
Failing(invoice, lines) ==
    {c \in {"evidence_references"} : SomeLeaf(invoice, LAMBDA f : f.at # {} /\ ~ValidLink(f, lines))}
    \union {c \in {"factual_leaves_linked"} : SomeLeaf(invoice, LAMBDA f : f.v # NULL /\ ~ValidLink(f, lines))}
    \union {c \in {"source_uncertainty_clear"} : \E i \in DOMAIN lines : lines[i].uncertain}
    \union {c \in {"invoice_issues_clear"} : invoice.issues # {}}
    \union {c \in {"invoice_identity_present"} :
              \/ invoice.document_type.v \notin {"invoice", "credit_note"}
              \/ invoice.invoice_number.v = NULL \/ invoice.supplier_name.v = NULL}
    \union {c \in {"currency_code_shape"} : invoice.currency.v \notin Codes \union {NULL}}
    \union {c \in {"invoice_total_present"} : invoice.total.v = NULL}
    \union {c \in {"invoice_lines_present"} :
              invoice.rows = <<>> \/ \E i \in DOMAIN invoice.rows : invoice.rows[i].amount.v = NULL}
Status(invoice, lines) == IF Failing(invoice, lines) = {} THEN "completed" ELSE "needs_review"

----------------------------------------------------------------------------
(* accept: the gate that decides whether a vision model is needed.            *)

GATE_POINTERS == {"invoice_number", "issue_date", "order_reference", "supplier_name", "supplier_tax",
                  "iban", "taxable_base", "total"}
Reasons(invoice, lines) ==
    {f \in GATE_POINTERS : invoice[f].v = NULL}
    \union {f \in {"taxes"} : invoice.taxes = <<>> \/ invoice.taxes[1].amount.v = NULL}
    \union {f \in {"rows"} : invoice.rows = <<>>}
    \union Failing(invoice, lines)
Accept(invoice, lines) == Reasons(invoice, lines) = {}
=================================================================================
