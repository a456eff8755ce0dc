----------------------------- MODULE MCTextCascade -----------------------------
EXTENDS TextCascade

W(groups, lens, seps) == [groups |-> groups, lens |-> lens, seps |-> seps]
Num(w)  == [w |-> w, rate |-> FALSE]
Rate(n) == [w |-> W(<<n>>, <<2>>, <<>>), rate |-> TRUE]
Date(order, a, b) == [order |-> order, a |-> a, b |-> b, year |-> 2026]
Name(v, legal) == [v |-> v, legal |-> legal]

Blank ==
    [opens |-> NULL, fecha |-> FALSE, iva |-> FALSE, cliente |-> FALSE, doctype |-> FALSE,
     dates |-> <<>>, numbers |-> <<>>, token |-> NULL, orders |-> {}, ibans |-> {}, taxes |-> <<>>,
     coins |-> {}, shape |-> FALSE, name |-> NULL, plain |-> FALSE, item |-> NULL,
     uncertain |-> FALSE, says |-> {}]

\* 100,00  1.250,00  1,250.00  1.250  1.250.000  1.250,000  1.250.00
Hundred     == W(<<100, 0>>, <<3, 2>>, <<",">>)
Spanish     == W(<<1, 250, 0>>, <<1, 3, 2>>, <<".", ",">>)
English     == W(<<1, 250, 0>>, <<1, 3, 2>>, <<",", ".">>)
Grouped     == W(<<1, 250>>, <<1, 3>>, <<".">>)
Million     == W(<<1, 250, 0>>, <<1, 3, 3>>, <<".", ".">>)
Thousandths == W(<<1, 250, 0>>, <<1, 3, 3>>, <<".", ",">>)
TwoDots     == W(<<1, 250, 0>>, <<1, 3, 2>>, <<".", ".">>)

\* FACTURA F-1, 08/01/2026, PO-1
Heading == [Blank EXCEPT !.opens = "factura", !.doctype = TRUE, !.fecha = TRUE, !.token = "F-1",
                         !.dates = <<Date("dmy", 8, 1)>>, !.orders = {"PO-1"},
                         !.says = {"invoice_number", "issue_date", "order_reference"}]
\* Emisor: Levante S.L., NIF B1, IBAN ES1
Issuer  == [Blank EXCEPT !.opens = "emisor", !.name = Name("Levante", TRUE), !.taxes = <<"B1">>,
                         !.ibans = {"ES1"}, !.shape = TRUE,
                         !.says = {"supplier_name", "supplier_tax", "iban"}]
\* Cliente: Banco, CIF A1
Customer == [Blank EXCEPT !.opens = "cliente", !.cliente = TRUE, !.name = Name("Banco", TRUE),
                          !.taxes = <<"A1">>, !.shape = TRUE, !.says = {"customer_name", "customer_tax"}]
Item(w) == [Blank EXCEPT !.item = [quantity |-> NULL, amount |-> w], !.numbers = <<Num(w)>>,
                         !.says = {"line"}]
Base(w)  == [Blank EXCEPT !.opens = "base", !.numbers = <<Num(w)>>, !.coins = {"EUR"}, !.says = {"taxable_base"}]
Vat(w)   == [Blank EXCEPT !.opens = "iva", !.iva = TRUE, !.numbers = <<Rate(21), Num(w)>>, !.says = {"tax"}]
Total(w) == [Blank EXCEPT !.opens = "total", !.numbers = <<Num(w)>>, !.coins = {"EUR"},
                          !.says = {"total", "currency"}]

Sample(w) == <<Heading, Issuer, Customer, Item(w), Base(w), Vat(w), Total(w)>>
LongDate  == [Heading EXCEPT !.dates = <<Date("dmy", 25, 13), Date("long", 25, 1)>>]
\* A footer, an extra identifier, a second currency, a more specific total.
Footer   == [Blank EXCEPT !.plain = TRUE, !.name = Name("Condiciones", FALSE)]
WithTax(t)   == [Footer EXCEPT !.taxes = <<t>>]
WithIban(i)  == [Footer EXCEPT !.ibans = {i}]
WithOrder(o) == [Footer EXCEPT !.orders = {o}]
WithCoin(c)  == [Footer EXCEPT !.coins = {c}]
ToPay(w)     == [Total(w) EXCEPT !.opens = "total a pagar"]

\* For Jev: an invoice whose only line is its total, and one with more lines than MaxCalls allows.
OneLine == [Item(Hundred) EXCEPT !.coins = {"EUR"}, !.numbers = <<Rate(21), Num(Hundred)>>, !.says = {"line", "total", "currency"}]
Spelled == [Heading EXCEPT !.dates = <<Date("long", 25, 1), Date("dmy", 25, 13)>>]
Long    == <<Heading, Issuer, Customer, Item(Hundred), Footer, Total(Hundred)>>

Variants ==
    {Sample(w) : w \in {Hundred, Spanish, English, Grouped, Million, Thousandths, TwoDots}}
    \union {[Sample(Hundred) EXCEPT ![1] = LongDate],
            [Sample(Hundred) EXCEPT ![2].name = Name("Levante", FALSE)],
            [Sample(Hundred) EXCEPT ![2].ibans = {}],
            <<WithTax("A1")>> \o [Sample(Hundred) EXCEPT ![2].taxes = <<>>],
            RemoveAt(Sample(Hundred), 6), RemoveAt(Sample(Hundred), 4),
            <<Footer>> \o [Sample(Hundred) EXCEPT ![2].opens = NULL, ![2].name = NULL],
            Append(Sample(Hundred), ToPay(Spanish)),
            <<Heading, Issuer, Customer, Item(Hundred), Heading, Item(Spanish), Base(Hundred), Vat(Hundred),
              Total(Hundred)>>}
    \union {<<f>> \o Sample(Hundred) : f \in {WithTax("A1"), WithTax("B2"), WithTax("B1"), WithIban("ES1"),
                                               WithIban("ES2"), WithOrder("PO-2"), WithCoin("USD")}}
    \union {Append(Sample(Hundred), f) : f \in {WithTax("A1"), WithCoin("USD")}}

Batch(printed, layer, cascade, interpreter) ==
    [printed |-> printed, layer |-> layer, cascade |-> cascade, interpreter |-> interpreter]
MCBatches ==
    {Batch(d, "text", "on", "deepseek") : d \in Variants}
    \union {Batch(Sample(Hundred), l, c, "deepseek") : l \in {"short", "unreadable"}, c \in {"on", "vision-only"}}
    \union {Batch(<<Spelled, Issuer, Customer, OneLine>>, "text", "vision-only", "jev"),
            Batch(Long, "text", "vision-only", "jev")}
=================================================================================
