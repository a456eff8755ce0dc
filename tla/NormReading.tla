------------------------------- MODULE NormReading -------------------------------
(***************************************************************************)
(* How one line of the written norm is read: which family of rules it is    *)
(* about (rules_ingestion/classify.py), which parameters it states          *)
(* (rules_ingestion/rule_params.py) and, when it belongs to no family,      *)
(* which condition its text compiles to (rules_ingestion/codegen.py and     *)
(* rules_ingestion/condition_authoring.py).                                 *)
(*                                                                         *)
(* A line is what its words carry:                                          *)
(*   declared: it comes from the sheet of rules, not from a scan;           *)
(*   hits: how many words of each family's lexicon it has;  grounded: the   *)
(*   families of which some lexicon word occurs inside it, even in another;  *)
(*   numbered, deontic, noise, domain, length: what the rubric of Noul       *)
(*   counts;  says: the probes of the extractors found in it;                *)
(*   above: the amount written after wording such as "superior a", margin:   *)
(*   after "tolerancia", days: before "dias"; each NULL when there is none.  *)
(* A written amount is <<parts, seps>>: groups of digits [value, len] and     *)
(* the separators after them; a last separator without digits ends a         *)
(* sentence.                                                                 *)
(***************************************************************************)
EXTENDS RuleExecution

Labels == Canonicals \union {"NONE"}
Has(line, words) == line.says \intersect words # {}

----------------------------------------------------------------------------
(* Amounts as written. What is read keeps its cents and how many decimals     *)
(* the text had: the canonical texts of 5.000 and 5.000,00 differ.             *)

Positions(n, sep) == {i \in DOMAIN n.seps : n.seps[i] = sep}
Thousands(n) ==
    /\ n.seps # <<>> /\ Positions(n, ",") = {} /\ Len(n.seps) < Len(n.parts)
    /\ n.parts[1].len \in 1 .. 3
    /\ \A i \in 2 .. Len(n.parts) : n.parts[i].len = 3

\* The separator read as the decimal one: the last kind, if it occurs once.
Point(n) ==
    LET last == n.seps[Len(n.seps)]
    IN  IF n.seps = <<>> \/ Thousands(n) THEN 0
        ELSE IF Cardinality(Positions(n, last)) = 1 THEN Len(n.seps) ELSE BAD

Joined(parts) == FoldLeft(LAMBDA acc, p : acc * 10 ^ p.len + p.value, 0, parts)
DecimalText(n) ==
    LET at    == Point(n)
        whole == IF at = 0 THEN n.parts ELSE SubSeq(n.parts, 1, at)
        tail  == IF at = 0 \/ at = Len(n.parts) THEN [value |-> 0, len |-> 0]
                 ELSE n.parts[at + 1]
    IN  IF at = BAD THEN BAD
        ELSE [cents  |-> Joined(whole) * 100 + (tail.value * 100) \div 10 ^ tail.len,
              places |-> tail.len]

----------------------------------------------------------------------------
(* Which rule a line is about. The lexical tier, offline and deterministic.    *)

\* The logit of Noul, in hundredths; 0.60 and 0.40 are the logits 0.41 and -0.41.
Noul(line) ==
    LET When(condition, weight) == IF condition THEN weight ELSE 0
    IN  -120 + When(line.numbered, 200) + When(line.deontic, 140)
        + When(line.domain > 0, 100 + 45 * (IF line.domain > 4 THEN 3 ELSE line.domain - 1))
        + When(line.length >= 8, 30) + When(line.noise, -220)
        + When(line.length < 5 /\ line.domain = 0, -100)
        + When(line.domain > 0 /\ ~line.deontic /\ ~line.numbered, -80)
IsRule(line) ==
    IF Noul(line) > 40 THEN "likely" ELSE IF Noul(line) >= -40 THEN "unsure" ELSE "unlikely"

Precedence == <<"VENDOR", "DUPLICATES", "AUTHORIZATION", "DATES", "AMOUNT", "MISSING">>
Before(f, g) == \E i, j \in DOMAIN Precedence : i <= j /\ Precedence[i] = f /\ Precedence[j] = g

VendorOverMissing == {"coincide", "coincida", "maestro", "fraude", "titular", "banco", "activo"}
MapsTo(line) ==
    LET scored == {f \in Canonicals : line.hits[f] > 0}
        near   == {f \in scored : \A g \in scored : 10 * line.hits[f] >= 9 * line.hits[g]}
    IN  IF scored = {} THEN "NONE"
        ELSE IF {"AUTHORIZATION", "AMOUNT"} \subseteq scored THEN "AUTHORIZATION"
        ELSE IF {"VENDOR", "MISSING"} \subseteq scored /\ Has(line, VendorOverMissing)
        THEN "VENDOR"
        ELSE CHOOSE f \in near : \A g \in near : Before(f, g)

\* confidence >= 0.6 against every rival
LexicallySure(line) ==
    LET label == MapsTo(line)
    IN  label # "NONE" /\ \A f \in Canonicals \ {label} : 4 * line.hits[label] >= 6 * line.hits[f]
LexicalAnswer(line) ==
    [label |-> MapsTo(line), sure |-> LexicallySure(line), isRule |-> IsRule(line)]

\* route_for, and route_declared for the sheet of rules, where every line is one.
Route(declared, answer) ==
    IF declared \/ answer.isRule = "likely"
    THEN IF ~answer.sure THEN "LLM_FALLBACK"
         ELSE IF answer.label = "NONE" THEN "NEW_RULE" ELSE "ACTIVATE"
    ELSE IF answer.isRule = "unsure" THEN "LLM_FALLBACK" ELSE "NOT_A_RULE"

\* A label the model cannot ground in the line counts as no label.
GroundedLabel(line, answer) ==
    IF answer.label # "NONE" /\ (answer.evidence = "invented" \/ answer.label \notin line.grounded)
    THEN "NONE" ELSE answer.label

Class(route, label, method) == [route |-> route, label |-> label, method |-> method]

Fallback(line, first, deep) ==
    LET label == GroundedLabel(line, deep)
    IN  IF deep = NULL THEN Class("NEW_RULE", first.label, first.method \o "+degraded")
        ELSE IF deep.isRule # "likely" THEN Class("NOT_A_RULE", label, "deepseek")
        ELSE Class(IF label # "NONE" /\ deep.sure THEN "ACTIVATE" ELSE "NEW_RULE", label, "deepseek")

\* classify_lines for one line; jev and deep are the models' answers, NULL when none came.
Classify(line, jev, deep) ==
    LET answer == IF jev = NULL THEN LexicalAnswer(line) ELSE jev
        first  == Class(Route(line.declared, answer), answer.label,
                        IF jev = NULL THEN "jev_lexical_degraded" ELSE "jev")
    IN  IF first.route = "LLM_FALLBACK" THEN Fallback(line, first, deep) ELSE first

----------------------------------------------------------------------------
(* The parameters a line states, for the family it was filed under.            *)

Approval == {"aprobacion", "autoriz", "responsable", "firma", "visto bueno", "director",
             "escalar", "revision"}
Alike    == {"coincid", "maestro", "mismo", "igual"}
Only     == {"solo", "unicamente", "exclusivamente"}
Demanded == {"debe indicar", "debe llevar", "debe incluir", "obligatori", "debe constar",
             "debe figurar"}
FieldWords == [n \in {"nif", "iban", "pedido", "importe", "iva", "fecha"} |->
    CASE n = "nif" -> {"nif", "cif"} [] n = "iban" -> {"iban", "cuenta bancaria"}
      [] n = "importe" -> {"importe", "total"} [] OTHER -> {n}]

\* The flags that the lines of a family set, and the words that set each of them.
SheetFlags == [f \in Canonicals |->
    CASE f = "VENDOR"     -> {"require_iban_match", "require_nif_in_master", "check_nif_control_digit"}
      [] f = "DUPLICATES" -> {"require_erp_pending"}
      [] f = "AMOUNT"     -> {"check_line_items_sum", "check_total_is_base_plus_iva",
                              "check_matches_pedido"}
      [] f = "DATES"      -> {"enforce_payment_terms"}
      [] OTHER            -> {}]
FlagStated(p, line) ==
    LET Says(words) == Has(line, words)
    IN  CASE p = "require_iban_match"      -> Says({"iban"}) /\ Says(Alike)
          [] p = "require_nif_in_master"   -> \/ Says({"nif", "cif"}) /\ Says(Alike)
                                              \/ Says({"activo"}) /\ Says({"proveedor"})
          [] p = "check_nif_control_digit" -> Says({"digito de control", "letra del nif", "nif valido"})
          [] p = "require_erp_pending"     -> Says({"pendiente", "erp"})
          [] p = "check_line_items_sum"    ->
                 Says({"suma de las lineas", "lineas de detalle", "suma de los conceptos"})
          [] p = "check_total_is_base_plus_iva" ->
                 Says({"base"}) /\ Says({"iva"}) /\ Says({"total", "suma", "cuadr"})
          [] p = "check_matches_pedido"    ->
                 Says({"pedido"}) /\ Says({"coincid", "cuadr", "corresponde", "igual"})
          [] p = "enforce_payment_terms"   ->
                 Says({"plazo", "vencimiento", "condiciones de pago", "dias desde"})
FlagsStated(family, line) == [p \in {q \in SheetFlags[family] : FlagStated(q, line)} |-> TRUE]

AmountStated(param, n) ==
    IF n = NULL \/ DecimalText(n) = BAD THEN <<>> ELSE [p \in {param} |-> DecimalText(n)]
FieldsStated(line) == {n \in DOMAIN FieldWords : Has(line, FieldWords[n])}
SettingIf(condition, param, value) == IF condition THEN [p \in {param} |-> value] ELSE <<>>

\* What the lines of a family set to something else.
ValuesStated(family, line) ==
    CASE family = "AMOUNT" ->
             Over(AmountStated("tolerance_eur", line.margin),
                  SettingIf(Has(line, {"euro"}) /\ Has(line, Only), "allowed_currencies", {"EUR"}))
      [] family = "AUTHORIZATION" ->
             IF Has(line, Approval) THEN AmountStated("escalate_above_eur", line.above) ELSE <<>>
      [] family = "DATES"   -> SettingIf(Has(line, {"futur"}), "allow_future", FALSE)
      [] family = "MISSING" ->
             SettingIf(Has(line, Demanded) /\ FieldsStated(line) # {}, "required_fields", FieldsStated(line))
      [] OTHER -> <<>>

Stated(family, line) == Over(FlagsStated(family, line), ValuesStated(family, line))

Readings(family, lines, p) ==
    {Stated(family, l)[p] : l \in {m \in lines : p \in DOMAIN Stated(family, m)}}

\* Mutant: of the lines that disagree, one sets the parameter.
SettingsOfSome(family, lines) ==
    [p \in UNION {DOMAIN Stated(family, l) : l \in lines} |-> CHOOSE v \in Readings(family, lines, p) : TRUE]

\* from_sheet: the parameters on which every line that states them reads the same.
Settings(family, lines) ==
    [p \in {q \in UNION {DOMAIN Stated(family, l) : l \in lines} :
                Cardinality(Readings(family, lines, q)) = 1} |-> The(Readings(family, lines, p))]

----------------------------------------------------------------------------
(* A condition for a line of no family. A draft is                             *)
(* [expressible, logic, clauses, onFail]; each of its clauses is                *)
(* [field, op, value] and a value is [kind, v].                                 *)

Value(kind, v) == [kind |-> kind, v |-> v]
Draft(clauses, onFail) ==
    [expressible |-> TRUE, logic |-> "AND", clauses |-> clauses, onFail |-> onFail]
Refusal == [expressible |-> FALSE, logic |-> "AND", clauses |-> <<>>, onFail |-> "ESCALAR"]

NoSource == {"paraiso", "seguridad social", "tgss", "irpf", "retencion"}
HardBlock    == {"no pagar", "no se paga", "no se pagara", "no abonar", "prohibido",
                 "nunca se paga", "en ningun caso"}
\* This reader knows neither "por encima de" nor "a partir de".
DraftAbove   == {"supere", "superior a", "mayor que", "mas de"}
DraftAsks    == {"aprobacion", "autoriz", "responsable", "firma", "escalar", "revision"}
DraftDemands == {"debe indicar", "debe llevar", "debe incluir", "es obligatorio", "obligatoriamente"}
DraftFields  == <<"pedido", "nif", "iban", "fecha">>

\* heuristic_structured: the first shape that the text fits.
HeuristicDraft(line) ==
    LET Says(words) == Has(line, words)
        is(field, value) == Draft(<<[field |-> field, op |-> "==", value |-> value]>>, "ESCALAR")
        named == SelectSeq(DraftFields, LAMBDA f : Says({f}))
    IN  IF Says(NoSource) THEN Refusal
        ELSE IF line.above # NULL /\ Says(DraftAbove) /\ Says(HardBlock \union DraftAsks)
        THEN Draft(<<[field |-> "invoice.total", op |-> "<=", value |-> Value("text", line.above)]>>,
                   IF Says(HardBlock) THEN "NO_PAGAR" ELSE "ESCALAR")
        ELSE IF line.days # NULL /\ Says({"plazo", "vencimiento", "pago", "condiciones"})
        THEN Draft(<<[field |-> "supplier.payment_terms_days", op |-> "<=",
                      value |-> Value("number", line.days)]>>, "ESCALAR")
        ELSE IF Says({"pendiente"}) /\ Says({"erp", "pedido", "asiento"})
        THEN [is("erp.order_payment_status", Value("word", "PENDIENTE")) EXCEPT
                !.onFail = IF Says(HardBlock \union {"dos veces", "duplicad"}) THEN "NO_PAGAR" ELSE @]
        ELSE IF Says({"iban"}) /\ Says(Alike) THEN is("invoice.iban", Value("field", "supplier.iban"))
        ELSE IF Says({"nif"}) /\ Says(Alike)
        THEN is("invoice.supplier_tax_id", Value("field", "supplier.tax_id"))
        ELSE IF Says({"euro"}) /\ Says(Only) THEN is("invoice.currency", Value("word", "EUR"))
        ELSE IF Says({"activo"}) /\ Says({"proveedor"}) THEN is("supplier.active", Value("flag", TRUE))
        ELSE IF Says(DraftDemands) /\ named # <<>>
        THEN Draft([i \in DOMAIN named |-> [field |-> named[i], op |-> "exists", value |-> NULL]], "ESCALAR")
        ELSE NULL

RegistryFields == InvoiceScalars \union SupplierFields \union OrderFields
    \union {HistoryField[h] : h \in Histories}
    \union {"invoice.vat_amount", "invoice.line_amounts", "erp.order_payment_status",
            "invoice.document_type"}
\* Validation resolves names and types only; it never reads a value.
AuthoringFields == [f \in RegistryFields |-> NULL]

LiteralFor(field, value) ==
    LET type == FieldType(field)
        Literal(v) == [type |-> type, value |-> v, currency |-> IF type = "money" THEN "EUR" ELSE NULL]
    IN  CASE type = "money" /\ value.kind = "number" -> Literal(value.v * 100)
          [] type = "money" /\ value.kind = "text"   ->
                 IF DecimalText(value.v) = BAD THEN BAD ELSE Literal(DecimalText(value.v).cents)
          [] type = "integer" /\ value.kind = "number" -> Literal(value.v)
          [] type = "boolean" /\ value.kind = "flag"   -> Literal(value.v)
          [] type = "date" /\ value.kind = "date"      -> Literal(value.v)
          [] type = "string" /\ value.kind = "word"    -> Literal(value.v)
          [] OTHER -> BAD

ClauseOf(field, op, other, literal) ==
    [field |-> FieldId(field), op |-> op, other |-> other, literal |-> literal]
AuthoredClause(c) ==
    LET f == FieldId(c.field)
    IN  IF f \notin RegistryFields \/ c.op \notin Presence \union Member \union Ordered \union {"==", "!="}
        THEN BAD
        ELSE IF c.op \in Presence THEN ClauseOf(f, c.op, NULL, NULL)
        ELSE IF c.value.kind = "field"
        THEN IF c.value.v \in RegistryFields /\ FieldType(c.value.v) = FieldType(f)
             THEN ClauseOf(f, c.op, c.value.v, NULL) ELSE BAD
        ELSE IF c.op \in Member
        THEN IF FieldType(f) = "string" /\ c.value.kind = "word"
             THEN ClauseOf(f, c.op, NULL, [type |-> "string_list", value |-> {c.value.v}, currency |-> NULL])
             ELSE BAD
        ELSE IF LiteralFor(f, c.value) = BAD THEN BAD ELSE ClauseOf(f, c.op, NULL, LiteralFor(f, c.value))

\* Mutant: the clauses are assembled, and the condition not validated.
CompileDraftUnchecked(draft) ==
    IF ~draft.expressible \/ draft.clauses = <<>> THEN BAD
    ELSE LET group == [logic |-> draft.logic, clauses |-> [i \in DOMAIN draft.clauses |-> AuthoredClause(draft.clauses[i])]]
         IN  IF \E i \in DOMAIN group.clauses : group.clauses[i] = BAD THEN BAD
             ELSE [group |-> group, onFail |-> draft.onFail]

\* compile_draft: a condition that the executor accepts, or nothing.
CompileDraft(draft) ==
    LET group  == [logic   |-> IF draft.logic \in {"AND", "OR"} THEN draft.logic ELSE "AND",
                   clauses |-> [i \in DOMAIN draft.clauses |-> AuthoredClause(draft.clauses[i])]]
        onFail == IF draft.onFail \in {"ESCALAR", "NO_PAGAR"} THEN draft.onFail ELSE "ESCALAR"
    IN  IF \/ ~draft.expressible \/ draft.clauses = <<>>
           \/ \E i \in DOMAIN group.clauses : group.clauses[i] = BAD
           \/ ~ValidGroup(group, AuthoringFields)
        THEN BAD ELSE [group |-> group, onFail |-> onFail]

\* compile_new_rule: the heuristic reader first, then the model's draft, else pending.
CompileNewRule(line, drafted) ==
    LET compiled(draft) == IF draft = NULL THEN BAD ELSE CompileDraft(draft)
        own == compiled(HeuristicDraft(line))
    IN  IF own # BAD THEN own ELSE compiled(drafted)
==================================================================================
