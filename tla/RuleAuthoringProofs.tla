------------------------ MODULE RuleAuthoringProofs ------------------------
(***************************************************************************)
(* Proofs about the generation of rules, for any number of revisions, any  *)
(* norm sheets and profiles, and whatever the paid models answer.          *)
(***************************************************************************)
EXTENDS RuleAuthoring, FiniteSetTheorems, WellFoundedInduction, TLAPS

-----------------------------------------------------------------------------
(* What a line of the norm becomes *)

Routes == {"ACTIVATE", "NEW_RULE", "NOT_A_RULE"}

(* A classified line goes to a family of rules, to a rule of its own, or out. *)
Classified(class) ==
    class.route \in Routes /\ (class.route = "ACTIVATE" => class.label \in Canonicals)

LEMMA MostHits ==
    ASSUME NEW hits \in [Canonicals -> Nat], NEW scored \in SUBSET Canonicals, scored # {}
    PROVE  \E f \in scored : \A g \in scored : 10 * hits[f] >= 9 * hits[g]
<1> DEFINE Topped(S) == S = {} \/ \E f \in S : \A g \in S : hits[f] >= hits[g]
<1>1. ASSUME NEW S \in SUBSET Canonicals, NEW T \in SUBSET Canonicals, NEW c \in Canonicals,
             Topped(S), T = S \/ T = S \union {c}
      PROVE  Topped(T)
  <2>1. CASE T = S
    BY <1>1, <2>1
  <2>2. CASE T = S \union {c} /\ S = {}
    BY <2>2
  <2>3. CASE T = S \union {c} /\ S # {}
    <3>1. PICK f \in S : \A g \in S : hits[f] >= hits[g]
      BY <1>1, <2>3
    <3>2. CASE hits[f] >= hits[c]
      BY <2>3, <3>1, <3>2
    <3>3. CASE hits[c] > hits[f]
      <4>1. hits[f] \in Nat /\ hits[c] \in Nat /\ \A g \in S : hits[g] \in Nat
        OBVIOUS
      <4>2. \A g \in T : hits[c] >= hits[g]
        BY <2>3, <3>1, <3>3, <4>1
      <4> QED BY <2>3, <4>2
    <3> QED BY <3>2, <3>3
  <2> QED BY <1>1, <2>1, <2>2, <2>3
<1>2. Topped({})
  OBVIOUS
<1> HIDE DEF Topped
<1>3. Topped(scored \intersect {"VENDOR"})
  BY <1>1, <1>2 DEF Canonicals
<1>4. Topped(scored \intersect {"VENDOR", "DUPLICATES"})
  BY <1>1, <1>3 DEF Canonicals
<1>5. Topped(scored \intersect {"VENDOR", "DUPLICATES", "AMOUNT"})
  BY <1>1, <1>4 DEF Canonicals
<1>6. Topped(scored \intersect {"VENDOR", "DUPLICATES", "AMOUNT", "AUTHORIZATION"})
  BY <1>1, <1>5 DEF Canonicals
<1>7. Topped(scored \intersect {"VENDOR", "DUPLICATES", "AMOUNT", "AUTHORIZATION", "DATES"})
  BY <1>1, <1>6 DEF Canonicals
<1>8. Topped(scored \intersect Canonicals)
  BY <1>1, <1>7 DEF Canonicals
<1>9. Topped(scored)
  <2>1. scored \intersect Canonicals = scored
    OBVIOUS
  <2> QED BY <1>8, <2>1
<1>10. PICK f \in scored : \A g \in scored : hits[f] >= hits[g]
  BY <1>9 DEF Topped
<1>11. \A g \in scored : hits[f] \in Nat /\ hits[g] \in Nat
  OBVIOUS
<1> QED BY <1>10, <1>11

LEMMA SomeFirst ==
    ASSUME NEW near \in SUBSET Canonicals, near # {}
    PROVE  \E f \in near : \A g \in near : Before(f, g)
<1> DEFINE Rank(f) == CHOOSE i \in 1..6 : Precedence[i] = f
<1>1. /\ DOMAIN Precedence = 1..6 /\ Precedence[1] = "VENDOR" /\ Precedence[2] = "DUPLICATES"
      /\ Precedence[3] = "AUTHORIZATION" /\ Precedence[4] = "DATES" /\ Precedence[5] = "AMOUNT"
      /\ Precedence[6] = "MISSING"
  BY DEF Precedence
<1>2. \A f \in Canonicals : \E i \in 1..6 : Precedence[i] = f
  BY <1>1 DEF Canonicals
<1>3. PICK first : /\ first \in 1..6 /\ Precedence[first] \in near
                   /\ \A i \in 1..6 : Precedence[i] \in near => first <= i
  BY <1>2
<1>4. \A g \in near : Before(Precedence[first], g)
  BY <1>1, <1>2, <1>3 DEF Before
<1> QED BY <1>3, <1>4

LEMMA MapsToType ==
    ASSUME NEW line, line.hits \in [Canonicals -> Nat] PROVE MapsTo(line) \in Labels
<1> DEFINE scored == {f \in Canonicals : line.hits[f] > 0}
           near   == {f \in scored : \A g \in scored : 10 * line.hits[f] >= 9 * line.hits[g]}
<1>1. CASE scored = {}
  BY <1>1 DEF MapsTo, Labels
<1>2. CASE scored # {}
  <2>1. near # {}
    <3>1. \E f \in scored : \A g \in scored : 10 * line.hits[f] >= 9 * line.hits[g]
      BY <1>2, MostHits
    <3> QED BY <3>1
  <2>2. \E f \in near : \A g \in near : Before(f, g)
    BY <2>1, SomeFirst
  <2>3. (CHOOSE f \in near : \A g \in near : Before(f, g)) \in Canonicals
    BY <2>2
  <2>4. MapsTo(line) \in {"AUTHORIZATION", "VENDOR", CHOOSE f \in near : \A g \in near : Before(f, g)}
    <3> HIDE DEF near
    <3> QED BY <1>2 DEF MapsTo, near
  <2> QED BY <2>3, <2>4 DEF Labels, Canonicals
<1> QED BY <1>1, <1>2

LEMMA ClassifyType ==
    ASSUME NEW line, line.hits \in [Canonicals -> Nat],
           NEW jev, jev # NULL => jev.label \in Labels,
           NEW deep, deep # NULL => deep.label \in Labels
    PROVE  Classified(Classify(line, jev, deep))
<1> DEFINE answer == IF jev = NULL THEN LexicalAnswer(line) ELSE jev
           first  == Class(Route(line.declared, answer), answer.label,
                           IF jev = NULL THEN "jev_lexical_degraded" ELSE "jev")
<1>1. answer.label \in Labels
  BY MapsToType DEF LexicalAnswer
<1>2. first.route = Route(line.declared, answer) /\ first.label = answer.label
  BY DEF Class
<1>3. Classify(line, jev, deep) = IF first.route = "LLM_FALLBACK" THEN Fallback(line, first, deep) ELSE first
  BY DEF Classify
<1>4. /\ first.route \in Routes \union {"LLM_FALLBACK"}
      /\ first.route = "ACTIVATE" => answer.label # "NONE"
  <2> HIDE DEF answer
  <2> QED BY <1>2 DEF Route, Routes
<1> HIDE DEF first, answer
<1>5. CASE first.route # "LLM_FALLBACK"
  BY <1>1, <1>2, <1>3, <1>4, <1>5 DEF Classified, Labels
<1>6. CASE first.route = "LLM_FALLBACK"
  <2>1. deep # NULL => GroundedLabel(line, deep) \in Labels
    BY DEF GroundedLabel, Labels
  <2>2. Classified(Fallback(line, first, deep))
    <3> DEFINE label == GroundedLabel(line, deep)
    <3>1. CASE deep = NULL
      BY <3>1 DEF Fallback, Class, Classified, Routes
    <3>2. CASE deep # NULL /\ deep.isRule # "likely"
      BY <3>2 DEF Fallback, Class, Classified, Routes
    <3>3. CASE deep # NULL /\ deep.isRule = "likely"
      <4>1. Fallback(line, first, deep) =
                Class(IF label # "NONE" /\ deep.sure THEN "ACTIVATE" ELSE "NEW_RULE", label, "deepseek")
        BY <3>3 DEF Fallback
      <4> HIDE DEF label
      <4>2. label \in Labels
        BY <2>1, <3>3 DEF label
      <4> QED BY <4>1, <4>2 DEF Class, Classified, Routes, Labels
    <3> QED BY <3>1, <3>2, <3>3
  <2> QED BY <1>3, <1>6, <2>2
<1> QED BY <1>5, <1>6

-----------------------------------------------------------------------------
(* What the executor can run *)

(* BAD is a value of the wrong shape: no amount, no set of fields, no table. *)
BadIsApart ==
    /\ BAD \notin Nat /\ BAD \notin SUBSET DOMAIN FieldWords /\ BAD # <<>>
    /\ \A D, g : BAD # [p \in D |-> g[p]]

(* Amounts are written with digits. *)
AmountsAreNatural ==
    \A b \in DOMAIN Books : \A i \in DOMAIN Books[b] : \A n \in {Books[b][i].above, Books[b][i].margin} :
        n # NULL /\ DecimalText(n) # BAD => DecimalText(n).cents \in Nat

(* A rule of a profile with the profile's own parameters *)
AsProfiled(policy, f) == CanonicalRule(f, [book |-> 1, policy |-> policy, pinned |-> NULL], <<>>)

ProfilesAreExecutable ==
    \A policy \in DOMAIN Profiles :
        /\ Profiles[policy].enableNew \in BOOLEAN
        /\ \A f \in Canonicals : ~Unsupported(AsProfiled(policy, f), AuthoringFields, <<>>)

SourcesAreSound == BadIsApart /\ AmountsAreNatural /\ ProfilesAreExecutable

Executables(rules) == \A rule \in rules : rule.enabled => ~Unsupported(rule, AuthoringFields, <<>>)

(* A value that the executor takes for a parameter the sheet may set *)
Taken(p, v) ==
    /\ p \in Flags => v \in BOOLEAN
    /\ p \in {"tolerance_eur", "escalate_above_eur"} => v.cents \in Nat
    /\ p = "required_fields" => v \in (SUBSET DOMAIN FieldWords) \ {{}}
    /\ p \in Flags \union {"tolerance_eur", "escalate_above_eur", "required_fields",
                           "allowed_currencies"}

AllTaken(family, set) == \A p \in DOMAIN set : p \in DOMAIN Defaults[family] /\ Taken(p, set[p])

LEMMA BothTaken ==
  ASSUME NEW family, NEW f, NEW g, AllTaken(family, f), AllTaken(family, g)
  PROVE  AllTaken(family, Over(f, g))
<1> DEFINE h == Over(f, g)
<1>1. /\ DOMAIN h = DOMAIN f \union DOMAIN g
      /\ \A p \in DOMAIN h : h[p] = IF p \in DOMAIN f THEN f[p] ELSE g[p]
  BY DEF Over
<1> HIDE DEF h
<1>2. ASSUME NEW p \in DOMAIN h PROVE p \in DOMAIN Defaults[family] /\ Taken(p, h[p])
  <2>1. CASE p \in DOMAIN f
    BY <1>1, <2>1 DEF AllTaken
  <2>2. CASE p \notin DOMAIN f
    BY <1>1, <2>2 DEF AllTaken
  <2> QED BY <2>1, <2>2
<1> QED BY <1>2 DEF AllTaken, h

LEMMA NothingTaken == \A family : AllTaken(family, <<>>)
  BY DEF AllTaken

LEMMA DefaultsAre ==
  /\ DOMAIN Defaults["VENDOR"] = {"require_nif_in_master", "require_iban_match", "require_active",
                                  "check_nif_control_digit"}
  /\ DOMAIN Defaults["DUPLICATES"] = {"require_erp_pending", "hard_key", "soft_key",
                                      "soft_duplicate_verdict"}
  /\ DOMAIN Defaults["AMOUNT"] = {"tolerance_eur", "check_line_items_sum", "check_matches_pedido",
                                  "check_total_is_base_plus_iva", "check_iva", "allowed_currencies",
                                  "order_currency_policy"}
  /\ DOMAIN Defaults["AUTHORIZATION"] = {"escalate_above_eur"}
  /\ DOMAIN Defaults["DATES"] = {"allow_future", "enforce_payment_terms"}
  /\ DOMAIN Defaults["MISSING"] = {"required_fields"}
<1>1. Defaults["VENDOR"] = [require_nif_in_master |-> TRUE, require_iban_match |-> TRUE,
                          require_active |-> FALSE, check_nif_control_digit |-> FALSE]
  BY Zenon DEF Defaults, Canonicals
<1>2. Defaults["DUPLICATES"] = [require_erp_pending |-> TRUE,
                              hard_key |-> {"invoice.number", "supplier.id"},
                              soft_key |-> {"invoice.total", "invoice.issue_date"},
                              soft_duplicate_verdict |-> "NEEDS_REVIEW"]
  BY Zenon DEF Defaults, Canonicals
<1>3. Defaults["AMOUNT"] = [tolerance_eur |-> 1, check_line_items_sum |-> TRUE,
                          check_total_is_base_plus_iva |-> TRUE, check_matches_pedido |-> TRUE,
                          check_iva |-> FALSE, allowed_currencies |-> {},
                          order_currency_policy |-> "explicit"]
  BY Zenon DEF Defaults, Canonicals
<1>4. Defaults["AUTHORIZATION"] = [escalate_above_eur |-> DefaultLimit]
  BY Zenon DEF Defaults, Canonicals
<1>5. Defaults["DATES"] = [allow_future |-> FALSE, enforce_payment_terms |-> TRUE]
  BY Zenon DEF Defaults, Canonicals
<1>6. Defaults["MISSING"] =
            [required_fields |-> {"nif", "iban", "pedido", "importe", "iva", "fecha"}]
  BY Zenon DEF Defaults, Canonicals
<1> QED BY <1>1, <1>2, <1>3, <1>4, <1>5, <1>6

LEMMA SheetFlagsAre ==
  /\ SheetFlags["VENDOR"] = {"require_iban_match", "require_nif_in_master", "check_nif_control_digit"}
  /\ SheetFlags["DUPLICATES"] = {"require_erp_pending"}
  /\ SheetFlags["AMOUNT"] = {"check_line_items_sum", "check_total_is_base_plus_iva",
                             "check_matches_pedido"}
  /\ SheetFlags["AUTHORIZATION"] = {}
  /\ SheetFlags["DATES"] = {"enforce_payment_terms"}
  /\ SheetFlags["MISSING"] = {}
  BY Zenon DEF SheetFlags, Canonicals

LEMMA FlagsTaken == \A family \in Canonicals : \A line : AllTaken(family, FlagsStated(family, line))
<1> SUFFICES ASSUME NEW family \in Canonicals, NEW line, NEW p \in DOMAIN FlagsStated(family, line)
             PROVE  /\ p \in DOMAIN Defaults[family]
                    /\ Taken(p, FlagsStated(family, line)[p])
  BY DEF AllTaken
<1>1. p \in SheetFlags[family] /\ FlagsStated(family, line)[p] = TRUE
  BY DEF FlagsStated
<1>2. SheetFlags[family] \subseteq DOMAIN Defaults[family] \intersect Flags
  BY SheetFlagsAre, DefaultsAre DEF Canonicals, Flags
<1>3. Taken(p, TRUE)
  BY <1>1, <1>2 DEF Taken, Flags
<1> QED BY <1>1, <1>2, <1>3

LEMMA ValuesAre ==
  ASSUME NEW line
  PROVE  /\ ValuesStated("AMOUNT", line) =
               Over(AmountStated("tolerance_eur", line.margin),
                    SettingIf(Has(line, {"euro"}) /\ Has(line, Only), "allowed_currencies", {"EUR"}))
         /\ ValuesStated("AUTHORIZATION", line) =
               IF Has(line, Approval) THEN AmountStated("escalate_above_eur", line.above) ELSE <<>>
         /\ ValuesStated("DATES", line) = SettingIf(Has(line, {"futur"}), "allow_future", FALSE)
         /\ ValuesStated("MISSING", line) =
               SettingIf(Has(line, Demanded) /\ FieldsStated(line) # {}, "required_fields",
                         FieldsStated(line))
         /\ ValuesStated("VENDOR", line) = <<>>
         /\ ValuesStated("DUPLICATES", line) = <<>>
  BY Zenon DEF ValuesStated

LEMMA AmountTaken ==
  ASSUME NEW family, NEW param \in {"tolerance_eur", "escalate_above_eur"},
         param \in DOMAIN Defaults[family], NEW n, n # NULL /\ DecimalText(n) # BAD => DecimalText(n).cents \in Nat
  PROVE  AllTaken(family, AmountStated(param, n))
<1>1. CASE n = NULL \/ DecimalText(n) = BAD
  BY <1>1, NothingTaken DEF AmountStated
<1>2. CASE ~(n = NULL \/ DecimalText(n) = BAD)
  <2>1. Taken(param, DecimalText(n))
    BY <1>2 DEF Taken, Flags
  <2> QED BY <1>2, <2>1 DEF AmountStated, AllTaken
<1> QED BY <1>1, <1>2

LEMMA SettingTaken ==
  ASSUME NEW family, NEW c, NEW param \in DOMAIN Defaults[family], NEW value, c => Taken(param, value)
  PROVE  AllTaken(family, SettingIf(c, param, value))
  BY DEF AllTaken, SettingIf

(* What a line states is what the executor takes. *)
LEMMA StatedTaken ==
  ASSUME NEW family \in Canonicals, NEW line,
         \A n \in {line.above, line.margin} :
            n # NULL /\ DecimalText(n) # BAD => DecimalText(n).cents \in Nat
  PROVE  AllTaken(family, Stated(family, line))
<1>1. AllTaken(family, ValuesStated(family, line))
  <2>1. CASE family = "AMOUNT"
    <3>1. AllTaken(family, AmountStated("tolerance_eur", line.margin))
      BY <2>1, DefaultsAre, AmountTaken
    <3>2. Taken("allowed_currencies", {"EUR"})
      BY DEF Taken, Flags
    <3>3. AllTaken(family, SettingIf(Has(line, {"euro"}) /\ Has(line, Only), "allowed_currencies", {"EUR"}))
      BY <2>1, <3>2, DefaultsAre, SettingTaken
    <3> QED BY <2>1, <3>1, <3>3, ValuesAre, BothTaken
  <2>2. CASE family = "AUTHORIZATION"
    <3>1. AllTaken(family, AmountStated("escalate_above_eur", line.above))
      BY <2>2, DefaultsAre, AmountTaken
    <3> QED BY <2>2, <3>1, ValuesAre, NothingTaken
  <2>3. CASE family = "DATES"
    <3>1. Taken("allow_future", FALSE)
      BY DEF Taken, Flags
    <3>2. AllTaken(family, SettingIf(Has(line, {"futur"}), "allow_future", FALSE))
      BY <2>3, <3>1, DefaultsAre, SettingTaken
    <3> QED BY <2>3, <3>2, ValuesAre
  <2>4. CASE family = "MISSING"
    <3>1. FieldsStated(line) # {} => Taken("required_fields", FieldsStated(line))
      BY DEF Taken, Flags, FieldsStated
    <3>2. AllTaken(family, SettingIf(Has(line, Demanded) /\ FieldsStated(line) # {},
                                     "required_fields", FieldsStated(line)))
      BY <2>4, <3>1, DefaultsAre, SettingTaken
    <3> QED BY <2>4, <3>2, ValuesAre
  <2>5. CASE family \in {"VENDOR", "DUPLICATES"}
    BY <2>5, ValuesAre, NothingTaken
  <2> QED BY <2>1, <2>2, <2>3, <2>4, <2>5 DEF Canonicals
<1> QED BY <1>1, FlagsTaken, BothTaken DEF Stated

LEMMA FiniteReadings ==
    ASSUME NEW family, NEW lines, IsFiniteSet(lines), NEW p
    PROVE  IsFiniteSet(Readings(family, lines, p))
<1> DEFINE S == {m \in lines : p \in DOMAIN Stated(family, m)}
           T == Readings(family, lines, p)
           f == [l \in S |-> Stated(family, l)[p]]
<1>1. IsFiniteSet(S)
  BY FS_Subset
<1>2. T = {f[l] : l \in S}
  BY DEF Readings
<1>3. f \in Surjection(S, T)
  BY <1>2 DEF Surjection
<1> QED BY <1>1, <1>3, FS_Surjection

(* A parameter that the sheet sets is stated by a line, and all that state  *)
(* it agree.                                                                *)
LEMMA SettingsFacts ==
    ASSUME NEW family, NEW lines, IsFiniteSet(lines), NEW p \in DOMAIN Settings(family, lines)
    PROVE  /\ {l \in lines : p \in DOMAIN Stated(family, l)} # {}
           /\ \A l \in lines : p \in DOMAIN Stated(family, l) =>
                 Stated(family, l)[p] = Settings(family, lines)[p]
<1>1. /\ p \in UNION {DOMAIN Stated(family, l) : l \in lines}
      /\ Cardinality(Readings(family, lines, p)) = 1
      /\ Settings(family, lines)[p] = The(Readings(family, lines, p))
  BY DEF Settings
<1>2. PICK v : Readings(family, lines, p) = {v}
  BY <1>1, FiniteReadings, FS_Singleton
<1>3. The(Readings(family, lines, p)) = v
  BY <1>2 DEF The
<1>4. \A l \in lines : p \in DOMAIN Stated(family, l) => Stated(family, l)[p] \in {v}
  BY <1>2 DEF Readings
<1> QED BY <1>1, <1>3, <1>4

LEMMA FieldIdIs ==
  /\ FieldId("nif") = "invoice.supplier_tax_id" /\ FieldId("iban") = "invoice.iban"
  /\ FieldId("pedido") = "invoice.order_reference" /\ FieldId("importe") = "invoice.total"
  /\ FieldId("iva") = "invoice.vat_amount" /\ FieldId("fecha") = "invoice.issue_date"
  /\ \A x : x \notin {"nif", "iban", "pedido", "importe", "iva", "fecha"} => FieldId(x) = x
  BY Zenon DEF FieldId, Aliases

LEMMA NoAlias == \A x \in RegistryFields : FieldId(x) = x
<1>1. \A h \in Histories : HistoryField[h] \in {"history.processed_matches", "history.approved_matches",
                                              "history.paid_matches"}
  BY Zenon DEF HistoryField, Histories
<1>2. \A x \in RegistryFields : x \notin {"nif", "iban", "pedido", "importe", "iva", "fecha"}
  BY <1>1 DEF RegistryFields, InvoiceScalars, TextFields, SupplierFields, OrderFields
<1> QED BY <1>2, FieldIdIs

LEMMA KnownFields == DOMAIN AuthoringFields = RegistryFields
  BY DEF AuthoringFields

LEMMA WordsAreFields == \A n \in DOMAIN FieldWords : FieldId(n) \in RegistryFields
<1>1. DOMAIN FieldWords = {"nif", "iban", "pedido", "importe", "iva", "fecha"}
  BY DEF FieldWords
<1> QED BY <1>1, FieldIdIs DEF RegistryFields, InvoiceScalars, TextFields

LEMMA FlagsNeedFields == \A flag : \A n \in FlagDependencies(flag) : FieldId(n) \in RegistryFields
<1>1. ASSUME NEW flag, NEW n \in FlagDependencies(flag)
      PROVE  n \in {"invoice.iban", "supplier.iban", "invoice.supplier_tax_id", "supplier.tax_id",
                    "supplier.active", "invoice.order_reference", "order.id", "order.supplier_id",
                    "erp.order_payment_status", "invoice.line_amounts", "invoice.taxable_base",
                    "invoice.vat_amount", "invoice.total", "supplier.id", "order.total",
                    "order.currency", "invoice.currency", "supplier.payment_terms_days"}
  BY <1>1, Zenon DEF FlagDependencies
<1>2. ASSUME NEW flag, NEW n \in FlagDependencies(flag) PROVE n \in RegistryFields
  BY <1>1, <1>2 DEF RegistryFields, InvoiceScalars, TextFields, SupplierFields, OrderFields
<1> QED BY <1>2, NoAlias

(* A group of clauses that is valid asks for fields that are known. *)
LEMMA GroupsNeedFields ==
  ASSUME NEW group, ValidGroup(group, AuthoringFields)
  PROVE  \A n \in GroupFields(group) : FieldId(n) \in RegistryFields
<1> SUFFICES ASSUME NEW i \in DOMAIN group.clauses, NEW n \in ClauseFields(group.clauses[i])
             PROVE  FieldId(n) \in RegistryFields
  BY DEF GroupFields
<1>1. PICK clause : clause = group.clauses[i]
  OBVIOUS
<1>2. /\ FieldId(clause.field) \in RegistryFields
      /\ clause.op \notin Presence /\ clause.other # NULL => FieldId(clause.other) \in RegistryFields
  BY <1>1, KnownFields DEF ValidGroup, ValidClause
<1>3. \A f \in RegistryFields : WithCurrency(f) \subseteq RegistryFields
  BY DEF WithCurrency, CurrencyField, RegistryFields, InvoiceScalars, OrderFields
<1>4. n \in RegistryFields
  <2>1. CASE clause.op \in Presence
    BY <1>1, <1>2, <2>1 DEF ClauseFields
  <2>2. CASE clause.op \notin Presence
    <3>1. n \in WithCurrency(FieldId(clause.field))
            \union (IF clause.other # NULL THEN WithCurrency(FieldId(clause.other)) ELSE {})
      BY <1>1, <2>2 DEF ClauseFields
    <3> QED BY <1>2, <1>3, <2>2, <3>1
  <2> QED BY <2>1, <2>2
<1> QED BY <1>4, NoAlias

LEMMA DraftsCompile ==
  ASSUME NEW draft
  PROVE  \/ CompileDraft(draft) = BAD
         \/ \E group, onFail : /\ CompileDraft(draft) = [group |-> group, onFail |-> onFail]
                               /\ ValidGroup(group, AuthoringFields)
                               /\ onFail \in {"ESCALAR", "NO_PAGAR"}
<1> DEFINE group  == [logic   |-> IF draft.logic \in {"AND", "OR"} THEN draft.logic ELSE "AND",
                      clauses |-> [i \in DOMAIN draft.clauses |-> AuthoredClause(draft.clauses[i])]]
           onFail == IF draft.onFail \in {"ESCALAR", "NO_PAGAR"} THEN draft.onFail ELSE "ESCALAR"
<1>1. \/ CompileDraft(draft) = BAD
      \/ CompileDraft(draft) = [group |-> group, onFail |-> onFail] /\ ValidGroup(group, AuthoringFields)
  <2>1. CompileDraft(draft) =
          IF \/ ~draft.expressible \/ draft.clauses = <<>>
             \/ \E i \in DOMAIN group.clauses : group.clauses[i] = BAD
             \/ ~ValidGroup(group, AuthoringFields)
          THEN BAD ELSE [group |-> group, onFail |-> onFail]
    BY Zenon DEF CompileDraft
  <2> HIDE DEF group, onFail
  <2> QED BY <2>1
<1>2. onFail \in {"ESCALAR", "NO_PAGAR"}
  OBVIOUS
<1> HIDE DEF group, onFail
<1> QED BY <1>1, <1>2

LEMMA LinesCompile ==
  ASSUME NEW line, NEW drafted
  PROVE  \/ CompileNewRule(line, drafted) = BAD
         \/ \E group, onFail : /\ CompileNewRule(line, drafted) = [group |-> group, onFail |-> onFail]
                               /\ ValidGroup(group, AuthoringFields)
                               /\ onFail \in {"ESCALAR", "NO_PAGAR"}
<1>1. \/ CompileNewRule(line, drafted) = BAD
      \/ CompileNewRule(line, drafted) = CompileDraft(HeuristicDraft(line))
      \/ CompileNewRule(line, drafted) = CompileDraft(drafted)
  BY Zenon DEF CompileNewRule
<1> QED BY <1>1, DraftsCompile

(* What is written for a line that compiled can be executed. *)
LEMMA CompiledIsExecutable ==
  ASSUME BadIsApart, NEW i, NEW group, ValidGroup(group, AuthoringFields),
         NEW onFail \in {"ESCALAR", "NO_PAGAR"}, NEW enableNew \in BOOLEAN,
         NEW compiled, compiled = [group |-> group, onFail |-> onFail], compiled # BAD
  PROVE  ~Unsupported(Enriched(NewRule(i), compiled, enableNew), AuthoringFields, <<>>)
<1>1. PICK rule : rule = Enriched(NewRule(i), compiled, enableNew)
  OBVIOUS
<1>2. /\ rule.kind = "structured" /\ rule.group = group /\ rule.onFail = onFail
      /\ rule.applies = NULL /\ rule.params = <<>> /\ rule.inputs = {} /\ rule.enabled = enableNew
      /\ rule.otherwise \in {"FAIL", "NEEDS_REVIEW"}
  BY <1>1 DEF Enriched, NewRule
<1>3. rule.params # BAD /\ DOMAIN Own(rule) = {}
  BY <1>2 DEF BadIsApart, Own
<1>4. \A d \in Dependencies(rule, AuthoringFields) : FieldId(d.name) \in DOMAIN AuthoringFields
  <2> SUFFICES ASSUME NEW d \in Dependencies(rule, AuthoringFields)
               PROVE  FieldId(d.name) \in DOMAIN AuthoringFields
    OBVIOUS
  <2>1. d \in {Dependency(n, "compliance") : n \in GroupFields(group)}
    BY <1>2 DEF Dependencies
  <2>2. PICK n \in GroupFields(group) : d = Dependency(n, "compliance")
    BY <2>1
  <2> QED BY <2>2, GroupsNeedFields, KnownFields DEF Dependency
<1> QED BY <1>1, <1>2, <1>3, <1>4 DEF Unsupported

(* What a setting becomes is a value the executor takes. *)
LEMMA SettingsTaken ==
  ASSUME NEW family \in Canonicals, NEW lines, IsFiniteSet(lines),
         \A line \in lines : \A n \in {line.above, line.margin} :
            n # NULL /\ DecimalText(n) # BAD => DecimalText(n).cents \in Nat
  PROVE  AllTaken(family, Settings(family, lines))
<1> SUFFICES ASSUME NEW p \in DOMAIN Settings(family, lines)
             PROVE  p \in DOMAIN Defaults[family] /\ Taken(p, Settings(family, lines)[p])
  BY DEF AllTaken
<1>1. PICK line \in lines : /\ p \in DOMAIN Stated(family, line)
                            /\ Stated(family, line)[p] = Settings(family, lines)[p]
  BY SettingsFacts
<1> QED BY <1>1, StatedTaken DEF AllTaken

(* What the executor reads of a value that it takes *)
Fit(p, v) ==
    /\ p \in Flags => v \in BOOLEAN
    /\ p \in {"tolerance_eur", "escalate_above_eur"} => v \in Nat
    /\ p = "required_fields" => v \in (SUBSET DOMAIN FieldWords) \ {{}}
    /\ p \in Flags \union {"tolerance_eur", "escalate_above_eur", "required_fields",
                           "allowed_currencies"}

LEMMA IntervalIsFinite == \A n \in Nat : IsFiniteSet(1..n)
  BY FS_Interval

LEMMA TakenIsFit == ASSUME NEW p, NEW v, Taken(p, v) PROVE Fit(p, Executed(p, v))
<1>1. CASE p \in {"tolerance_eur", "escalate_above_eur"}
  BY <1>1 DEF Taken, Fit, Executed, Flags
<1>2. CASE p \notin {"tolerance_eur", "escalate_above_eur"}
  BY <1>2 DEF Taken, Fit, Executed
<1> QED BY <1>1, <1>2

(* A rule over a family as a profile writes it: the same rule, except that  *)
(* it may be switched on and may have other parameters that fit.            *)
Retuned(rule, base, f) ==
    /\ rule.canonical = f /\ base.canonical = f
    /\ rule.kind = "python_check" /\ base.kind = "python_check"
    /\ rule.declared = base.declared /\ rule.onFail = base.onFail /\ rule.inputs = base.inputs
    /\ rule.enabled \in BOOLEAN
    /\ rule.params # BAD /\ base.params # BAD
    /\ \A p \in DOMAIN rule.params :
          \/ p \in DOMAIN base.params /\ rule.params[p] = base.params[p]
          \/ p \in DOMAIN Defaults[f] /\ Fit(p, rule.params[p])
    /\ DOMAIN base.params \subseteq DOMAIN rule.params

LEMMA CanonicalIsRetuned ==
    ASSUME BadIsApart, AmountsAreNatural, NEW f \in Canonicals, NEW sig, sig.book \in DOMAIN Books,
           NEW classes, NEW n \in Nat, DOMAIN classes = 1..n, DOMAIN classes = DOMAIN Lines(sig)
    PROVE  Retuned(CanonicalRule(f, sig, classes), AsProfiled(sig.policy, f), f)
<1> DEFINE backing == Backing(classes, f)
           lines   == {Lines(sig)[i] : i \in backing}
           profile == Profiles[sig.policy]
           own     == profile.params[f]
           set     == IF profile.sheetParams THEN Settings(f, lines) ELSE <<>>
           none    == IF profile.sheetParams
                      THEN Settings(f, {Books[1][i] : i \in Backing(<<>>, f)}) ELSE <<>>
<1>1. PICK rule : rule = CanonicalRule(f, sig, classes)
  OBVIOUS
<1>2. PICK base : base = AsProfiled(sig.policy, f)
  OBVIOUS
<1>3. /\ rule.canonical = f /\ rule.kind = "python_check" /\ rule.declared = TRUE
      /\ rule.onFail = profile.onFail[f] /\ rule.inputs = InputFields[f]
      /\ rule.enabled = (profile.enabled[f] \/ DOMAIN set # {})
      /\ rule.params = [p \in DOMAIN set \union DOMAIN own |->
                          IF p \in DOMAIN set THEN Executed(p, set[p]) ELSE own[p]]
  BY <1>1 DEF CanonicalRule
<1>4. /\ base.canonical = f /\ base.kind = "python_check" /\ base.declared = TRUE
      /\ base.onFail = profile.onFail[f] /\ base.inputs = InputFields[f]
      /\ base.params = [p \in DOMAIN none \union DOMAIN own |->
                          IF p \in DOMAIN none THEN Executed(p, none[p]) ELSE own[p]]
  BY <1>2 DEF AsProfiled, CanonicalRule, Lines
<1>5. IsFiniteSet(lines)
  <2>0. backing \subseteq DOMAIN classes
    BY DEF Backing
  <2>1. IsFiniteSet(1..n) /\ backing \in SUBSET (1..n)
    BY <2>0, IntervalIsFinite
  <2>2. IsFiniteSet(backing)
    BY <2>1, FS_Subset
  <2> DEFINE g == [i \in backing |-> Lines(sig)[i]]
  <2>3. g \in Surjection(backing, lines)
    BY DEF Surjection
  <2> QED BY <2>2, <2>3, FS_Surjection
<1>6. \A line \in lines : \A x \in {line.above, line.margin} :
          x # NULL /\ DecimalText(x) # BAD => DecimalText(x).cents \in Nat
  BY DEF AmountsAreNatural, Lines, Backing
<1>7. AllTaken(f, set)
  <2> HIDE DEF lines
  <2>1. AllTaken(f, Settings(f, lines))
    BY <1>5, <1>6, SettingsTaken
  <2> QED BY <2>1, NothingTaken
<1>8. DOMAIN none = {}
  <2>1. Backing(<<>>, f) = {}
    BY DEF Backing
  <2>2. DOMAIN Settings(f, {}) = {}
    BY DEF Settings
  <2> QED BY SMTT(30), <2>1, <2>2
<1> HIDE DEF set, none, own, profile
<1>9. rule.params # BAD /\ base.params # BAD
  <2>1. rule.params = [p \in DOMAIN rule.params |-> rule.params[p]]
    BY <1>3
  <2>2. base.params = [p \in DOMAIN base.params |-> base.params[p]]
    BY <1>4
  <2> QED BY <2>1, <2>2 DEF BadIsApart
<1>10. DOMAIN base.params = DOMAIN own /\ \A p \in DOMAIN own : base.params[p] = own[p]
  BY <1>4, <1>8
<1>11. ASSUME NEW p \in DOMAIN rule.params
       PROVE  \/ p \in DOMAIN base.params /\ rule.params[p] = base.params[p]
              \/ p \in DOMAIN Defaults[f] /\ Fit(p, rule.params[p])
  <2>1. CASE p \in DOMAIN set
    <3>1. p \in DOMAIN Defaults[f] /\ Taken(p, set[p])
      BY <1>7, <2>1 DEF AllTaken
    <3>2. rule.params[p] = Executed(p, set[p])
      BY <1>3, <2>1
    <3> QED BY <3>1, <3>2, TakenIsFit
  <2>2. CASE p \notin DOMAIN set
    BY <1>3, <1>10, <1>11, <2>2
  <2> QED BY <2>1, <2>2
<1>12. DOMAIN base.params \subseteq DOMAIN rule.params
  BY <1>3, <1>10
<1>13. rule.enabled \in BOOLEAN
  BY <1>3
<1> QED BY <1>1, <1>2, <1>3, <1>4, <1>9, <1>11, <1>12, <1>13 DEF Retuned

(* The effective parameters of a retuned rule *)
LEMMA RetunedParams ==
    ASSUME NEW f \in Canonicals, NEW rule, NEW base, Retuned(rule, base, f),
           DOMAIN base.params \subseteq DOMAIN Defaults[f],
           NEW p, p = Params(rule), NEW q, q = Params(base)
    PROVE  /\ DOMAIN p = DOMAIN Defaults[f] /\ DOMAIN q = DOMAIN Defaults[f]
           /\ \A k \in DOMAIN p : p[k] = q[k] \/ Fit(k, p[k])
<1>1. Own(rule) = rule.params /\ Own(base) = base.params
  BY DEF Own, Retuned
<1>2. /\ DOMAIN p = DOMAIN rule.params \union DOMAIN Defaults[f]
      /\ \A k \in DOMAIN p : p[k] = IF k \in DOMAIN rule.params THEN rule.params[k] ELSE Defaults[f][k]
  BY <1>1 DEF Params, Over, Retuned
<1>3. /\ DOMAIN q = DOMAIN base.params \union DOMAIN Defaults[f]
      /\ \A k \in DOMAIN q : q[k] = IF k \in DOMAIN base.params THEN base.params[k] ELSE Defaults[f][k]
  BY <1>1 DEF Params, Over, Retuned
<1> QED BY <1>2, <1>3 DEF Retuned

(* What can be executed can be executed retuned. *)
LEMMA RetunedIsExecutable ==
    ASSUME BadIsApart, NEW f \in Canonicals, NEW rule, NEW base, Retuned(rule, base, f),
           ~Unsupported(base, AuthoringFields, <<>>)
    PROVE  ~Unsupported(rule, AuthoringFields, <<>>)
<1>1. PICK p : p = Params(rule)
  OBVIOUS
<1>2. PICK q : q = Params(base)
  OBVIOUS
<1>3. /\ ~ParameterErrors(base, <<>>) /\ base.onFail \in {"ESCALAR", "NO_PAGAR"}
      /\ \A d \in Dependencies(base, AuthoringFields) : FieldId(d.name) \in RegistryFields
  BY KnownFields DEF Unsupported, Retuned
<1>4. /\ DOMAIN p = DOMAIN Defaults[f] /\ DOMAIN q = DOMAIN Defaults[f]
      /\ \A k \in DOMAIN p : p[k] = q[k] \/ Fit(k, p[k])
  <2>1. DOMAIN base.params \subseteq DOMAIN Defaults[f]
    BY <1>3 DEF ParameterErrors, Retuned, Own
  <2> QED BY <1>1, <1>2, <2>1, RetunedParams
<1>5. ~ParameterErrors(rule, <<>>)
  <2>1. rule.declared
    BY <1>3 DEF ParameterErrors, Retuned
  <2>2. \A k \in DOMAIN Own(rule) : k \in DOMAIN Defaults[f]
    BY <1>3 DEF ParameterErrors, Retuned, Own
  <2>3. \A k \in Flags \intersect DOMAIN p : p[k] \in BOOLEAN
    BY <1>2, <1>3, <1>4 DEF ParameterErrors, Fit, Retuned
  <2>4. f = "AMOUNT" => /\ ~(p["tolerance_eur"] = BAD \/ p["tolerance_eur"] < 0)
                        /\ p["order_currency_policy"] \in {"explicit", "invoice"}
    <3> SUFFICES ASSUME f = "AMOUNT" 
                 PROVE  /\ ~(p["tolerance_eur"] = BAD \/ p["tolerance_eur"] < 0)
                        /\ p["order_currency_policy"] \in {"explicit", "invoice"}
      OBVIOUS
    <3>1. "tolerance_eur" \in DOMAIN p /\ "order_currency_policy" \in DOMAIN p
      BY <1>4, DefaultsAre
    <3>2. /\ ~(q["tolerance_eur"] = BAD \/ q["tolerance_eur"] < 0)
          /\ q["order_currency_policy"] \in {"explicit", "invoice"}
      BY <1>2, <1>3 DEF ParameterErrors, Retuned
    <3>3. p["tolerance_eur"] = q["tolerance_eur"] \/ p["tolerance_eur"] \in Nat
      BY <1>4, <3>1 DEF Fit
    <3>4. p["order_currency_policy"] = q["order_currency_policy"]
      BY <1>4, <3>1 DEF Fit, Flags
    <3> QED BY <3>2, <3>3, <3>4 DEF BadIsApart
  <2>5. f = "AUTHORIZATION" => ~(p["escalate_above_eur"] = BAD \/ p["escalate_above_eur"] < 0)
    <3> SUFFICES ASSUME f = "AUTHORIZATION"
                 PROVE  ~(p["escalate_above_eur"] = BAD \/ p["escalate_above_eur"] < 0)
      OBVIOUS
    <3>1. "escalate_above_eur" \in DOMAIN p
      BY <1>4, DefaultsAre
    <3>2. ~(q["escalate_above_eur"] = BAD \/ q["escalate_above_eur"] < 0)
      BY <1>2, <1>3 DEF ParameterErrors, Retuned
    <3>3. p["escalate_above_eur"] = q["escalate_above_eur"] \/ p["escalate_above_eur"] \in Nat
      BY <1>4, <3>1 DEF Fit
    <3> QED BY <3>2, <3>3 DEF BadIsApart
  <2>6. f = "MISSING" => p["required_fields"] \notin {BAD, {}}
    <3> SUFFICES ASSUME f = "MISSING" PROVE p["required_fields"] \notin {BAD, {}}
      OBVIOUS
    <3>1. "required_fields" \in DOMAIN p
      BY <1>4, DefaultsAre
    <3>2. q["required_fields"] \notin {BAD, {}}
      BY <1>2, <1>3 DEF ParameterErrors, Retuned
    <3>3. \/ p["required_fields"] = q["required_fields"]
          \/ p["required_fields"] \in (SUBSET DOMAIN FieldWords) \ {{}}
      BY <1>4, <3>1 DEF Fit
    <3> QED BY <3>2, <3>3 DEF BadIsApart
  <2>7. f = "DUPLICATES" => /\ p["hard_key"] = {"invoice.number", "supplier.id"}
                            /\ p["soft_key"] = {"invoice.total", "invoice.issue_date"}
                            /\ p["soft_duplicate_verdict"] = "NEEDS_REVIEW"
    <3> SUFFICES ASSUME f = "DUPLICATES"
                 PROVE  /\ p["hard_key"] = {"invoice.number", "supplier.id"}
                        /\ p["soft_key"] = {"invoice.total", "invoice.issue_date"}
                        /\ p["soft_duplicate_verdict"] = "NEEDS_REVIEW"
      OBVIOUS
    <3>1. {"hard_key", "soft_key", "soft_duplicate_verdict"} \subseteq DOMAIN p
      BY <1>4, DefaultsAre
    <3>2. /\ q["hard_key"] = {"invoice.number", "supplier.id"}
          /\ q["soft_key"] = {"invoice.total", "invoice.issue_date"}
          /\ q["soft_duplicate_verdict"] = "NEEDS_REVIEW"
      BY <1>2, <1>3 DEF ParameterErrors, Retuned
    <3>3. \A k \in {"hard_key", "soft_key", "soft_duplicate_verdict"} : p[k] = q[k]
      BY <1>4, <3>1 DEF Fit, Flags
    <3> QED BY <3>2, <3>3
  <2> QED BY <1>1, <2>1, <2>2, <2>3, <2>4, <2>5, <2>6, <2>7 DEF ParameterErrors, Retuned
<1>6. \A n \in CanonicalRequests(base) \union base.inputs : FieldId(n) \in RegistryFields
  <2>1. \A n \in CanonicalRequests(base) : Dependency(n, "compliance") \in Dependencies(base, AuthoringFields)
    BY DEF Dependencies, Executable, Retuned
  <2>2. \A n \in base.inputs : Dependency(n, "unconditional") \in Dependencies(base, AuthoringFields)
    BY DEF Dependencies
  <2>3. \A n, phase : Dependency(n, phase).name = n
    BY DEF Dependency
  <2> QED BY <1>3, <2>1, <2>2, <2>3
<1>7. ASSUME NEW n \in CanonicalRequests(rule) PROVE FieldId(n) \in RegistryFields
  <2>1. CASE n \in BaseDependencies(f)
    BY <1>6, <2>1 DEF CanonicalRequests, Retuned
  <2>2. CASE \E flag : n \in FlagDependencies(flag)
    BY <2>2, FlagsNeedFields
  <2>3. CASE f = "DUPLICATES" /\ n \in p["hard_key"] \union p["soft_key"]
    <3>1. {"hard_key", "soft_key"} \subseteq DOMAIN p
      BY <1>4, <2>3, DefaultsAre
    <3>2. p["hard_key"] = q["hard_key"] /\ p["soft_key"] = q["soft_key"]
      BY <1>4, <3>1 DEF Fit, Flags
    <3> QED BY <1>2, <1>6, <2>3, <3>2 DEF CanonicalRequests, Retuned
  <2>4. CASE f = "MISSING" /\ p["required_fields"] # BAD /\ n \in p["required_fields"]
    <3>1. "required_fields" \in DOMAIN p
      BY <1>4, <2>4, DefaultsAre
    <3>2. p["required_fields"] = q["required_fields"] \/ n \in DOMAIN FieldWords
      BY <1>4, <2>4, <3>1 DEF Fit
    <3> QED BY <1>2, <1>6, <2>4, <3>2, WordsAreFields DEF CanonicalRequests, Retuned
  <2> QED BY <1>1, <1>7, <2>1, <2>2, <2>3, <2>4 DEF CanonicalRequests, Retuned
<1>8. \A d \in Dependencies(rule, AuthoringFields) : FieldId(d.name) \in RegistryFields
  <2> SUFFICES ASSUME NEW d \in Dependencies(rule, AuthoringFields) PROVE FieldId(d.name) \in RegistryFields
    OBVIOUS
  <2>1. \E n \in CanonicalRequests(rule) \union base.inputs : d.name = n
    BY DEF Dependencies, Dependency, Retuned
  <2> QED BY <1>6, <1>7, <2>1
<1> QED BY <1>3, <1>5, <1>8, KnownFields DEF Unsupported, Executable, Retuned

(* What a profile has and the sheet retunes can be executed. *)
LEMMA CanonicalIsExecutable ==
    ASSUME SourcesAreSound, NEW f \in Canonicals, NEW sig,
           sig.book \in DOMAIN Books, sig.policy \in DOMAIN Profiles,
           NEW classes, NEW n \in Nat, DOMAIN classes = 1..n, DOMAIN classes = DOMAIN Lines(sig)
    PROVE  ~Unsupported(CanonicalRule(f, sig, classes), AuthoringFields, <<>>)
<1>1. PICK rule : rule = CanonicalRule(f, sig, classes)
  OBVIOUS
<1>2. PICK base : base = AsProfiled(sig.policy, f)
  OBVIOUS
<1>3. Retuned(rule, base, f)
  BY <1>1, <1>2, CanonicalIsRetuned DEF SourcesAreSound
<1>4. ~Unsupported(base, AuthoringFields, <<>>)
  BY <1>2 DEF SourcesAreSound, ProfilesAreExecutable
<1> QED BY <1>1, <1>3, <1>4, RetunedIsExecutable DEF SourcesAreSound

(* So can what is written for a line of no family, once it is enabled. *)
LEMMA WrittenIsExecutable ==
    ASSUME SourcesAreSound, NEW sig, sig.policy \in DOMAIN Profiles, NEW i, NEW line, NEW drafted,
           NEW compiled, compiled = CompileNewRule(line, drafted),
           NEW enableNew, enableNew = Profiles[sig.policy].enableNew,
           Enriched(NewRule(i), compiled, enableNew).enabled
    PROVE  ~Unsupported(Enriched(NewRule(i), compiled, enableNew), AuthoringFields, <<>>)
<1>1. compiled # BAD
  BY DEF Enriched, NewRule
<1>2. enableNew \in BOOLEAN
  BY DEF SourcesAreSound, ProfilesAreExecutable
<1>3. PICK group, onFail : /\ compiled = [group |-> group, onFail |-> onFail]
                           /\ ValidGroup(group, AuthoringFields)
                           /\ onFail \in {"ESCALAR", "NO_PAGAR"}
  BY <1>1, LinesCompile
<1> QED BY <1>1, <1>2, <1>3, CompiledIsExecutable DEF SourcesAreSound

-----------------------------------------------------------------------------
(* Rule sets *)

(* Every line of the sheet is rejected or backs one rule. *)
LinesKept(set) ==
    \A i \in DOMAIN Books[set.of.book] :
        IF i \in set.rejected THEN {rule \in set.rules : i \in rule.lines} = {}
        ELSE \E x \in set.rules : {rule \in set.rules : i \in rule.lines} = {x}

(* A parameter has the profile's value, or the one that all the lines state *)
ParameterIsStated(rule, of) ==
    LET own == Profiles[of.policy].params[rule.canonical]
        stating(p) == {l \in {Books[of.book][i] : i \in rule.lines} :
                          p \in DOMAIN Stated(rule.canonical, l)}
    IN  \A p \in DOMAIN rule.params :
          \/ p \in DOMAIN own /\ rule.params[p] = own[p]
          \/ /\ Profiles[of.policy].sheetParams /\ stating(p) # {}
             /\ \A l \in stating(p) : Executed(p, Stated(rule.canonical, l)[p]) = rule.params[p]

Sources(sig) == [book |-> sig.book, policy |-> sig.policy]

(* A rule set as it is generated from the sources of sig *)
Authored(set, sig) ==
    /\ DOMAIN set = {"rules", "rejected", "of"}
    /\ set.of = Sources(sig)
    /\ LinesKept(set)
    /\ \A rule \in set.rules : rule.kind = "python_check" => ParameterIsStated(rule, set.of)
    /\ SourcesAreSound => Executables(set.rules)

(* The rules of no family that are still to be compiled *)
Pending(set, todo) == \A i \in todo : NewRule(i) \in set.rules

LEMMA NewRuleFacts ==
    \A i : NewRule(i).lines = {i} /\ NewRule(i).kind = "pending"
BY DEF NewRule

LEMMA EnrichedFacts ==
    ASSUME NEW i, NEW compiled, NEW enableNew
    PROVE  /\ Enriched(NewRule(i), compiled, enableNew).lines = {i}
           /\ Enriched(NewRule(i), compiled, enableNew).kind # "python_check"
<1>1. CASE compiled = BAD
  BY <1>1, NewRuleFacts DEF Enriched
<1>2. CASE compiled # BAD
  BY <1>2 DEF Enriched, NewRule
<1> QED BY <1>1, <1>2

LEMMA CanonicalFacts ==
    ASSUME NEW f \in Canonicals, NEW sig, NEW classes, NEW rule, rule = CanonicalRule(f, sig, classes)
    PROVE  /\ rule.id = f /\ rule.canonical = f /\ rule.kind = "python_check"
           /\ rule.lines = Backing(classes, f)
BY DEF CanonicalRule

LEMMA CanonicalParams ==
    ASSUME NEW f \in Canonicals, NEW sig, NEW classes, NEW n \in Nat, DOMAIN classes = 1..n,
           NEW rule, rule = CanonicalRule(f, sig, classes)
    PROVE  ParameterIsStated(rule, Sources(sig))
<1> DEFINE backing == Backing(classes, f)
           lines   == {Lines(sig)[i] : i \in backing}
           profile == Profiles[sig.policy]
           own     == profile.params[f]
           set     == IF profile.sheetParams THEN Settings(f, lines) ELSE <<>>
<1>1. IsFiniteSet(backing)
  <2>0. backing \subseteq DOMAIN classes
    BY DEF Backing
  <2>1. IsFiniteSet(1..n) /\ backing \in SUBSET (1..n)
    BY <2>0, IntervalIsFinite
  <2> QED BY <2>1, FS_Subset
<1>2. IsFiniteSet(lines)
  <2> DEFINE g == [i \in backing |-> Lines(sig)[i]]
  <2>1. g \in Surjection(backing, lines)
    BY DEF Surjection
  <2> QED BY <1>1, <2>1, FS_Surjection
<1>3. rule.params = [p \in DOMAIN set \union DOMAIN own |->
                        IF p \in DOMAIN set THEN Executed(p, set[p]) ELSE own[p]]
  BY DEF CanonicalRule
<1>4. rule.canonical = f /\ rule.lines = backing
  BY CanonicalFacts
<1>5. Sources(sig).policy = sig.policy /\ Sources(sig).book = sig.book
  BY DEF Sources
<1>6. lines = {Books[sig.book][i] : i \in backing}
  BY DEF Lines
<1> HIDE DEF set, own, profile, backing
<1>7. ASSUME NEW p \in DOMAIN rule.params
      PROVE  \/ p \in DOMAIN own /\ rule.params[p] = own[p]
             \/ /\ profile.sheetParams
                /\ {l \in lines : p \in DOMAIN Stated(f, l)} # {}
                /\ \A l \in {m \in lines : p \in DOMAIN Stated(f, m)} :
                      Executed(p, Stated(f, l)[p]) = rule.params[p]
  <2>1. CASE p \notin DOMAIN set
    BY <1>3, <1>7, <2>1
  <2>2. CASE p \in DOMAIN set
    <3>1. profile.sheetParams /\ set = Settings(f, lines)
      BY <2>2 DEF set
    <3>2. rule.params[p] = Executed(p, set[p])
      BY <1>3, <2>2
    <3>3. /\ {l \in lines : p \in DOMAIN Stated(f, l)} # {}
          /\ \A l \in lines : p \in DOMAIN Stated(f, l) => Stated(f, l)[p] = set[p]
      <4> HIDE DEF lines
      <4> QED BY <1>2, <2>2, <3>1, SettingsFacts
    <3> QED BY <3>1, <3>2, <3>3
  <2> QED BY <2>1, <2>2
<1> HIDE DEF lines
<1> QED BY <1>4, <1>5, <1>6, <1>7 DEF ParameterIsStated, own, profile

(* build_ruleset over a sheet whose lines are all classified *)
LEMMA RulesetAuthored ==
    ASSUME NEW sig, sig.book \in DOMAIN Books, sig.policy \in DOMAIN Profiles,
           NEW classes, DOMAIN classes = DOMAIN Lines(sig),
           \A i \in DOMAIN classes : Classified(classes[i])
    PROVE  /\ Authored(Ruleset(sig, classes), sig)
           /\ Pending(Ruleset(sig, classes), Filed(classes, "NEW_RULE"))
<1> DEFINE set == Ruleset(sig, classes)
           canonical == {CanonicalRule(f, sig, classes) : f \in Canonicals}
           own == {NewRule(i) : i \in Filed(classes, "NEW_RULE")}
<1>1. /\ DOMAIN set = {"rules", "rejected", "of"}
      /\ set.of = Sources(sig)
      /\ set.rules = canonical \union own
      /\ set.rejected = Filed(classes, "NOT_A_RULE")
  BY DEF Ruleset, Sources
<1>2. PICK n \in Nat : DOMAIN classes = 1..n
  BY AuthoringAssumption DEF Lines
<1>3. \A rule \in own : \E i \in Filed(classes, "NEW_RULE") :
          rule = NewRule(i) /\ rule.lines = {i} /\ rule.kind = "pending"
  BY NewRuleFacts
<1>4. \A rule \in canonical : \E f \in Canonicals :
          rule = CanonicalRule(f, sig, classes) /\ rule.lines = Backing(classes, f)
  BY CanonicalFacts
<1> HIDE DEF set
<1>5. ASSUME NEW rule \in set.rules, rule.kind = "python_check"
      PROVE  ParameterIsStated(rule, set.of)
  <2>1. rule \in canonical
    BY <1>1, <1>3, <1>5
  <2>2. PICK f \in Canonicals : rule = CanonicalRule(f, sig, classes)
    BY <2>1
  <2> QED BY <1>1, <1>2, <2>2, CanonicalParams
<1>6. ASSUME NEW i \in DOMAIN classes
      PROVE  IF i \in set.rejected THEN {rule \in set.rules : i \in rule.lines} = {}
             ELSE \E x \in set.rules : {rule \in set.rules : i \in rule.lines} = {x}
  <2>1. \A rule \in own : i \in rule.lines => classes[i].route = "NEW_RULE" /\ rule = NewRule(i)
    BY <1>3 DEF Filed
  <2>2. \A rule \in canonical : i \in rule.lines =>
            /\ classes[i].route = "ACTIVATE"
            /\ rule = CanonicalRule(classes[i].label, sig, classes)
    BY <1>4 DEF Backing
  <2> HIDE DEF canonical, own
  <2>3. CASE classes[i].route = "ACTIVATE"
    <3>1. classes[i].label \in Canonicals
      BY <2>3 DEF Classified
    <3>2. PICK x : x = CanonicalRule(classes[i].label, sig, classes)
      OBVIOUS
    <3>3. x \in canonical /\ x.lines = Backing(classes, classes[i].label)
      BY <3>1, <3>2, CanonicalFacts DEF canonical
    <3>4. i \in x.lines
      BY <2>3, <3>3 DEF Backing
    <3>5. {rule \in set.rules : i \in rule.lines} = {x}
      BY <1>1, <2>1, <2>2, <2>3, <3>2, <3>3, <3>4
    <3>6. i \notin set.rejected
      BY <1>1, <2>3 DEF Filed
    <3> QED BY <3>5, <3>6
  <2>4. CASE classes[i].route = "NEW_RULE"
    <3>1. NewRule(i) \in own
      BY <2>4 DEF own, Filed
    <3>2. {rule \in set.rules : i \in rule.lines} = {NewRule(i)}
      BY <1>1, <2>1, <2>2, <2>4, <3>1, NewRuleFacts
    <3>3. i \notin set.rejected
      BY <1>1, <2>4 DEF Filed
    <3> QED BY <3>2, <3>3
  <2>5. CASE classes[i].route = "NOT_A_RULE"
    <3>1. {rule \in set.rules : i \in rule.lines} = {}
      BY <1>1, <2>1, <2>2, <2>5
    <3>2. i \in set.rejected
      BY <1>1, <2>5 DEF Filed
    <3> QED BY <3>1, <3>2
  <2> QED BY <2>3, <2>4, <2>5 DEF Classified, Routes
<1>7. DOMAIN Books[set.of.book] = DOMAIN classes
  BY <1>1 DEF Sources, Lines
<1>8. LinesKept(set)
  BY <1>6, <1>7 DEF LinesKept
<1>9. Pending(set, Filed(classes, "NEW_RULE"))
  BY <1>1 DEF Pending
<1>10. SourcesAreSound => Executables(set.rules)
  <2>1. ASSUME SourcesAreSound, NEW f \in Canonicals
        PROVE  ~Unsupported(CanonicalRule(f, sig, classes), AuthoringFields, <<>>)
    BY <1>2, <2>1, CanonicalIsExecutable
  <2>2. \A rule \in own : rule.enabled = FALSE
    BY <1>3 DEF NewRule
  <2> QED BY <1>1, <1>4, <2>1, <2>2 DEF Executables
<1> QED BY <1>1, <1>5, <1>8, <1>9, <1>10 DEF Authored, set

(* enrich_new_rules: one pending rule is replaced by its compiled form.     *)
LEMMA CompiledAuthored ==
    ASSUME NEW sig, NEW set, Authored(set, sig), NEW i \in DOMAIN Lines(sig), NEW todo,
           i \in todo, Pending(set, todo), sig.policy \in DOMAIN Profiles,
           NEW drafted, NEW compiled, compiled = CompileNewRule(Lines(sig)[i], drafted),
           NEW enableNew, enableNew = Profiles[sig.policy].enableNew,
           NEW next, DOMAIN next = {"rules", "rejected", "of"},
           next.of = set.of, next.rejected = set.rejected,
           next.rules = (set.rules \ {NewRule(i)}) \union {Enriched(NewRule(i), compiled, enableNew)}
    PROVE  Authored(next, sig) /\ Pending(next, todo \ {i})
<1> DEFINE new == NewRule(i)
           rule == Enriched(new, compiled, enableNew)
<1>1. new \in set.rules /\ new.lines = {i}
  BY NewRuleFacts DEF Pending
<1>2. rule.lines = {i} /\ rule.kind # "python_check"
  BY EnrichedFacts
<1>3. next.rules = (set.rules \ {new}) \union {rule}
  OBVIOUS
<1> HIDE DEF new, rule
<1>4. set.of.book = sig.book
  BY DEF Authored, Sources
<1>5. ASSUME NEW k \in DOMAIN Books[next.of.book]
      PROVE  IF k \in next.rejected THEN {x \in next.rules : k \in x.lines} = {}
             ELSE \E y \in next.rules : {x \in next.rules : k \in x.lines} = {y}
  <2>1. IF k \in set.rejected THEN {x \in set.rules : k \in x.lines} = {}
        ELSE \E y \in set.rules : {x \in set.rules : k \in x.lines} = {y}
    BY <1>5 DEF Authored, LinesKept
  <2>2. CASE k = i
    <3>1. new \in {x \in set.rules : k \in x.lines}
      BY <1>1, <2>2
    <3>2. k \notin set.rejected
      BY <2>1, <3>1
    <3>3. {x \in set.rules : k \in x.lines} = {new}
      BY <2>1, <3>1, <3>2
    <3>4. {x \in next.rules : k \in x.lines} = {rule}
      BY <1>2, <1>3, <2>2, <3>3
    <3> QED BY <3>2, <3>4
  <2>3. CASE k # i
    <3>1. {x \in next.rules : k \in x.lines} = {x \in set.rules : k \in x.lines}
      BY <1>1, <1>2, <1>3, <2>3
    <3> QED BY <2>1, <3>1
  <2> QED BY <2>2, <2>3
<1>6. \A x \in next.rules : x.kind = "python_check" => ParameterIsStated(x, next.of)
  BY <1>2, <1>3 DEF Authored
<1>7. LinesKept(next)
  BY <1>5 DEF LinesKept
<1>8. Authored(next, sig)
  <2>1. SourcesAreSound /\ rule.enabled => ~Unsupported(rule, AuthoringFields, <<>>)
    BY WrittenIsExecutable DEF new, rule
  <2>2. SourcesAreSound => Executables(next.rules)
    BY <1>3, <2>1 DEF Authored, Executables
  <2> QED BY <1>6, <1>7, <2>2 DEF Authored
<1>9. ASSUME NEW j \in todo \ {i} PROVE NewRule(j) \in next.rules
  <2>1. NewRule(j) \in set.rules /\ NewRule(j).lines = {j}
    BY NewRuleFacts DEF Pending
  <2>2. NewRule(j) # new
    BY <1>1, <1>9, <2>1
  <2> QED BY <1>3, <2>1, <2>2
<1> QED BY <1>8, <1>9 DEF Pending

-----------------------------------------------------------------------------
(* The inductive invariant *)

TaskFields == {"pc", "sig", "classes", "todo", "rules"}
Generating == {"pinning", "classifying", "compiling"}
Having     == {"served", "completed"}
Locations  == {"idle", "asking", "failed"} \union Generating \union Having

IsSequence(s) == s \in Seq({s[i] : i \in DOMAIN s})

(* What a revision knows at each point, with the runs as they are in table: *)
(* who generates holds the run of its signature, what it has compiled so    *)
(* far keeps the norm, and who is served has what the run recorded.         *)
TaskInv(w, table) ==
    /\ DOMAIN w = TaskFields
    /\ w.pc \in Locations
    /\ w.pc \in {"asking"} \union Generating \union Having => w.sig \in Signatures
    /\ w.pc = "asking" => w.classes = <<>>
    /\ w.pc \in Generating => w.sig \in DOMAIN table /\ table[w.sig].state = "running"
    /\ w.pc = "pinning" => w.sig.pinned # NULL
    /\ w.pc \in {"classifying", "compiling"} => w.sig.pinned = NULL
    /\ w.pc = "classifying" =>
          /\ IsSequence(w.classes) /\ Len(w.classes) <= Len(Lines(w.sig))
          /\ \A i \in DOMAIN w.classes : Classified(w.classes[i])
    /\ w.pc = "compiling" =>
          /\ Authored(w.rules, w.sig)
          /\ w.todo \subseteq DOMAIN Lines(w.sig)
          /\ Pending(w.rules, w.todo)
    /\ w.pc \in Having => /\ w.sig \in DOMAIN table
                          /\ table[w.sig].state = "completed"
                          /\ table[w.sig].rules = w.rules

(* A completed run holds rules of its own sources, which are those of the   *)
(* revision it pins, if any.                                                *)
RunInv(g, run, tasks) ==
    /\ run.state \in {"running", "unknown", "completed"}
    /\ run.state = "completed" =>
          /\ Authored(run.rules, g)
          /\ g.pinned # NULL => /\ tasks[g.pinned].pc = "completed"
                                /\ tasks[g.pinned].rules = run.rules

OneAuthor ==
    \A r, s \in Revisions :
        work[r].pc \in Generating /\ work[s].pc \in Generating /\ work[r].sig = work[s].sig => r = s

AuthoringInv ==
    /\ book \in DOMAIN Books
    /\ DOMAIN work = Revisions /\ work = [r \in Revisions |-> work[r]]
    /\ DOMAIN runs \subseteq Signatures
    /\ \A r \in Revisions : TaskInv(work[r], runs)
    /\ \A g \in DOMAIN runs : RunInv(g, runs[g], work)
    /\ OneAuthor

-----------------------------------------------------------------------------
(* What an action writes into a task *)

Moved(w, pc)           == [w EXCEPT !.pc = pc]
Given(w, rules)        == [w EXCEPT !.pc = "served", !.rules = rules]
Classing(w, classes)   == [w EXCEPT !.classes = classes]
Drafting(w, todo, set) == [w EXCEPT !.pc = "compiling", !.classes = <<>>, !.todo = todo, !.rules = set]
Replaced(w, i, new, rule) ==
    [w EXCEPT !.todo = @ \ {i}, !.rules.rules = (@ \ {new}) \union {rule}]

LEMMA MovedFacts ==
    ASSUME NEW w, DOMAIN w = TaskFields, NEW pc, NEW v, v = Moved(w, pc)
    PROVE  /\ DOMAIN v = TaskFields /\ v.pc = pc /\ v.sig = w.sig
           /\ v.classes = w.classes /\ v.todo = w.todo /\ v.rules = w.rules
BY DEF Moved, TaskFields

LEMMA GivenFacts ==
    ASSUME NEW w, DOMAIN w = TaskFields, NEW rules_, NEW v, v = Given(w, rules_)
    PROVE  DOMAIN v = TaskFields /\ v.pc = "served" /\ v.sig = w.sig /\ v.rules = rules_
BY DEF Given, TaskFields

LEMMA ClassingFacts ==
    ASSUME NEW w, DOMAIN w = TaskFields, NEW classes, NEW v, v = Classing(w, classes)
    PROVE  DOMAIN v = TaskFields /\ v.pc = w.pc /\ v.sig = w.sig /\ v.classes = classes
BY DEF Classing, TaskFields

LEMMA DraftingFacts ==
    ASSUME NEW w, DOMAIN w = TaskFields, NEW todo, NEW set, NEW v, v = Drafting(w, todo, set)
    PROVE  /\ DOMAIN v = TaskFields /\ v.pc = "compiling" /\ v.sig = w.sig
           /\ v.todo = todo /\ v.rules = set
BY DEF Drafting, TaskFields

LEMMA ReplacedFacts ==
    ASSUME NEW w, DOMAIN w = TaskFields, DOMAIN w.rules = {"rules", "rejected", "of"},
           NEW i, NEW new, NEW rule, NEW v, v = Replaced(w, i, new, rule)
    PROVE  /\ DOMAIN v = TaskFields /\ v.pc = w.pc /\ v.sig = w.sig
           /\ v.todo = w.todo \ {i}
           /\ DOMAIN v.rules = {"rules", "rejected", "of"}
           /\ v.rules.of = w.rules.of /\ v.rules.rejected = w.rules.rejected
           /\ v.rules.rules = (w.rules.rules \ {new}) \union {rule}
BY DEF Replaced, TaskFields

LEMMA SequenceGrows ==
    ASSUME NEW s, IsSequence(s), NEW e
    PROVE  /\ IsSequence(Append(s, e))
           /\ Len(s) \in Nat /\ DOMAIN s = 1..Len(s)
           /\ Len(Append(s, e)) = Len(s) + 1 /\ DOMAIN Append(s, e) = 1..(Len(s) + 1)
           /\ Append(s, e)[Len(s) + 1] = e
           /\ \A i \in 1..Len(s) : Append(s, e)[i] = s[i]
<1> DEFINE S == {s[i] : i \in DOMAIN s}
           t == Append(s, e)
<1>1. s \in Seq(S)
  BY DEF IsSequence
<1> HIDE DEF S
<1>2. s \in Seq(S \union {e})
  BY <1>1
<1>3. /\ t \in Seq(S \union {e})
      /\ Len(s) \in Nat /\ DOMAIN s = 1..Len(s)
      /\ Len(t) = Len(s) + 1 /\ DOMAIN t = 1..(Len(s) + 1)
      /\ t[Len(s) + 1] = e
      /\ \A i \in 1..Len(s) : t[i] = s[i]
  BY <1>2
<1>4. \A x \in S \union {e} : \E i \in DOMAIN t : t[i] = x
  <2>1. \A x \in S : \E i \in 1..Len(s) : s[i] = x
    BY <1>3 DEF S
  <2> QED BY <1>3, <2>1
<1>5. S \union {e} = {t[i] : i \in DOMAIN t}
  <2>1. \A i \in DOMAIN t : t[i] \in S \union {e}
    BY <1>3
  <2> QED BY <1>4, <2>1
<1>6. t \in Seq({t[i] : i \in DOMAIN t})
  <2> HIDE DEF t
  <2> QED BY <1>3, <1>5
<1> QED BY <1>3, <1>6 DEF IsSequence

-----------------------------------------------------------------------------
(* Every step keeps the invariant: in general *)

(* One revision moves, and writes only runs that it holds or that nobody    *)
(* has claimed.                                                             *)
LEMMA StepOf ==
    ASSUME AuthoringInv, NEW r \in Revisions, NEW v, NEW W \in SUBSET Signatures,
           work[r].pc # "completed", book' \in DOMAIN Books,
           work' = [work EXCEPT ![r] = v],
           DOMAIN runs' = DOMAIN runs \union W,
           \A g \in DOMAIN runs \ W : runs'[g] = runs[g],
           \A g \in W : /\ \/ g \notin DOMAIN runs
                           \/ work[r].pc \in Generating /\ work[r].sig = g
                        /\ RunInv(g, runs'[g], work'),
           TaskInv(v, runs'),
           v.pc \in Generating => \/ v.sig \notin DOMAIN runs
                                  \/ work[r].pc \in Generating /\ work[r].sig = v.sig
    PROVE  AuthoringInv'
<1>1. DOMAIN work = Revisions /\ work'[r] = v /\ \A s \in Revisions : s # r => work'[s] = work[s]
  BY DEF AuthoringInv
<1>2. DOMAIN work' = Revisions /\ work' = [s \in Revisions |-> work'[s]]
  BY <1>1
<1>3. DOMAIN runs' \subseteq Signatures
  BY DEF AuthoringInv
<1>4. ASSUME NEW s \in Revisions, s # r PROVE TaskInv(work[s], runs')
  <2>1. TaskInv(work[s], runs)
    BY DEF AuthoringInv
  <2>2. ASSUME work[s].pc \in Generating \union Having
        PROVE  work[s].sig \in DOMAIN runs /\ work[s].sig \notin W
    <3>1. work[s].sig \in DOMAIN runs
      BY <2>1, <2>2 DEF TaskInv
    <3>2. ASSUME work[s].sig \in W PROVE FALSE
      <4>1. work[r].pc \in Generating /\ work[r].sig = work[s].sig
        BY <3>1, <3>2
      <4>2. runs[work[r].sig].state = "running"
        BY <4>1 DEF AuthoringInv, TaskInv
      <4>3. CASE work[s].pc \in Generating
        BY <1>4, <4>1, <4>3 DEF AuthoringInv, OneAuthor
      <4>4. CASE work[s].pc \in Having
        BY <2>1, <4>1, <4>2, <4>4 DEF TaskInv
      <4> QED BY <2>2, <4>3, <4>4
    <3> QED BY <3>1, <3>2
  <2>3. work[s].pc \in Generating \union Having =>
            work[s].sig \in DOMAIN runs' /\ runs'[work[s].sig] = runs[work[s].sig]
    BY <2>2
  <2> QED BY <2>1, <2>3 DEF TaskInv
<1>5. \A s \in Revisions : TaskInv(work'[s], runs')
  BY <1>1, <1>4
<1>6. ASSUME NEW g \in DOMAIN runs' PROVE RunInv(g, runs'[g], work')
  <2>1. CASE g \in W
    BY <2>1
  <2>2. CASE g \notin W
    <3>1. g \in DOMAIN runs /\ runs'[g] = runs[g] /\ RunInv(g, runs[g], work)
      BY <2>2 DEF AuthoringInv
    <3>2. g.pinned # NULL => g.pinned \in Revisions
      BY <1>3 DEF Signatures
    <3>3. runs[g].state = "completed" /\ g.pinned # NULL => work'[g.pinned] = work[g.pinned]
      BY <1>1, <3>1, <3>2 DEF RunInv
    <3> QED BY <3>1, <3>3 DEF RunInv
  <2> QED BY <2>1, <2>2
<1>7. OneAuthor'
  <2> SUFFICES ASSUME NEW q \in Revisions, NEW s \in Revisions, q # s,
                      work'[q].pc \in Generating, work'[s].pc \in Generating,
                      work'[q].sig = work'[s].sig
               PROVE  FALSE
    BY DEF OneAuthor
  <2>1. CASE q # r /\ s # r
    BY <1>1, <2>1 DEF AuthoringInv, OneAuthor
  <2>2. ASSUME NEW x \in Revisions, x # r, work[x].pc \in Generating,
               v.pc \in Generating, work[x].sig = v.sig
        PROVE  FALSE
    <3>1. work[x].sig \in DOMAIN runs
      BY <2>2 DEF AuthoringInv, TaskInv
    <3> QED BY <2>2, <3>1 DEF AuthoringInv, OneAuthor
  <2> QED BY <1>1, <2>1, <2>2
<1> QED BY <1>2, <1>3, <1>5, <1>6, <1>7 DEF AuthoringInv

LEMMA QuietStep ==
    ASSUME AuthoringInv, NEW r \in Revisions, NEW v,
           work[r].pc # "completed", book' \in DOMAIN Books,
           work' = [work EXCEPT ![r] = v], runs' = runs,
           TaskInv(v, runs'),
           v.pc \in Generating => work[r].pc \in Generating /\ work[r].sig = v.sig
    PROVE  AuthoringInv'
<1>1. PICK W \in SUBSET Signatures : W = {}
  OBVIOUS
<1>2. DOMAIN runs' = DOMAIN runs \union W
  BY <1>1
<1> QED BY <1>1, <1>2, StepOf

-----------------------------------------------------------------------------
(* Every step keeps the invariant: one lemma for each action *)

LEMMA TaskOf ==
    ASSUME AuthoringInv, NEW r \in Revisions
    PROVE  DOMAIN work[r] = TaskFields /\ TaskInv(work[r], runs)
BY DEF AuthoringInv, TaskInv

LEMMA IdleFields == DOMAIN Idle = TaskFields
BY DEF Idle, TaskFields

(* A revision that holds no run, and says so, is in order whatever the runs. *)
LEMMA Aloof ==
    ASSUME NEW v, DOMAIN v = TaskFields, v.pc \in {"idle", "asking", "failed"},
           v.pc = "asking" => v.sig \in Signatures /\ v.classes = <<>>, NEW table
    PROVE  TaskInv(v, table)
BY DEF TaskInv, Locations, Generating, Having

LEMMA BeginStep ==
    ASSUME AuthoringInv, NEW r \in Revisions, NEW p \in DOMAIN Profiles,
           NEW s \in (Revisions \ {r}) \union {NULL}, Begin(r, p, s)
    PROVE  AuthoringInv'
<1>1. PICK sig : sig = [book |-> book, policy |-> p, pinned |-> s]
  OBVIOUS
<1>2. sig \in Signatures
  BY <1>1 DEF Signatures, AuthoringInv
<1>3. PICK v : v = [Idle EXCEPT !.pc = "asking", !.sig = sig]
  OBVIOUS
<1>4. DOMAIN v = TaskFields /\ v.pc = "asking" /\ v.sig = sig /\ v.classes = <<>>
  BY <1>3 DEF Idle, TaskFields
<1>5. work' = [work EXCEPT ![r] = v] /\ runs' = runs /\ book' = book /\ work[r].pc = "idle"
  BY <1>1, <1>3 DEF Begin, Become, Doing
<1>6. TaskInv(v, runs')
  BY <1>2, <1>4, Aloof
<1>7. book' \in DOMAIN Books
  BY <1>5 DEF AuthoringInv
<1> QED BY <1>4, <1>5, <1>6, <1>7, QuietStep DEF Generating

(* What Record writes *)
LEMMA RecordFacts ==
    ASSUME NEW sig, NEW state, NEW rules, Record(sig, state, rules)
    PROVE  /\ DOMAIN runs' = DOMAIN runs \union {sig}
           /\ \A g \in DOMAIN runs \ {sig} : runs'[g] = runs[g]
           /\ runs'[sig].state = state /\ runs'[sig].rules = rules
BY DEF Record

LEMMA ClaimStep ==
    ASSUME AuthoringInv, NEW r \in Revisions, ClaimRun(r) PROVE AuthoringInv'
<1> DEFINE sig == work[r].sig
           pc  == IF sig.pinned # NULL THEN "pinning" ELSE "classifying"
<1>1. work[r].pc = "asking" /\ Record(sig, "running", NULL) /\ book' = book
  BY DEF ClaimRun, Doing
<1>2. sig \in Signatures
  BY <1>1, TaskOf DEF TaskInv
<1>3. sig \notin DOMAIN runs
  BY DEF ClaimRun, Claimable, State, AuthoringInv, RunInv
<1>4. PICK v : v = Moved(work[r], pc)
  OBVIOUS
<1>5. /\ DOMAIN v = TaskFields /\ v.pc = pc /\ v.sig = sig /\ v.classes = work[r].classes
  BY <1>4, TaskOf, MovedFacts
<1>6. work' = [work EXCEPT ![r] = v]
  <2>1. Become(r, Moved(work[r], pc))
    BY DEF ClaimRun, Goto, Moved
  <2> QED BY <1>4, <2>1 DEF Become
<1>7. /\ DOMAIN runs' = DOMAIN runs \union {sig}
      /\ \A g \in DOMAIN runs \ {sig} : runs'[g] = runs[g]
      /\ runs'[sig].state = "running"
  BY <1>1, RecordFacts
<1>8. RunInv(sig, runs'[sig], work')
  BY <1>7 DEF RunInv
<1>9. TaskInv(v, runs')
  <2>1. v.classes = <<>>
    BY <1>1, <1>5, TaskOf DEF TaskInv
  <2>2. IsSequence(v.classes) /\ Len(v.classes) = 0 /\ DOMAIN v.classes = {}
    BY <2>1 DEF IsSequence
  <2>3. Len(Lines(sig)) \in Nat
    BY <1>2, AuthoringAssumption DEF Lines, Signatures
  <2>4. pc \in {"pinning", "classifying"} /\ (pc = "pinning" <=> sig.pinned # NULL)
    OBVIOUS
  <2> HIDE DEF pc
  <2> QED BY <1>2, <1>5, <1>7, <2>2, <2>3, <2>4 DEF TaskInv, Locations, Generating, Having
<1>10. {sig} \in SUBSET Signatures /\ book' \in DOMAIN Books /\ work[r].pc # "completed"
  BY <1>1, <1>2 DEF AuthoringInv
<1> HIDE DEF pc, sig
<1> QED BY <1>3, <1>5, <1>6, <1>7, <1>8, <1>9, <1>10, StepOf

LEMMA ReuseStep ==
    ASSUME AuthoringInv, NEW r \in Revisions, Reuse(r) PROVE AuthoringInv'
<1> DEFINE sig == work[r].sig
<1>1. work[r].pc = "asking" /\ runs' = runs /\ book' = book /\ sig \in Signatures
  BY TaskOf DEF Reuse, Doing, TaskInv
<1>2. book' \in DOMAIN Books
  BY <1>1 DEF AuthoringInv
<1>3. CASE State(sig) = "completed"
  <2>1. sig \in DOMAIN runs /\ runs[sig].state = "completed"
    BY <1>3 DEF State
  <2>2. PICK v : v = Given(work[r], runs[sig].rules)
    OBVIOUS
  <2>3. DOMAIN v = TaskFields /\ v.pc = "served" /\ v.sig = sig /\ v.rules = runs[sig].rules
    BY <2>2, TaskOf, GivenFacts
  <2>4. work' = [work EXCEPT ![r] = v]
    <3>1. Become(r, Given(work[r], runs[sig].rules))
      BY <1>3 DEF Reuse, Serve, Given
    <3> QED BY <2>2, <3>1 DEF Become
  <2>5. TaskInv(v, runs')
    BY <1>1, <2>1, <2>3 DEF TaskInv, Locations, Generating, Having
  <2> QED BY <1>1, <1>2, <2>3, <2>4, <2>5, QuietStep DEF Generating
<1>4. CASE State(sig) # "completed"
  <2>1. PICK v : v = Moved(work[r], "failed")
    OBVIOUS
  <2>2. DOMAIN v = TaskFields /\ v.pc = "failed"
    BY <2>1, TaskOf, MovedFacts
  <2>3. work' = [work EXCEPT ![r] = v]
    <3>1. Become(r, Moved(work[r], "failed"))
      BY <1>4 DEF Reuse, Goto, Moved
    <3> QED BY <2>1, <3>1 DEF Become
  <2>4. TaskInv(v, runs')
    BY <2>2, Aloof
  <2> QED BY <1>1, <1>2, <2>2, <2>3, <2>4, QuietStep DEF Generating
<1> QED BY <1>3, <1>4

LEMMA ClassifyStep ==
    ASSUME AuthoringInv, NEW r \in Revisions, NEW jev \in JevAnswers, NEW deep \in DeepAnswers,
           ClassifyLine(r, jev, deep)
    PROVE  AuthoringInv'
<1> DEFINE w   == work[r]
           sig == w.sig
           i   == Len(w.classes) + 1
           done == Append(w.classes, Classify(Lines(sig)[i], jev, deep))
<1>1. w.pc = "classifying" /\ i \in DOMAIN Lines(sig) /\ runs' = runs /\ book' = book
  BY DEF ClassifyLine, Doing
<1>2. /\ sig \in Signatures /\ sig \in DOMAIN runs /\ runs[sig].state = "running"
      /\ sig.pinned = NULL /\ IsSequence(w.classes)
      /\ \A n \in DOMAIN w.classes : Classified(w.classes[n])
  BY <1>1, TaskOf DEF TaskInv, Generating
<1>3. /\ sig.book \in DOMAIN Books /\ DOMAIN Lines(sig) = 1..Len(Lines(sig))
      /\ Len(Lines(sig)) \in Nat
      /\ Lines(sig)[i].hits \in [Canonicals -> Nat]
  BY <1>1, <1>2, AuthoringAssumption DEF Signatures, Lines
<1>4. Classified(Classify(Lines(sig)[i], jev, deep))
  <2>1. jev # NULL => jev.label \in Labels
    BY AuthoringAssumption
  <2>2. deep # NULL => deep.label \in Labels
    BY AuthoringAssumption
  <2> QED BY <1>3, <2>1, <2>2, ClassifyType
<1>5. /\ IsSequence(done) /\ Len(w.classes) \in Nat
      /\ Len(done) = i /\ DOMAIN done = 1..i
      /\ \A n \in DOMAIN done : Classified(done[n])
  <2> DEFINE e == Classify(Lines(sig)[i], jev, deep)
  <2>1. Classified(e)
    BY <1>4
  <2> HIDE DEF e
  <2>2. /\ IsSequence(Append(w.classes, e))
        /\ Len(w.classes) \in Nat /\ DOMAIN w.classes = 1..Len(w.classes)
        /\ Len(Append(w.classes, e)) = i /\ DOMAIN Append(w.classes, e) = 1..i
        /\ Append(w.classes, e)[i] = e
        /\ \A n \in 1..Len(w.classes) : Append(w.classes, e)[n] = w.classes[n]
    BY <1>2, SequenceGrows
  <2>3. \A n \in 1..i : Classified(Append(w.classes, e)[n])
    BY <1>2, <2>1, <2>2
  <2> QED BY <2>2, <2>3 DEF e
<1>6. book' \in DOMAIN Books
  BY <1>1 DEF AuthoringInv
<1> HIDE DEF done
<1>7. CASE Len(done) < Len(Lines(sig))
  <2>1. PICK v : v = Classing(w, done)
    OBVIOUS
  <2>2. DOMAIN v = TaskFields /\ v.pc = "classifying" /\ v.sig = sig /\ v.classes = done
    BY <1>1, <2>1, TaskOf, ClassingFacts
  <2>3. work' = [work EXCEPT ![r] = v]
    <3>1. Become(r, Classing(w, done))
      BY <1>7 DEF ClassifyLine, Classing, done
    <3> QED BY <2>1, <3>1 DEF Become
  <2>4. TaskInv(v, runs')
    BY <1>1, <1>2, <1>3, <1>5, <1>7, <2>2 DEF TaskInv, Locations, Generating, Having
  <2> QED BY <1>1, <1>6, <2>2, <2>3, <2>4, QuietStep DEF Generating
<1>8. CASE ~ (Len(done) < Len(Lines(sig)))
  <2>1. PICK v : v = Drafting(w, Filed(done, "NEW_RULE"), Ruleset(sig, done))
    OBVIOUS
  <2>2. /\ DOMAIN v = TaskFields /\ v.pc = "compiling" /\ v.sig = sig
        /\ v.todo = Filed(done, "NEW_RULE") /\ v.rules = Ruleset(sig, done)
    BY <2>1, TaskOf, DraftingFacts
  <2>3. work' = [work EXCEPT ![r] = v]
    <3>1. Become(r, Drafting(w, Filed(done, "NEW_RULE"), Ruleset(sig, done)))
      BY <1>8 DEF ClassifyLine, Drafting, done
    <3> QED BY <2>1, <3>1 DEF Become
  <2>4. DOMAIN done = DOMAIN Lines(sig)
    BY <1>1, <1>3, <1>5, <1>8
  <2>5. Authored(Ruleset(sig, done), sig) /\ Pending(Ruleset(sig, done), Filed(done, "NEW_RULE"))
    <3>1. sig.book \in DOMAIN Books /\ sig.policy \in DOMAIN Profiles
      BY <1>2 DEF Signatures
    <3> QED BY <1>5, <2>4, <3>1, RulesetAuthored
  <2>6. Filed(done, "NEW_RULE") \subseteq DOMAIN Lines(sig)
    BY <2>4 DEF Filed
  <2>7. TaskInv(v, runs')
    BY <1>1, <1>2, <2>2, <2>5, <2>6 DEF TaskInv, Locations, Generating, Having
  <2> QED BY <1>1, <1>6, <2>2, <2>3, <2>7, QuietStep DEF Generating
<1> QED BY <1>7, <1>8

(* The first line of a set of lines *)
LEMMA FirstLine ==
    ASSUME NEW S \in SUBSET Nat, S # {} PROVE Min(S) \in S
<1> DEFINE R == OpToRel(<, Nat)
<1>1. IsWellFoundedOn(R, Nat)
  BY NatLessThanWellFounded
<1>2. \A x, y \in Nat : <<y, x>> \in R <=> y < x
  BY DEF OpToRel
<1> HIDE DEF R
<1>3. PICK x \in S : \A y \in S : ~ (<<y, x>> \in R)
  BY <1>1, WFMin
<1>4. \A y \in S : y \in Nat /\ x \in Nat /\ ~ (y < x)
  BY <1>2, <1>3
<1>5. \A y \in S : x <= y
  BY <1>4
<1> QED BY <1>5 DEF Min

LEMMA CompileStep ==
    ASSUME AuthoringInv, NEW r \in Revisions, NEW drafted, CompileRule(r, drafted)
    PROVE  AuthoringInv'
<1> DEFINE w   == work[r]
           sig == w.sig
           i   == Min(w.todo)
           compiled == CompileNewRule(Lines(sig)[i], drafted)
           enableNew == Profiles[sig.policy].enableNew
           rule == Enriched(NewRule(i), compiled, enableNew)
<1>1. w.pc = "compiling" /\ w.todo # {} /\ runs' = runs /\ book' = book
  BY DEF CompileRule, Doing
<1>2. /\ sig \in Signatures /\ sig \in DOMAIN runs /\ runs[sig].state = "running"
      /\ sig.pinned = NULL
      /\ Authored(w.rules, sig) /\ w.todo \subseteq DOMAIN Lines(sig) /\ Pending(w.rules, w.todo)
  BY <1>1, TaskOf DEF TaskInv, Generating
<1>3. DOMAIN Lines(sig) \subseteq Nat
  BY <1>2, AuthoringAssumption DEF Signatures, Lines
<1>4. i \in w.todo
  BY <1>1, <1>2, <1>3, FirstLine
<1>5. DOMAIN w.rules = {"rules", "rejected", "of"}
  BY <1>2 DEF Authored
<1>6. PICK v : v = Replaced(w, i, NewRule(i), rule)
  OBVIOUS
<1>7. work' = [work EXCEPT ![r] = v]
  <2>1. Become(r, Replaced(w, i, NewRule(i), rule))
    BY DEF CompileRule, Replaced
  <2> QED BY <1>6, <2>1 DEF Become
<1> HIDE DEF compiled, enableNew
<1>8. /\ DOMAIN v = TaskFields /\ v.pc = "compiling" /\ v.sig = sig
      /\ v.todo = w.todo \ {i}
      /\ DOMAIN v.rules = {"rules", "rejected", "of"}
      /\ v.rules.of = w.rules.of /\ v.rules.rejected = w.rules.rejected
      /\ v.rules.rules = (w.rules.rules \ {NewRule(i)}) \union {rule}
  <2> HIDE DEF i, rule
  <2> QED BY <1>1, <1>5, <1>6, TaskOf, ReplacedFacts
<1>9. Authored(v.rules, sig) /\ Pending(v.rules, w.todo \ {i})
  <2>1. i \in DOMAIN Lines(sig)
    BY <1>2, <1>4
  <2>2. sig.policy \in DOMAIN Profiles
    BY <1>2 DEF Signatures
  <2>3. PICK x : x = compiled
    OBVIOUS
  <2>4. x = CompileNewRule(Lines(sig)[i], drafted)
    BY <2>3 DEF compiled
  <2>5. PICK y : y = enableNew
    OBVIOUS
  <2>6. y = Profiles[sig.policy].enableNew
    BY <2>5 DEF enableNew
  <2>7. v.rules.rules = (w.rules.rules \ {NewRule(i)}) \union {Enriched(NewRule(i), x, y)}
    BY <1>8, <2>3, <2>5
  <2> HIDE DEF i, rule, w, sig
  <2>8. PICK set, next : set = w.rules /\ next = v.rules
    OBVIOUS
  <2>9. /\ Authored(set, sig) /\ Pending(set, w.todo)
        /\ DOMAIN next = {"rules", "rejected", "of"} /\ next.of = set.of /\ next.rejected = set.rejected
        /\ next.rules = (set.rules \ {NewRule(i)}) \union {Enriched(NewRule(i), x, y)}
    BY <1>2, <1>8, <2>7, <2>8
  <2>10. Authored(next, sig) /\ Pending(next, w.todo \ {i})
    BY <1>4, <2>1, <2>2, <2>4, <2>6, <2>9, CompiledAuthored
  <2> QED BY <2>8, <2>10
<1>10. TaskInv(v, runs')
  <2> HIDE DEF i, rule
  <2> QED BY <1>1, <1>2, <1>8, <1>9 DEF TaskInv, Locations, Generating, Having
<1>11. book' \in DOMAIN Books
  BY <1>1 DEF AuthoringInv
<1> QED BY <1>1, <1>7, <1>8, <1>10, <1>11, QuietStep DEF Generating

(* A generation ends with a result: its run is completed and it is served.  *)
LEMMA CompletedStep ==
    ASSUME AuthoringInv, NEW r \in Revisions, NEW set,
           work[r].pc \in Generating, book' = book,
           Record(work[r].sig, "completed", set), Serve(r, set),
           Authored(set, work[r].sig),
           work[r].sig.pinned # NULL =>
               /\ work[r].sig.pinned # r
               /\ work[work[r].sig.pinned].pc = "completed"
               /\ work[work[r].sig.pinned].rules = set
    PROVE  AuthoringInv'
<1> DEFINE sig == work[r].sig
<1>1. sig \in Signatures /\ sig \in DOMAIN runs /\ work[r].pc # "completed"
  BY TaskOf DEF TaskInv, Generating
<1>2. /\ DOMAIN runs' = DOMAIN runs \union {sig}
      /\ \A g \in DOMAIN runs \ {sig} : runs'[g] = runs[g]
      /\ runs'[sig].state = "completed" /\ runs'[sig].rules = set
  <2>1. Record(sig, "completed", set)
    OBVIOUS
  <2> HIDE DEF sig
  <2> QED BY <2>1 DEF Record
<1>3. PICK v : v = Given(work[r], set)
  OBVIOUS
<1>4. DOMAIN v = TaskFields /\ v.pc = "served" /\ v.sig = sig /\ v.rules = set
  BY <1>3, TaskOf, GivenFacts
<1>5. work' = [work EXCEPT ![r] = v]
  <2>1. Become(r, Given(work[r], set))
    BY DEF Serve, Given
  <2> QED BY <1>3, <2>1 DEF Become
<1>6. sig.pinned # NULL => work'[sig.pinned] = work[sig.pinned]
  BY <1>1, <1>5 DEF Signatures, AuthoringInv
<1>7. RunInv(sig, runs'[sig], work')
  BY <1>2, <1>6 DEF RunInv
<1>8. TaskInv(v, runs')
  BY <1>1, <1>2, <1>4 DEF TaskInv, Locations, Generating, Having
<1>9. {sig} \in SUBSET Signatures /\ book' \in DOMAIN Books
  BY <1>1 DEF AuthoringInv
<1>10. v.pc \notin Generating
  BY <1>4 DEF Generating
<1> QED BY <1>1, <1>2, <1>5, <1>7, <1>8, <1>9, <1>10, StepOf

LEMMA PublishStep == ASSUME AuthoringInv, NEW r \in Revisions, Publish(r) PROVE AuthoringInv'
<1>1. work[r].pc = "compiling" /\ book' = book
  BY DEF Publish, Doing
<1>2. Authored(work[r].rules, work[r].sig) /\ work[r].sig.pinned = NULL
  BY <1>1, TaskOf DEF TaskInv
<1>3. Record(work[r].sig, "completed", work[r].rules) /\ Serve(r, work[r].rules)
  BY DEF Publish
<1> QED BY <1>1, <1>2, <1>3, CompletedStep DEF Generating

LEMMA PinStep == ASSUME AuthoringInv, NEW r \in Revisions, Pin(r) PROVE AuthoringInv'
<1> DEFINE sig == work[r].sig
           s   == sig.pinned
<1>1. work[r].pc = "pinning" /\ book' = book /\ Pinnable(s, sig)
  BY DEF Pin, Doing
<1>2. sig \in Signatures /\ s # NULL
  BY <1>1, TaskOf DEF TaskInv, Generating
<1>3. s \in Revisions
  BY <1>2 DEF Signatures
<1>4. work[s].pc = "completed" /\ Sources(work[s].sig) = Sources(sig) /\ s # r
  BY <1>1 DEF Pinnable, Sources
<1>5. Authored(work[s].rules, work[s].sig)
  <2>1. TaskInv(work[s], runs)
    BY <1>3, TaskOf
  <2>2. /\ work[s].sig \in DOMAIN runs
        /\ runs[work[s].sig].state = "completed" /\ runs[work[s].sig].rules = work[s].rules
    BY <1>4, <2>1 DEF TaskInv, Having
  <2> QED BY <2>2 DEF AuthoringInv, RunInv
<1>6. Authored(work[s].rules, sig)
  BY <1>4, <1>5 DEF Authored
<1>7. Record(sig, "completed", work[s].rules) /\ Serve(r, work[s].rules)
  BY DEF Pin
<1> QED BY <1>1, <1>4, <1>6, <1>7, CompletedStep DEF Generating

LEMMA AbortStep == ASSUME AuthoringInv, NEW r \in Revisions, Abort(r) PROVE AuthoringInv'
<1> DEFINE sig == work[r].sig
<1>1. work[r].pc \in Generating /\ book' = book /\ Record(sig, "unknown", NULL)
  BY DEF Abort, Generating
<1>2. sig \in Signatures /\ work[r].pc # "completed"
  BY <1>1, TaskOf DEF TaskInv, Generating
<1>3. /\ DOMAIN runs' = DOMAIN runs \union {sig}
      /\ \A g \in DOMAIN runs \ {sig} : runs'[g] = runs[g]
      /\ runs'[sig].state = "unknown"
  BY <1>1, RecordFacts
<1>4. PICK v : v = Moved(Idle, "failed")
  OBVIOUS
<1>5. DOMAIN v = TaskFields /\ v.pc = "failed"
  BY <1>4, IdleFields, MovedFacts
<1>6. work' = [work EXCEPT ![r] = v]
  <2>1. Become(r, Moved(Idle, "failed"))
    BY DEF Abort, Moved
  <2> QED BY <1>4, <2>1 DEF Become
<1>7. RunInv(sig, runs'[sig], work')
  BY <1>3 DEF RunInv
<1>8. TaskInv(v, runs')
  BY <1>5, Aloof
<1>9. {sig} \in SUBSET Signatures /\ book' \in DOMAIN Books /\ v.pc \notin Generating
  BY <1>1, <1>2, <1>5 DEF AuthoringInv, Generating
<1> QED BY <1>1, <1>2, <1>3, <1>6, <1>7, <1>8, <1>9, StepOf

LEMMA DieStep == ASSUME AuthoringInv, NEW r \in Revisions, Die(r) PROVE AuthoringInv'
<1>1. work[r].pc \in Generating /\ book' = book /\ runs' = runs
  BY DEF Die, Generating
<1>2. PICK v : v = Moved(Idle, "failed")
  OBVIOUS
<1>3. DOMAIN v = TaskFields /\ v.pc = "failed"
  BY <1>2, IdleFields, MovedFacts
<1>4. work' = [work EXCEPT ![r] = v]
  <2>1. Become(r, Moved(Idle, "failed"))
    BY DEF Die, Moved
  <2> QED BY <1>2, <2>1 DEF Become
<1>5. TaskInv(v, runs')
  BY <1>3, Aloof
<1>6. book' \in DOMAIN Books /\ v.pc \notin Generating /\ work[r].pc # "completed"
  BY <1>1, <1>3 DEF AuthoringInv, Generating
<1> QED BY <1>1, <1>4, <1>5, <1>6, QuietStep

LEMMA EndStep == ASSUME AuthoringInv, NEW r \in Revisions, EndRevision(r) PROVE AuthoringInv'
<1>1. work[r].pc = "served" /\ book' = book /\ runs' = runs
  BY DEF EndRevision, Doing
<1>2. PICK v : v = Moved(work[r], "completed")
  OBVIOUS
<1>3. DOMAIN v = TaskFields /\ v.pc = "completed" /\ v.sig = work[r].sig /\ v.rules = work[r].rules
  BY <1>2, TaskOf, MovedFacts
<1>4. work' = [work EXCEPT ![r] = v]
  <2>1. Become(r, Moved(work[r], "completed"))
    BY DEF EndRevision, Goto, Moved
  <2> QED BY <1>2, <2>1 DEF Become
<1>5. TaskInv(v, runs')
  BY <1>1, <1>3, TaskOf DEF TaskInv, Locations, Generating, Having
<1>6. book' \in DOMAIN Books /\ v.pc \notin Generating
  BY <1>1, <1>3 DEF AuthoringInv, Generating
<1> QED BY <1>1, <1>4, <1>5, <1>6, QuietStep

-----------------------------------------------------------------------------
(* The theorems *)

LEMMA AuthoringInit == ASSUME Init PROVE AuthoringInv
<1>1. \A r \in Revisions : work[r] = Idle
  BY DEF Init
<1>2. Idle.pc = "idle"
  BY DEF Idle
<1>3. \A r \in Revisions : TaskInv(work[r], runs)
  BY <1>1, <1>2, IdleFields, Aloof
<1>4. OneAuthor
  BY <1>1, <1>2 DEF OneAuthor, Generating
<1>5. 1 \in DOMAIN Books
  BY AuthoringAssumption
<1> QED BY <1>3, <1>4, <1>5 DEF Init, AuthoringInv

LEMMA AuthoringStep == ASSUME AuthoringInv, [Next]_vars PROVE AuthoringInv'
<1>1. CASE Edit
  <2>1. book' \in DOMAIN Books
    BY <1>1, AuthoringAssumption DEF Edit, AuthoringInv
  <2> QED BY <1>1, <2>1 DEF Edit, AuthoringInv, OneAuthor
<1>2. CASE \E r \in Revisions, p \in DOMAIN Profiles :
             \E s \in (Revisions \ {r}) \union {NULL} : Begin(r, p, s)
  BY <1>2, BeginStep
<1>3. CASE \E r \in Revisions : \/ ClaimRun(r) \/ Reuse(r) \/ Publish(r) \/ Pin(r)
                                \/ Abort(r) \/ Die(r) \/ EndRevision(r)
  BY <1>3, ClaimStep, ReuseStep, PublishStep, PinStep, AbortStep, DieStep, EndStep
<1>4. CASE \E r \in Revisions, jev \in JevAnswers, deep \in DeepAnswers : ClassifyLine(r, jev, deep)
  BY <1>4, ClassifyStep
<1>5. CASE \E r \in Revisions, d \in Drafts : CompileRule(r, d)
  BY <1>5, CompileStep
<1>6. CASE UNCHANGED vars
  BY <1>6 DEF vars, AuthoringInv, OneAuthor
<1> QED BY <1>1, <1>2, <1>3, <1>4, <1>5, <1>6 DEF Next

(* What a run of the cache records, and what every revision holds, is in    *)
(* order at each point of a generation, with one author for each signature  *)
(* (backend/rules_cache.py, rules_ingestion/build_rules.py).                *)
THEOREM AuthoringInvariant == Spec => []AuthoringInv
<1>1. Init => AuthoringInv
  BY AuthoringInit
<1>2. AuthoringInv /\ [Next]_vars => AuthoringInv'
  BY AuthoringStep
<1> QED BY <1>1, <1>2, PTL DEF Spec

(* What a served revision holds is what the completed run of its signature  *)
(* recorded.                                                                *)
LEMMA ServedFacts ==
    ASSUME AuthoringInv, NEW r \in Served
    PROVE  /\ r \in Revisions /\ work[r].sig \in Signatures
           /\ work[r].sig \in DOMAIN runs
           /\ runs[work[r].sig].rules = work[r].rules
           /\ RunInv(work[r].sig, runs[work[r].sig], work)
           /\ Authored(work[r].rules, work[r].sig)
<1>1. r \in Revisions /\ work[r].pc \in Having
  BY DEF Served, Having
<1>2. TaskInv(work[r], runs)
  BY <1>1, TaskOf
<1>3. /\ work[r].sig \in Signatures /\ work[r].sig \in DOMAIN runs
      /\ runs[work[r].sig].state = "completed"
      /\ runs[work[r].sig].rules = work[r].rules
  BY <1>1, <1>2 DEF TaskInv
<1>4. RunInv(work[r].sig, runs[work[r].sig], work)
  BY <1>3 DEF AuthoringInv
<1> QED BY <1>1, <1>3, <1>4 DEF RunInv

(* Two revisions over the same workbook, profile and pin decide with the    *)
(* same rules, and a pinned one with those of the run it pins, though the   *)
(* models answer differently each time (backend/rules_cache.py).            *)
THEOREM SameRulesForAll == Spec => []SameInputsSameRules
<1>1. ASSUME AuthoringInv PROVE SameInputsSameRules
  <2> SUFFICES ASSUME NEW r \in Served, NEW s \in Served,
                      work[r].sig = work[s].sig \/ work[r].sig.pinned = s
               PROVE  work[r].rules = work[s].rules
    BY DEF SameInputsSameRules
  <2>1. CASE work[r].sig = work[s].sig
    BY <1>1, <2>1, ServedFacts
  <2>2. CASE work[r].sig.pinned = s
    <3>1. s # NULL
      BY AuthoringAssumption DEF Served
    <3>2. /\ runs[work[r].sig].rules = work[r].rules
          /\ runs[work[r].sig].state = "completed"
      BY <1>1, TaskOf DEF Served, TaskInv, Having
    <3>3. RunInv(work[r].sig, runs[work[r].sig], work)
      BY <1>1, ServedFacts
    <3> QED BY <2>2, <3>1, <3>2, <3>3 DEF RunInv
  <2> QED BY <2>1, <2>2
<1> QED BY <1>1, AuthoringInvariant, PTL

(* The rules of a revision were generated from the workbook and the profile *)
(* that it read, also when they come from a pinned run and the sheet was    *)
(* edited since (backend/rules_cache.py).                                   *)
THEOREM RulesFromTheirSources == Spec => []ServedFromItsSources
<1>1. AuthoringInv => ServedFromItsSources
  BY ServedFacts DEF ServedFromItsSources, Authored, Sources
<1> QED BY <1>1, AuthoringInvariant, PTL

(* Every line of the norm backs exactly one rule or is rejected, whatever   *)
(* the classifiers answer and whatever the drafts compile to                *)
(* (rules_ingestion/merge.py, rules_ingestion/build_rules.py).              *)
THEOREM WholeNormIsKept == Spec => []NormIsKept
<1>1. ASSUME AuthoringInv PROVE NormIsKept
  <2> SUFFICES ASSUME NEW r \in Served, NEW i \in DOMAIN Books[work[r].rules.of.book]
               PROVE  Cardinality({rule \in RulesOf(r) : i \in rule.lines})
                          + (IF i \in work[r].rules.rejected THEN 1 ELSE 0) = 1
    BY DEF NormIsKept
  <2>1. LinesKept(work[r].rules)
    BY <1>1, ServedFacts DEF Authored
  <2>2. CASE i \in work[r].rules.rejected
    <3>1. {rule \in RulesOf(r) : i \in rule.lines} = {}
      BY <2>1, <2>2 DEF LinesKept, RulesOf
    <3>2. Cardinality({rule \in RulesOf(r) : i \in rule.lines}) = 0
      BY <3>1, FS_EmptySet
    <3> QED BY <2>2, <3>2
  <2>3. CASE i \notin work[r].rules.rejected
    <3>1. PICK x : {rule \in RulesOf(r) : i \in rule.lines} = {x}
      BY <2>1, <2>3 DEF LinesKept, RulesOf
    <3>2. Cardinality({rule \in RulesOf(r) : i \in rule.lines}) = 1
      BY <3>1, FS_Singleton
    <3> QED BY <2>3, <3>2
  <2> QED BY <2>2, <2>3
<1> QED BY <1>1, AuthoringInvariant, PTL

(* No sheet moves a parameter against the profile's policy or with lines    *)
(* that disagree (rules_ingestion/rule_params.py, from_sheet).              *)
THEOREM ParametersAreBacked == Spec => []ParametersAreStated
<1>1. ASSUME AuthoringInv PROVE ParametersAreStated
  <2>1. \A r \in Served : \A rule \in work[r].rules.rules :
            rule.kind = "python_check" => ParameterIsStated(rule, work[r].rules.of)
    BY <1>1, ServedFacts DEF Authored
  <2> QED BY <2>1 DEF ParametersAreStated, ParameterIsStated, RulesOf
<1> QED BY <1>1, AuthoringInvariant, PTL

(* No enabled rule of a served revision is one that the executor would call *)
(* UNSUPPORTED, if none of the profile's own rules is and amounts are       *)
(* written with digits (rules_ingestion/codegen.py, backend/rules_cache.py). *)
THEOREM EnabledRulesRun == ASSUME SourcesAreSound PROVE Spec => []EnabledIsExecutable
<1>1. AuthoringInv => EnabledIsExecutable
  BY ServedFacts DEF EnabledIsExecutable, Authored, Executables, RulesOf
<1> QED BY <1>1, AuthoringInvariant, PTL
=============================================================================
