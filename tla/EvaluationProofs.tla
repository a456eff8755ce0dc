---------------------------- MODULE EvaluationProofs ----------------------------
(***************************************************************************)
(* What is proved of the evaluation and of its review, for every input,      *)
(* every ruleset and every answer of the reviewing model.                    *)
(*                                                                         *)
(* What has been decided is a function of the frozen input (EvaluationInv):  *)
(* the rest is about the operators that Evaluate is built from: a result     *)
(* fails only by an assertion whose facts are all known, and a fact that is  *)
(* known rests on printed values without a doubt. The last part compares two  *)
(* inputs of which the second is known less well: what is not paid with more  *)
(* known is not paid with less; and reads a payment back, from the checks that *)
(* passed over the facts they used to the raw input.                         *)
(***************************************************************************)
EXTENDS ContextualReview, FiniteSetTheorems, TLAPS

----------------------------------------------------------------------------
(* What the operators that compute a value once come to.                     *)

LEMMA TheOnly == \A e : The({e}) = e
  BY DEF The

LEMMA ExecFieldsAre == \A in : ExecFields(in) = ExecutionFields(Fields(in))
  BY TheOnly DEF ExecFields

LEMMA ObservationsAre ==
  \A in : Observations(in) = [h \in Histories |-> HistoryObservation(in, h, ExecFields(in))]
<1>1. ASSUME NEW in
      PROVE  Observations(in) = [h \in Histories |-> HistoryObservation(in, h, ExecFields(in))]
  <2> DEFINE seen == [h \in Histories |-> HistoryObservation(in, h, ExecFields(in))]
  <2>1. {[h \in Histories |-> HistoryObservation(in, h, fields)] : fields \in {ExecFields(in)}} = {seen}
    OBVIOUS
  <2>2. The({seen}) = seen
    BY TheOnly
  <2> QED BY <2>1, <2>2 DEF Observations
<1> QED BY <1>1

LEMMA BindingsAre ==
  \A in : Bindings(in) =
            [i \in DOMAIN EnabledRules(in) |->
               BindRule(EnabledRules(in)[i], ExecFields(in), ExecutionTaxes(in))]
<1>1. ASSUME NEW in
      PROVE  Bindings(in) =
               [i \in DOMAIN EnabledRules(in) |->
                  BindRule(EnabledRules(in)[i], ExecFields(in), ExecutionTaxes(in))]
  <2> DEFINE bound == [i \in DOMAIN EnabledRules(in) |->
                         BindRule(EnabledRules(in)[i], ExecFields(in), ExecutionTaxes(in))]
  <2>1. {[i \in DOMAIN rules |-> BindRule(rules[i], fields, taxes)] :
           rules \in {EnabledRules(in)}, fields \in {ExecFields(in)}, taxes \in {ExecutionTaxes(in)}}
          = {bound}
    OBVIOUS
  <2>2. The({bound}) = bound
    BY TheOnly
  <2> QED BY <2>1, <2>2 DEF Bindings
<1> QED BY <1>1

\* The result of one rule: the check that raises, or the rule that is executed.
Outcome(in, rule, crash) ==
    IF rule.id = crash
    THEN Result(rule, "ERROR", {Step("BLOCKED", "CHECK_EXECUTION_ERROR", {})})
    ELSE ExecuteRule(rule, ExecFields(in), ExecutionTaxes(in), Observations(in), Captured(in), in["today"])

LEMMA ExecutedIs ==
  \A in, crash : Executed(in, crash) =
      [i \in DOMAIN EnabledRules(in) |-> Outcome(in, EnabledRules(in)[i], crash)]
<1>1. ASSUME NEW in, NEW crash
      PROVE  Executed(in, crash) =
               [i \in DOMAIN EnabledRules(in) |-> Outcome(in, EnabledRules(in)[i], crash)]
  <2> DEFINE Run(rules, fields, taxes, seen) ==
        [i \in DOMAIN rules |->
            IF rules[i].id = crash
            THEN Result(rules[i], "ERROR", {Step("BLOCKED", "CHECK_EXECUTION_ERROR", {})})
            ELSE ExecuteRule(rules[i], fields, taxes, seen, Captured(in), in["today"])]
      all == Run(EnabledRules(in), ExecFields(in), ExecutionTaxes(in), Observations(in))
  <2>1. Executed(in, crash) =
          The({Run(rules, fields, taxes, seen) : rules \in {EnabledRules(in)},
               fields \in {ExecFields(in)}, taxes \in {ExecutionTaxes(in)}, seen \in {Observations(in)}})
    BY DEF Executed
  <2>2. all = [i \in DOMAIN EnabledRules(in) |-> Outcome(in, EnabledRules(in)[i], crash)]
    BY DEF Outcome
  <2> HIDE DEF Run
  <2>3. {Run(rules, fields, taxes, seen) : rules \in {EnabledRules(in)},
         fields \in {ExecFields(in)}, taxes \in {ExecutionTaxes(in)}, seen \in {Observations(in)}} = {all}
    OBVIOUS
  <2>4. The({all}) = all
    BY TheOnly
  <2> QED BY <2>1, <2>2, <2>3, <2>4
<1> QED BY <1>1

----------------------------------------------------------------------------
(* The state is a function of the input: what has been published and decided  *)
(* is what this input gives, and a changed input leaves nothing behind.       *)

EvaluationInv ==
    /\ stage \in {"open", "aligned", "prepared", "decided"}
    /\ context = [findings |-> context.findings, bindings |-> context.bindings]
    /\ stage # "open" => context.findings = Findings(input)
    /\ stage \in {"prepared", "decided"} => context.bindings = Bindings(input)
    /\ stage # "decided" => results = <<>> /\ decision = NULL
    /\ stage = "decided" =>
          /\ \E crash \in Crashes : results = Executed(input, crash)
          /\ decision = Aggregate(results, Outstanding(input, Findings(input), results))

LEMMA EvaluationInit == Init => EvaluationInv
  BY DEF Init, EvaluationInv, NoContext

LEMMA EvaluationStep == EvaluationInv /\ [Next]_vars => EvaluationInv'
<1> SUFFICES ASSUME EvaluationInv, [Next]_vars PROVE EvaluationInv'
  OBVIOUS
<1>1. CASE Align
  <2>1. /\ context' = [findings |-> Findings(input), bindings |-> context.bindings]
        /\ input' = input
    BY <1>1 DEF Align, EvaluationInv
  <2> QED BY <1>1, <2>1 DEF Align, EvaluationInv
<1>2. CASE Prepare
  <2>1. /\ context' = [findings |-> context.findings, bindings |-> Bindings(input)]
        /\ input' = input
    BY <1>2 DEF Prepare, EvaluationInv
  <2> QED BY <1>2, <2>1 DEF Prepare, EvaluationInv
<1>3. ASSUME NEW crash \in Crashes, Evaluate(crash) PROVE EvaluationInv'
  <2>1. /\ results' = Executed(input, crash)
        /\ decision' = Aggregate(results', Outstanding(input, Findings(input), results'))
        /\ input' = input /\ context' = context /\ stage' = "decided"
    BY <1>3 DEF Evaluate, EvaluationInv
  <2> QED BY <1>3, <2>1 DEF Evaluate, EvaluationInv
<1>4. ASSUME NEW part, NEW value, Change(part, value) PROVE EvaluationInv'
  BY <1>4 DEF Change, EvaluationInv, NoContext
<1>5. CASE UNCHANGED vars
  BY <1>5 DEF vars, EvaluationInv
<1> QED BY <1>1, <1>2, <1>3, <1>4, <1>5 DEF Next

(* What has been published and decided is always what the present input gives: *)
(* no recommendation outlives the input it was made from (build_context,       *)
(* prepare_context, evaluate).                                                 *)
THEOREM DecisionFollowsInput == Spec => []EvaluationInv
<1>1. Init => EvaluationInv
  BY EvaluationInit
<1>2. EvaluationInv /\ [Next]_vars => EvaluationInv'
  BY EvaluationStep
<1> QED BY <1>1, <1>2, PTL DEF Spec

(* The frame of a review, by the shape of its actions: what is shown of Spec   *)
(* holds of SpecReviewed too.                                                  *)
LEMMA ReviewFrame == SpecReviewed => Spec
<1>1. InitReviewed => Init
  BY DEF InitReviewed
<1>2. [NextReviewed]_reviewVars => [Next]_vars
  <2>1. ReviewStep => UNCHANGED vars
    BY DEF ReviewStep, ReviewFails, ReviewAnswers
  <2> QED BY <2>1 DEF NextReviewed, Decide, reviewVars
<1> QED BY <1>1, <1>2, PTL DEF Spec, SpecReviewed

----------------------------------------------------------------------------
(* The results. Whatever a rule comes to, its consequence is one of the three *)
(* recommendations, or none where it does not apply.                          *)

LEMMA ResultFields ==
  \A rule, status, steps :
    LET r == Result(rule, status, steps)
    IN  /\ r.rule = rule.id /\ r.status = status /\ r.steps = steps
        /\ status = "NOT_APPLICABLE" => r.complete /\ r.consequence = NULL
        /\ status = "VIOLATED" => r.consequence = rule.onFail
        /\ status = "PASS" => r.consequence = "PAGAR"
        /\ status \notin {"NOT_APPLICABLE", "VIOLATED", "PASS"} => r.consequence = "ESCALAR"
        /\ (/\ status \notin {"UNSUPPORTED", "ERROR", "BLOCKED"}
            /\ \A s \in steps : s.verdict # "BLOCKED") => r.complete
  BY DEF Result

LEMMA FinishIs ==
  \A rule, steps :
    \E status \in {"VIOLATED", "BLOCKED", "NEEDS_REVIEW", "PASS"} :
       /\ status = "VIOLATED" <=> \E s \in steps : s.verdict = "FAIL"
       /\ status = "BLOCKED" => steps = {} \/ \E s \in steps : s.verdict = "BLOCKED"
       /\ \/ steps # {} /\ Finish(rule, steps) = Result(rule, status, steps)
          \/ /\ steps = {} /\ status = "BLOCKED"
             /\ Finish(rule, steps) =
                  Result(rule, status, {Step("BLOCKED", "NO_EXECUTABLE_ASSERTIONS", {})})
<1> SUFFICES ASSUME NEW rule, NEW steps
             PROVE  \E status \in {"VIOLATED", "BLOCKED", "NEEDS_REVIEW", "PASS"} :
                      /\ status = "VIOLATED" <=> \E s \in steps : s.verdict = "FAIL"
                      /\ status = "BLOCKED" => steps = {} \/ \E s \in steps : s.verdict = "BLOCKED"
                      /\ \/ steps # {} /\ Finish(rule, steps) = Result(rule, status, steps)
                         \/ /\ steps = {} /\ status = "BLOCKED"
                            /\ Finish(rule, steps) =
                                 Result(rule, status, {Step("BLOCKED", "NO_EXECUTABLE_ASSERTIONS", {})})
  OBVIOUS
<1> DEFINE verdicts == {s.verdict : s \in steps}
           status   == IF "FAIL" \in verdicts THEN "VIOLATED"
                       ELSE IF "BLOCKED" \in verdicts \/ verdicts = {} THEN "BLOCKED"
                       ELSE IF "NEEDS_REVIEW" \in verdicts THEN "NEEDS_REVIEW" ELSE "PASS"
<1>1. Finish(rule, steps) =
        Result(rule, status,
               IF steps = {} THEN {Step("BLOCKED", "NO_EXECUTABLE_ASSERTIONS", {})} ELSE steps)
  BY DEF Finish
<1>2. /\ "FAIL" \in verdicts <=> \E s \in steps : s.verdict = "FAIL"
      /\ "BLOCKED" \in verdicts <=> \E s \in steps : s.verdict = "BLOCKED"
      /\ verdicts = {} <=> steps = {}
  OBVIOUS
<1> HIDE DEF verdicts
<1>3. steps = {} => "FAIL" \notin verdicts
  BY <1>2
<1> QED BY <1>1, <1>2, <1>3

\* The ways in which a rule can end.
Raised(rule) == Result(rule, "ERROR", {Step("BLOCKED", "CHECK_EXECUTION_ERROR", {})})
Refused(rule) == Result(rule, "UNSUPPORTED", {Step("BLOCKED", "UNSUPPORTED", {})})

LEMMA ExecuteRuleIs ==
  \A rule, fields, taxes, seen, captured, today :
    ExecuteRule(rule, fields, taxes, seen, captured, today) =
      IF Unsupported(rule, fields, taxes) THEN Refused(rule)
      ELSE IF rule.kind = "structured" THEN ExecuteStructured(rule, fields)
      ELSE Finish(rule, Declared(rule, fields)
                          \union CanonicalCheck(rule, fields, taxes, seen, captured, today))
  BY DEF ExecuteRule, Refused

LEMMA OutcomeCases ==
  \A in, rule, crash :
    \/ Outcome(in, rule, crash) = Raised(rule)
    \/ Outcome(in, rule, crash) = Refused(rule)
    \/ /\ ~Unsupported(rule, ExecFields(in), ExecutionTaxes(in))
       /\ rule.kind = "structured"
       /\ Outcome(in, rule, crash) = ExecuteStructured(rule, ExecFields(in))
    \/ /\ ~Unsupported(rule, ExecFields(in), ExecutionTaxes(in))
       /\ rule.kind # "structured"
       /\ Outcome(in, rule, crash) =
            Finish(rule, Declared(rule, ExecFields(in)) \union
                         CanonicalCheck(rule, ExecFields(in), ExecutionTaxes(in), Observations(in),
                                Captured(in), in["today"]))
  BY ExecuteRuleIs DEF Outcome, Raised, Refused

LEMMA DeclaredBlocks ==
  \A rule, fields : \A s \in Declared(rule, fields) : s.verdict = "BLOCKED"
  BY DEF Declared, Step

\* How a structured rule that can be executed ends.
Verdict(rule, main) ==
    CASE main.truth = "TRUE"  -> "PASS"
      [] main.truth = "FALSE" -> rule.otherwise
      [] OTHER                -> "BLOCKED"

LEMMA StructuredIs ==
  \A rule, fields :
    ExecuteStructured(rule, fields) =
      LET declared == Declared(rule, fields)
          app  == EvaluateGroup(rule.applies, fields)
          main == EvaluateGroup(rule.group, fields)
      IN  IF rule.applies # NULL /\ app.truth = "FALSE"
          THEN Result(rule, IF declared # {} THEN "BLOCKED" ELSE "NOT_APPLICABLE", declared)
          ELSE IF rule.applies # NULL /\ app.truth = "UNKNOWN"
          THEN Result(rule, "BLOCKED",
                      declared \union {Step("BLOCKED", "APPLICABILITY_UNKNOWN", app.required)})
          ELSE Finish(rule, declared \union {Step(Verdict(rule, main), "CONDITION", main.required)})
  BY Zenon DEF ExecuteStructured, Verdict

----------------------------------------------------------------------------
(* A condition that was published as ready is settled when it is executed.    *)

LEMMA TruthKnown ==
  \A group, fields : EvaluateGroup(group, fields).truth \in {"TRUE", "FALSE", "UNKNOWN"}
  BY DEF EvaluateGroup, GroupTruth

LEMMA NeededKnown ==
  \A rule, fields :
    Needed(rule, fields).known =>
      IF rule.applies = NULL \/ EvaluateGroup(rule.applies, fields).truth = "TRUE"
      THEN EvaluateGroup(rule.group, fields).truth # "UNKNOWN"
      ELSE EvaluateGroup(rule.applies, fields).truth # "UNKNOWN"
  BY DEF Needed

\* What a binding that is ready says of the inputs the rule declares itself.
LEMMA BoundInputs ==
  \A rule, fields, taxes :
    rule.kind = "structured" /\ BindRule(rule, fields, taxes).ready
                             /\ BindRule(rule, fields, taxes).supported =>
      /\ ~Unsupported(rule, fields, taxes)
      /\ Needed(rule, fields).known
      /\ \A n \in rule.inputs :
            /\ fields[FieldId(n)].quality \notin {"uncertain", "unlinked"}
            /\ fields[FieldId(n)].state \in {"present"}
                 \union (IF rule.canonical = "MISSING" THEN {"missing"} ELSE {})
<1> SUFFICES ASSUME NEW rule, NEW fields, NEW taxes,
                    rule.kind = "structured", BindRule(rule, fields, taxes).ready,
                    BindRule(rule, fields, taxes).supported
             PROVE  /\ ~Unsupported(rule, fields, taxes)
                    /\ Needed(rule, fields).known
                    /\ \A n \in rule.inputs :
                          /\ fields[FieldId(n)].quality \notin {"uncertain", "unlinked"}
                          /\ fields[FieldId(n)].state \in {"present"}
                               \union (IF rule.canonical = "MISSING" THEN {"missing"} ELSE {})
  OBVIOUS
<1>1. ~Unsupported(rule, fields, taxes)
  BY DEF BindRule
<1>2. Needed(rule, fields).known
  BY <1>1 DEF BindRule
<1>3. ASSUME NEW n \in rule.inputs
      PROVE  /\ fields[FieldId(n)].quality \notin {"uncertain", "unlinked"}
             /\ fields[FieldId(n)].state \in {"present"}
                  \union (IF rule.canonical = "MISSING" THEN {"missing"} ELSE {})
  <2> DEFINE d == Dependency(n, "unconditional")
  <2>1. d \in Dependencies(rule, fields)
    BY DEF Dependencies
  <2>2. d.name = n /\ d.phase = "unconditional"
    BY DEF Dependency
  <2> HIDE DEF d
  <2> QED BY <2>1, <2>2 DEF BindRule
<1> QED BY <1>1, <1>2, <1>3

LEMMA SupportedVerdict ==
  \A rule, fields, taxes :
    rule.kind = "structured" /\ ~Unsupported(rule, fields, taxes)
      => rule.otherwise \in {"FAIL", "NEEDS_REVIEW"}
  BY DEF Unsupported

LEMMA ReadyRuleEnds ==
  \A rule, fields, taxes :
    rule.kind = "structured" /\ BindRule(rule, fields, taxes).ready
                             /\ BindRule(rule, fields, taxes).supported
      => ExecuteStructured(rule, fields).complete
<1> SUFFICES ASSUME NEW rule, NEW fields, NEW taxes,
                    rule.kind = "structured", BindRule(rule, fields, taxes).ready,
                    BindRule(rule, fields, taxes).supported
             PROVE  ExecuteStructured(rule, fields).complete
  OBVIOUS
<1> DEFINE declared == Declared(rule, fields)
           app  == EvaluateGroup(rule.applies, fields)
           main == EvaluateGroup(rule.group, fields)
<1>1. declared = {}
  BY ZenonT(60), BoundInputs DEF Declared, Usable, Present, CleanlyMissing
<1>2. /\ ~(rule.applies # NULL /\ app.truth = "UNKNOWN")
      /\ ~(rule.applies # NULL /\ app.truth = "FALSE") => main.truth \in {"TRUE", "FALSE"}
  BY BoundInputs, NeededKnown, TruthKnown
<1>3. CASE rule.applies # NULL /\ app.truth = "FALSE"
  <2>1. ExecuteStructured(rule, fields) = Result(rule, "NOT_APPLICABLE", declared)
    BY <1>1, <1>3, StructuredIs
  <2> QED BY <2>1, ResultFields
<1>4. CASE ~(rule.applies # NULL /\ app.truth = "FALSE")
  <2>1. Verdict(rule, main) \in {"PASS", "FAIL", "NEEDS_REVIEW"}
    <3>1. rule.otherwise \in {"FAIL", "NEEDS_REVIEW"}
      BY BoundInputs, SupportedVerdict
    <3>2. CASE main.truth = "TRUE"
      BY <3>2, Zenon DEF Verdict
    <3>3. CASE main.truth = "FALSE"
      <4>1. Verdict(rule, main) = rule.otherwise
        BY <3>3, Zenon DEF Verdict
      <4> QED BY <3>1, <4>1
    <3> QED BY <1>2, <1>4, <3>2, <3>3
  <2> DEFINE s == Step(Verdict(rule, main), "CONDITION", main.required)
  <2>2. ExecuteStructured(rule, fields) = Finish(rule, {s})
    <3>1. ExecuteStructured(rule, fields) = Finish(rule, declared \union {s})
      BY <1>2, <1>4, StructuredIs
    <3>2. declared \union {s} = {s}
      BY <1>1
    <3> QED BY <3>1, <3>2
  <2>3. s.verdict = Verdict(rule, main)
    BY DEF Step
  <2> HIDE DEF s
  <2>4. \A t \in {s} : t.verdict # "BLOCKED"
    BY <2>1, <2>3
  <2>5. PICK status \in {"VIOLATED", "BLOCKED", "NEEDS_REVIEW", "PASS"} :
           status # "BLOCKED" /\ Finish(rule, {s}) = Result(rule, status, {s})
    BY <2>4, FinishIs
  <2> QED BY <2>2, <2>4, <2>5, ResultFields
<1> QED BY <1>3, <1>4

LEMMA ReadyFollows == EvaluationInv => ReadyIsConclusive
<1> SUFFICES ASSUME EvaluationInv, stage = "decided", NEW i \in DOMAIN results,
                    EnabledRules(input)[i].kind = "structured", results[i].status # "ERROR",
                    context.bindings[i].ready, context.bindings[i].supported
             PROVE  results[i].complete
  BY DEF ReadyIsConclusive
<1>1. PICK crash \in Crashes : results = Executed(input, crash)
  BY DEF EvaluationInv
<1> DEFINE rule == EnabledRules(input)[i]
<1>2. i \in DOMAIN EnabledRules(input) /\ results[i] = Outcome(input, rule, crash)
  BY <1>1, ExecutedIs
<1>3. context.bindings[i] = BindRule(rule, ExecFields(input), ExecutionTaxes(input))
  BY <1>2, BindingsAre DEF EvaluationInv
<1>4. ~Unsupported(rule, ExecFields(input), ExecutionTaxes(input))
  BY <1>3, BoundInputs
<1>5. results[i] # Raised(rule)
  BY ResultFields DEF Raised
<1>6. results[i] = ExecuteStructured(rule, ExecFields(input))
  BY <1>2, <1>4, <1>5 DEF Outcome, ExecuteRule, Raised
<1> QED BY <1>3, <1>6, ReadyRuleEnds

(* A condition whose binding was published as ready and supported is settled    *)
(* when it is executed: bind_rule and execute_rule, written apart, agree on     *)
(* what a condition needs, for every condition, every input and every facts.    *)
THEOREM ReadyConditionsAreSettled == SpecReviewed => []ReadyIsConclusive
  BY ReviewFrame, DecisionFollowsInput, ReadyFollows, PTL

----------------------------------------------------------------------------
(* The recommendation is the most severe consequence.                        *)

LEMMA RankIs == Rank("PAGAR") = 0 /\ Rank("ESCALAR") = 1 /\ Rank("NO_PAGAR") = 2
<1>1. Rank("PAGAR") = 0
  BY Zenon DEF Rank
<1>2. Rank("ESCALAR") = 1
  BY Zenon DEF Rank
<1>3. Rank("NO_PAGAR") = 2
  BY Zenon DEF Rank
<1> QED BY <1>1, <1>2, <1>3

\* The most severe of some recommendations is one of them.
LEMMA SevereIs ==
  ASSUME NEW all \in SUBSET Decisions, all # {}
  PROVE  LET d == CHOOSE d \in all : \A e \in all : Rank(e) <= Rank(d)
         IN  d \in all /\ \A e \in all : Rank(e) <= Rank(d)
<1>1. \E d \in all : \A e \in all : Rank(e) <= Rank(d)
  <2>1. CASE "NO_PAGAR" \in all
    BY <2>1, RankIs DEF Decisions
  <2>2. CASE "NO_PAGAR" \notin all /\ "ESCALAR" \in all
    BY <2>2, RankIs DEF Decisions
  <2>3. CASE all = {"PAGAR"}
    BY <2>3, RankIs
  <2> QED BY <2>1, <2>2, <2>3 DEF Decisions
<1> QED BY <1>1

LEMMA AggregateIs ==
  ASSUME NEW res, NEW outstanding,
         \A i \in DOMAIN res : res[i].consequence \in Decisions \union {NULL}
  PROVE  LET d == Aggregate(res, outstanding)
         IN  /\ d \in Decisions
             /\ d = "PAGAR" =>
                  /\ outstanding = {} /\ res # <<>>
                  /\ \A i \in DOMAIN res : res[i].complete /\ res[i].consequence \in {NULL, "PAGAR"}
                  /\ \E i \in DOMAIN res : res[i].consequence = "PAGAR"
             /\ d = "NO_PAGAR" => \E i \in DOMAIN res : res[i].consequence = "NO_PAGAR"
<1> DEFINE applied == {res[i].consequence : i \in DOMAIN res} \ {NULL}
           doubt   == \/ outstanding # {} \/ res = <<>>
                      \/ \E i \in DOMAIN res : ~res[i].complete
           all     == applied \union (IF doubt THEN {"ESCALAR"} ELSE {})
           d       == CHOOSE d \in all : \A e \in all : Rank(e) <= Rank(d)
<1>1. Aggregate(res, outstanding) = IF all = {} THEN "ESCALAR" ELSE d
  BY DEF Aggregate
<1>2. applied \subseteq Decisions
  OBVIOUS
<1>3. /\ \A i \in DOMAIN res : res[i].consequence \in applied \union {NULL}
      /\ \A c \in applied : \E i \in DOMAIN res : res[i].consequence = c
  OBVIOUS
<1> HIDE DEF applied, doubt
<1>4. all \in SUBSET Decisions /\ (doubt => "ESCALAR" \in all) /\ (~doubt => all = applied)
  BY <1>2 DEF Decisions
<1>5. CASE all = {}
  BY <1>1, <1>5 DEF Decisions
<1>6. CASE all # {}
  <2> HIDE DEF all
  <2>1. d \in all /\ \A e \in all : Rank(e) <= Rank(d)
    BY <1>4, <1>6, SevereIs
  <2> HIDE DEF d
  <2>2. Aggregate(res, outstanding) = d
    BY <1>1, <1>6
  <2>3. d \in Decisions
    BY <1>4, <2>1
  <2>4. ASSUME d = "PAGAR"
        PROVE  /\ outstanding = {} /\ res # <<>>
               /\ \A i \in DOMAIN res : res[i].complete /\ res[i].consequence \in {NULL, "PAGAR"}
               /\ \E i \in DOMAIN res : res[i].consequence = "PAGAR"
    <3>1. all \subseteq {"PAGAR"}
      BY <1>4, <2>1, <2>4, RankIs DEF Decisions
    <3>2. ~doubt /\ all = applied
      BY <1>4, <3>1
    <3>3. outstanding = {} /\ res # <<>> /\ \A i \in DOMAIN res : res[i].complete
      BY <3>2 DEF doubt
    <3> QED BY <1>3, <2>1, <2>4, <3>1, <3>2, <3>3
  <2>5. ASSUME d = "NO_PAGAR" PROVE \E i \in DOMAIN res : res[i].consequence = "NO_PAGAR"
    <3>1. "NO_PAGAR" \in applied
      BY <2>1, <2>5 DEF all
    <3> QED BY <1>3, <3>1
  <2> QED BY <2>2, <2>3, <2>4, <2>5
<1> QED BY <1>5, <1>6

----------------------------------------------------------------------------
(* What a rule's result says of how the rule ended.                           *)

LEMMA SupportedConsequence ==
  \A rule, fields, taxes :
    ~Unsupported(rule, fields, taxes) => rule.onFail \in {"ESCALAR", "NO_PAGAR"}
  BY DEF Unsupported

\* A result is settled in one of these ways.
Ended(rule, r) ==
    /\ r.consequence \in Decisions \union {NULL}
    /\ r.consequence = "PAGAR" => r.status = "PASS"
    /\ r.consequence = NULL => r.status = "NOT_APPLICABLE"
    /\ r.consequence = "NO_PAGAR" => r.status = "VIOLATED" /\ rule.onFail = "NO_PAGAR"
    /\ r.status = "VIOLATED" => \E s \in r.steps : s.verdict = "FAIL"

LEMMA FinishEnds ==
  \A rule, steps : rule.onFail \in {"ESCALAR", "NO_PAGAR"} => Ended(rule, Finish(rule, steps))
<1> SUFFICES ASSUME NEW rule, NEW steps, rule.onFail \in {"ESCALAR", "NO_PAGAR"}
             PROVE  Ended(rule, Finish(rule, steps))
  OBVIOUS
<1>1. PICK status \in {"VIOLATED", "BLOCKED", "NEEDS_REVIEW", "PASS"} :
         /\ status = "VIOLATED" <=> \E s \in steps : s.verdict = "FAIL"
         /\ \/ steps # {} /\ Finish(rule, steps) = Result(rule, status, steps)
            \/ /\ steps = {} /\ status = "BLOCKED"
               /\ Finish(rule, steps) =
                    Result(rule, status, {Step("BLOCKED", "NO_EXECUTABLE_ASSERTIONS", {})})
  BY FinishIs
<1>2. PICK shown : Finish(rule, steps) = Result(rule, status, shown) /\ (steps # {} => shown = steps)
  BY <1>1
<1>3. status = "VIOLATED" => \E s \in shown : s.verdict = "FAIL"
  BY <1>1, <1>2
<1>4. Ended(rule, Result(rule, status, shown))
  BY <1>1, <1>3, ResultFields, EvaluationAssumption DEF Ended, Decisions
<1> QED BY <1>2, <1>4

LEMMA OutcomeEnds == \A in, rule, crash : Ended(rule, Outcome(in, rule, crash))
<1> SUFFICES ASSUME NEW in, NEW rule, NEW crash PROVE Ended(rule, Outcome(in, rule, crash))
  OBVIOUS
<1> DEFINE fields == ExecFields(in)
<1>0. \A status, steps :
        status \in {"ERROR", "UNSUPPORTED", "BLOCKED", "NOT_APPLICABLE"}
          => Ended(rule, Result(rule, status, steps))
  BY ResultFields, EvaluationAssumption DEF Ended, Decisions
<1>1. CASE Outcome(in, rule, crash) \in {Raised(rule), Refused(rule)}
  BY <1>0, <1>1 DEF Raised, Refused
<1>2. CASE /\ ~Unsupported(rule, fields, ExecutionTaxes(in))
           /\ Outcome(in, rule, crash) = ExecuteStructured(rule, fields)
  <2>1. rule.onFail \in {"ESCALAR", "NO_PAGAR"}
    BY <1>2, SupportedConsequence
  <2>2. \/ \E status, steps : /\ status \in {"BLOCKED", "NOT_APPLICABLE"}
                              /\ ExecuteStructured(rule, fields) = Result(rule, status, steps)
        \/ \E steps : ExecuteStructured(rule, fields) = Finish(rule, steps)
    <3> DEFINE declared == Declared(rule, fields)
               app  == EvaluateGroup(rule.applies, fields)
               main == EvaluateGroup(rule.group, fields)
               short == IF declared # {} THEN "BLOCKED" ELSE "NOT_APPLICABLE"
               doubt == declared \union {Step("BLOCKED", "APPLICABILITY_UNKNOWN", app.required)}
               steps == declared \union {Step(Verdict(rule, main), "CONDITION", main.required)}
    <3>1. \/ ExecuteStructured(rule, fields) = Result(rule, short, declared)
          \/ ExecuteStructured(rule, fields) = Result(rule, "BLOCKED", doubt)
          \/ ExecuteStructured(rule, fields) = Finish(rule, steps)
      BY StructuredIs
    <3>2. short \in {"BLOCKED", "NOT_APPLICABLE"}
      OBVIOUS
    <3> HIDE DEF short, doubt, steps
    <3> QED BY <3>1, <3>2
  <2> QED BY <1>0, <1>2, <2>1, <2>2, FinishEnds
<1>3. CASE \E steps : /\ ~Unsupported(rule, fields, ExecutionTaxes(in))
                      /\ Outcome(in, rule, crash) = Finish(rule, steps)
  BY <1>3, SupportedConsequence, FinishEnds
<1> QED BY <1>1, <1>2, <1>3, OutcomeCases

\* What has been decided is backed by the results.
LEMMA DecidedIs ==
  ASSUME EvaluationInv, stage = "decided"
  PROVE  /\ decision \in Decisions
         /\ DOMAIN results = DOMAIN EnabledRules(input)
         /\ decision = "PAGAR" =>
              /\ Outstanding(input, Findings(input), results) = {}
              /\ \A i \in DOMAIN results :
                    results[i].complete /\ results[i].status \in {"PASS", "NOT_APPLICABLE"}
              /\ \E i \in DOMAIN results : results[i].status = "PASS"
         /\ decision = "NO_PAGAR" =>
              \E i \in DOMAIN results : /\ EnabledRules(input)[i].onFail = "NO_PAGAR"
                                        /\ results[i].status = "VIOLATED"
<1>1. PICK crash \in Crashes : results = Executed(input, crash)
  BY DEF EvaluationInv
<1>2. /\ DOMAIN results = DOMAIN EnabledRules(input)
      /\ \A i \in DOMAIN results : Ended(EnabledRules(input)[i], results[i])
  BY <1>1, ExecutedIs, OutcomeEnds
<1> DEFINE outstanding == Outstanding(input, Findings(input), results)
<1>3. decision = Aggregate(results, outstanding)
  BY DEF EvaluationInv
<1>4. \A i \in DOMAIN results : results[i].consequence \in Decisions \union {NULL}
  BY <1>2 DEF Ended
<1> HIDE DEF outstanding
<1>5. /\ decision \in Decisions
      /\ decision = "PAGAR" =>
           /\ outstanding = {}
           /\ \A i \in DOMAIN results :
                 results[i].complete /\ results[i].consequence \in {NULL, "PAGAR"}
           /\ \E i \in DOMAIN results : results[i].consequence = "PAGAR"
      /\ decision = "NO_PAGAR" => \E i \in DOMAIN results : results[i].consequence = "NO_PAGAR"
  BY <1>3, <1>4, AggregateIs
<1> QED BY <1>2, <1>5 DEF Ended, outstanding
----------------------------------------------------------------------------
(* The review.                                                               *)

Answers ==
    {Answer(doubted, doubt, remarks, unread, cite) :
        doubted \in Doubted, doubt \in {"CHALLENGED", "UNCERTAIN"},
        remarks \in {{}} \union {{r} : r \in Remarks}, unread \in Unread, cite \in Citations}

\* Where a review comes from: a failure, or an answer that was valid for what it is about.
MadeOfAnswer ==
    \E fit \in Fits :
       \/ review = Failed(review.error, fit)
       \/ \E answer \in Answers :
             /\ fit # "too_large"
             /\ ValidAnswer(answer, input, results, fit)
             /\ review = Reviewed(answer, input, results, context.findings, decision, fit)

ReviewInv == EvaluationInv /\ (review # NULL => stage = "decided" /\ MadeOfAnswer)

LEMMA ReviewInit == InitReviewed => ReviewInv
  BY EvaluationInit DEF InitReviewed, ReviewInv

LEMMA AnswersStay == UNCHANGED vars => Answers' = Answers
  BY DEF vars, Answers, Answer, Doubted

LEMMA ReviewStepKeeps == ReviewInv /\ [NextReviewed]_reviewVars => ReviewInv'
<1> SUFFICES ASSUME ReviewInv, [NextReviewed]_reviewVars PROVE ReviewInv'
  OBVIOUS
<1>1. CASE Decide
  BY <1>1, EvaluationStep DEF Decide, ReviewInv
<1>2. CASE ReviewStep
  <2>1. UNCHANGED vars /\ stage = "decided"
    BY <1>2 DEF ReviewStep, ReviewFails, ReviewAnswers, Reviewable
  <2>2. EvaluationInv' /\ stage' = "decided" /\ Answers' = Answers
    BY <2>1, EvaluationStep, AnswersStay DEF ReviewInv, vars
  <2>3. /\ input' = input /\ results' = results /\ context' = context /\ decision' = decision
    BY <2>1 DEF vars
  <2>4. ASSUME NEW fit \in Fits, NEW call \in Calls, ReviewFails(fit, call) PROVE MadeOfAnswer'
    <3>1. PICK code : review' = Failed(code, fit)
      BY <2>4 DEF ReviewFails
    <3>2. review'.error = code
      BY <3>1 DEF Failed
    <3> QED BY <3>1, <3>2 DEF MadeOfAnswer
  <2>5. ASSUME NEW fit \in Fits \ {"too_large"}, NEW answer \in Answers, ReviewAnswers(fit, answer)
        PROVE  MadeOfAnswer'
    <3>1. CASE ValidAnswer(answer, input, results, fit)
      <4>1. review' = Reviewed(answer, input, results, context.findings, decision, fit)
        BY <2>5, <3>1 DEF ReviewAnswers
      <4> QED BY <2>2, <2>3, <3>1, <4>1 DEF MadeOfAnswer
    <3>2. CASE ~ValidAnswer(answer, input, results, fit)
      <4>1. review' = Failed("invalid_response", fit)
        BY <2>5, <3>2 DEF ReviewAnswers
      <4>2. review'.error = "invalid_response"
        BY <4>1 DEF Failed
      <4> QED BY <4>1, <4>2 DEF MadeOfAnswer
    <3> QED BY <3>1, <3>2
  <2>6. ASSUME NEW fit \in Fits \ {"too_large"}, NEW doubted \in Doubted, NEW doubt \in {"CHALLENGED", "UNCERTAIN"},
               NEW remarks \in {{}} \union {{r} : r \in Remarks}, NEW unread \in Unread,
               NEW cite \in Citations,
               ReviewAnswers(fit, Answer(doubted, doubt, remarks, unread, cite))
        PROVE  MadeOfAnswer'
    <3>1. PICK answer : answer = Answer(doubted, doubt, remarks, unread, cite)
      OBVIOUS
    <3>2. answer \in Answers
      BY <3>1 DEF Answers
    <3> QED BY <2>5, <2>6, <3>1, <3>2
  <2> QED BY <1>2, <2>2, <2>4, <2>6 DEF ReviewStep, ReviewInv
<1>3. CASE UNCHANGED reviewVars
  <2>1. UNCHANGED vars /\ review' = review
    BY <1>3 DEF reviewVars
  <2>2. EvaluationInv' /\ Answers' = Answers
    BY <2>1, EvaluationStep, AnswersStay DEF ReviewInv
  <2>3. MadeOfAnswer => MadeOfAnswer'
    BY <2>1, <2>2 DEF MadeOfAnswer, vars
  <2> QED BY <2>1, <2>2, <2>3 DEF ReviewInv, vars
<1> QED BY <1>1, <1>2, <1>3 DEF NextReviewed

LEMMA ReviewInvariant == SpecReviewed => []ReviewInv
  BY ReviewInit, ReviewStepKeeps, PTL DEF SpecReviewed

----------------------------------------------------------------------------
(* What a valid answer says of each rule, and what the review keeps of it.    *)

LEMMA DoubtIsExplained ==
  \A answer, in, res, fit :
    ValidAnswer(answer, in, res, fit) =>
      \A i \in DOMAIN res : answer.assessments[i] # "SUPPORTED" =>
         \E r \in answer.remarks : r.blocking /\ res[i].rule \in r.rules
  BY DEF ValidAnswer

LEMMA ReviewedFields ==
  \A answer, in, res, findings, made, fit :
    LET rev == Reviewed(answer, in, res, findings, made, fit)
    IN  /\ rev.status \in {"COMPLETED", "INCOMPLETE"}
        /\ rev.assessments = answer.assessments /\ rev.remarks = answer.remarks
        /\ rev.fit = fit /\ rev.unreviewed = Documents(in) \ answer.reviewed
        /\ rev.status = "COMPLETED" => ~Limited(answer, in, res, fit)
        /\ ~rev.attention =>
             /\ ~Limited(answer, in, res, fit)
             /\ made = "PAGAR" /\ Outstanding(in, findings, res) = {}
             /\ \A i \in DOMAIN res : answer.assessments[i] = "SUPPORTED"
             /\ \A r \in answer.remarks : ~r.blocking
<1> SUFFICES ASSUME NEW answer, NEW in, NEW res, NEW findings, NEW made, NEW fit
             PROVE  LET rev == Reviewed(answer, in, res, findings, made, fit)
                    IN  /\ rev.status \in {"COMPLETED", "INCOMPLETE"}
                        /\ rev.assessments = answer.assessments /\ rev.remarks = answer.remarks
                        /\ rev.fit = fit /\ rev.unreviewed = Documents(in) \ answer.reviewed
                        /\ rev.status = "COMPLETED" => ~Limited(answer, in, res, fit)
                        /\ ~rev.attention =>
                             /\ ~Limited(answer, in, res, fit)
                             /\ made = "PAGAR" /\ Outstanding(in, findings, res) = {}
                             /\ \A i \in DOMAIN res : answer.assessments[i] = "SUPPORTED"
                             /\ \A r \in answer.remarks : ~r.blocking
  OBVIOUS
<1> DEFINE complete == /\ ~Limited(answer, in, res, fit)
                       /\ \A i \in DOMAIN res : answer.assessments[i] # "UNCERTAIN"
           clean    == /\ complete
                       /\ made = "PAGAR" /\ Eligible(res, made)
                       /\ \A i \in DOMAIN res : answer.assessments[i] = "SUPPORTED"
                       /\ Outstanding(in, findings, res) = {}
                       /\ \A r \in answer.remarks : ~r.blocking
           made1    == [status |-> IF complete THEN "COMPLETED" ELSE "INCOMPLETE", attention |-> ~clean,
                        error |-> NULL, fit |-> fit, assessments |-> answer.assessments,
                        remarks |-> answer.remarks, unreviewed |-> Documents(in) \ answer.reviewed]
<1>1. Reviewed(answer, in, res, findings, made, fit) = made1
  BY Zenon DEF Reviewed
<1>2. /\ complete => ~Limited(answer, in, res, fit)
      /\ clean => /\ complete
                  /\ made = "PAGAR" /\ Outstanding(in, findings, res) = {}
                  /\ \A i \in DOMAIN res : answer.assessments[i] = "SUPPORTED"
                  /\ \A r \in answer.remarks : ~r.blocking
  OBVIOUS
<1> HIDE DEF complete, clean
<1>3. /\ made1.status = (IF complete THEN "COMPLETED" ELSE "INCOMPLETE")
      /\ made1.attention = ~clean /\ made1.fit = fit
      /\ made1.assessments = answer.assessments /\ made1.remarks = answer.remarks
      /\ made1.unreviewed = Documents(in) \ answer.reviewed
  OBVIOUS
<1> HIDE DEF made1
<1> QED BY <1>1, <1>2, <1>3

LEMMA UnlimitedIs ==
  \A answer, in, res, fit :
    ~Limited(answer, in, res, fit) =>
      /\ fit # "excerpts" /\ Documents(in) \ answer.reviewed = {}
      /\ Sources(in) = Documents(in) /\ Partial(in) = {}
  BY DEF Limited, Documents

LEMMA ExportFollows == ReviewInv => ExportedWasNotDoubted
<1> SUFFICES ASSUME ReviewInv, decision # NULL, Output(decision, review) = "PAGAR"
             PROVE  /\ \A i \in DOMAIN results : results[i].status \in {"PASS", "NOT_APPLICABLE"}
                    /\ \A i \in DOMAIN results :
                          \/ review.assessments[i] = "SUPPORTED"
                          \/ \E r \in review.remarks :
                                r.kind = "REVIEW_LIMITATION" /\ results[i].rule \in r.rules
                    /\ review.status = "COMPLETED" => Sources(input) = Documents(input)
  BY DEF ExportedWasNotDoubted
<1>1. /\ decision = "PAGAR" /\ review # NULL /\ review.status # "FAILED"
      /\ \A i \in DOMAIN review.assessments : review.assessments[i] # "CHALLENGED"
      /\ \A r \in review.remarks : r.blocking => r.kind = "REVIEW_LIMITATION"
  BY DEF Output
<1>2. EvaluationInv /\ stage = "decided"
  BY <1>1 DEF ReviewInv
<1>3. PICK fit \in Fits, answer \in Answers :
         /\ ValidAnswer(answer, input, results, fit)
         /\ review = Reviewed(answer, input, results, context.findings, decision, fit)
  <2>1. \A code, fit : Failed(code, fit).status = "FAILED"
    BY DEF Failed
  <2> QED BY <1>1, <2>1 DEF ReviewInv, MadeOfAnswer
<1>4. /\ review.assessments = answer.assessments /\ review.remarks = answer.remarks
      /\ review.status = "COMPLETED" => ~Limited(answer, input, results, fit)
  BY <1>3, ReviewedFields
<1>5. \A i \in DOMAIN results : results[i].status \in {"PASS", "NOT_APPLICABLE"}
  BY <1>1, <1>2, DecidedIs
<1>6. ASSUME NEW i \in DOMAIN results, review.assessments[i] # "SUPPORTED"
      PROVE  \E r \in review.remarks : r.kind = "REVIEW_LIMITATION" /\ results[i].rule \in r.rules
  BY <1>1, <1>3, <1>4, <1>6, DoubtIsExplained
<1>7. review.status = "COMPLETED" => Sources(input) = Documents(input)
  BY <1>4, UnlimitedIs
<1> QED BY <1>5, <1>6, <1>7

(* What leaves as PAGAR under review was decided PAGAR, every rule of it was    *)
(* supported, or doubted only because the model could not read something and    *)
(* said so (contextual_review._validate_response, export_outcomes.decide_output).*)
THEOREM NothingDoubtedLeaves == SpecReviewed => []ExportedWasNotDoubted
  BY ReviewInvariant, ExportFollows, PTL

LEMMA UnattendedFollows == ReviewInv /\ PaidIsPayable => UnattendedIsPayable
<1> SUFFICES ASSUME ReviewInv, PaidIsPayable, review # NULL, ~review.attention
             PROVE  /\ AsksEnough(input) => PayableInvoice(input)
                    /\ review.fit = "whole" /\ review.unreviewed = {}
                    /\ Sources(input) = Documents(input) /\ Partial(input) = {}
                    /\ \A i \in DOMAIN results : review.assessments[i] = "SUPPORTED"
                    /\ \A r \in review.remarks : ~r.blocking
  BY DEF UnattendedIsPayable
<1>1. PICK fit \in Fits \ {"too_large"}, answer \in Answers :
         /\ ValidAnswer(answer, input, results, fit)
         /\ review = Reviewed(answer, input, results, context.findings, decision, fit)
  <2>1. \A code, fit : Failed(code, fit).attention
    BY DEF Failed
  <2> QED BY <2>1 DEF ReviewInv, MadeOfAnswer
<1>2. /\ review.assessments = answer.assessments /\ review.remarks = answer.remarks
      /\ review.fit = fit /\ review.unreviewed = Documents(input) \ answer.reviewed
      /\ ~Limited(answer, input, results, fit)
      /\ decision = "PAGAR"
      /\ \A i \in DOMAIN results : answer.assessments[i] = "SUPPORTED"
      /\ \A r \in answer.remarks : ~r.blocking
  BY <1>1, ReviewedFields
<1>3. AsksEnough(input) => PayableInvoice(input)
  BY <1>2 DEF PaidIsPayable
<1>4. /\ fit # "excerpts" /\ Documents(input) \ answer.reviewed = {}
      /\ Sources(input) = Documents(input) /\ Partial(input) = {}
  BY <1>2, UnlimitedIs
<1>5. fit = "whole"
  BY <1>1, <1>4 DEF Fits
<1> QED BY <1>2, <1>3, <1>4, <1>5

----------------------------------------------------------------------------
(* Facts: their quality is as bad as the worst they rest on.                  *)

Qualities == {"not_applicable", "no_reported_issue", "unlinked", "uncertain"}
Clean(quality) == quality \notin {"uncertain", "unlinked"}

\* A fact, whatever it says.
Shape(x) ==
    /\ x = [value |-> x.value, state |-> x.state, quality |-> x.quality, from |-> x.from,
            weak |-> x.weak]
    /\ x.quality \in Qualities

LEMMA QualityOrder ==
  /\ QualityRank["not_applicable"] = 0 /\ QualityRank["no_reported_issue"] = 1
  /\ QualityRank["unlinked"] = 2 /\ QualityRank["uncertain"] = 3
  BY DEF QualityRank

LEMMA WorstIs ==
  ASSUME NEW qs \in SUBSET Qualities, qs # {}
  PROVE  /\ Worst(qs) \in Qualities
         /\ Clean(Worst(qs)) => \A q \in qs : Clean(q)
<1>1. \E q \in qs : \A r \in qs : QualityRank[r] <= QualityRank[q]
  <2>1. CASE "uncertain" \in qs
    BY <2>1, QualityOrder DEF Qualities
  <2>2. CASE "uncertain" \notin qs /\ "unlinked" \in qs
    BY <2>2, QualityOrder DEF Qualities
  <2>3. CASE "uncertain" \notin qs /\ "unlinked" \notin qs /\ "no_reported_issue" \in qs
    BY <2>3, QualityOrder DEF Qualities
  <2>4. CASE qs = {"not_applicable"}
    BY <2>4, QualityOrder
  <2> QED BY <2>1, <2>2, <2>3, <2>4 DEF Qualities
<1>2. Worst(qs) \in qs /\ \A r \in qs : QualityRank[r] <= QualityRank[Worst(qs)]
  BY <1>1 DEF Worst
<1>3. ASSUME Clean(Worst(qs)), NEW q \in qs PROVE Clean(q)
  <2>1. Worst(qs) \in {"not_applicable", "no_reported_issue"}
    BY <1>2, <1>3 DEF Qualities, Clean
  <2>2. QualityRank[Worst(qs)] \in {0, 1}
    BY <2>1, QualityOrder
  <2>3. QualityRank[q] <= QualityRank[Worst(qs)]
    BY <1>2
  <2>4. QualityRank[q] \notin {2, 3}
    BY <2>2, <2>3
  <2> QED BY <2>4, QualityOrder DEF Clean
<1> QED BY <1>2, <1>3 DEF Qualities

LEMMA FactIs ==
  \A value, state, quality, from :
    LET x == Fact(value, state, quality, from)
    IN  /\ x.value = value /\ x.state = state /\ x.quality = quality /\ x.from = from
        /\ x.weak = FALSE
        /\ quality \in Qualities => Shape(x)
  BY DEF Fact, Shape

\* A fact that is told how well its printed value is linked.
Told(value, state, quality, from, weak) == [Fact(value, state, quality, from) EXCEPT !.weak = weak]

LEMMA ToldIs ==
  \A value, state, quality, from, weak :
    LET x == Told(value, state, quality, from, weak)
    IN  /\ x.value = value /\ x.state = state /\ x.quality = quality /\ x.from = from
        /\ x.weak = weak
        /\ quality \in Qualities => Shape(x)
  BY DEF Told, Fact, Shape

LEMMA DerivedIs ==
  \A value, state, from :
    /\ Derived(value, state, from).state = state
    /\ Derived(value, state, from).from = from
    /\ Derived(value, state, from).quality = "not_applicable"
    /\ Shape(Derived(value, state, from))
  BY FactIs DEF Derived, Qualities

----------------------------------------------------------------------------
(* A printed value that is known without a doubt.                             *)

LEMMA LinkedQualityIs ==
  \A in, pointer, link :
    /\ LinkedQuality(in, pointer, link) \in Qualities
    /\ Clean(LinkedQuality(in, pointer, link)) => ~(link = "uncertain" /\ in["reading"])
  BY DEF LinkedQuality, Qualities, Clean

LEMMA IssueStateIs ==
  \A in, pointer :
    IssueState(in, pointer) = NULL =>
      \A i \in DOMAIN in["issues"] : ~Overlap(in["issues"][i].field, pointer)
  BY EvaluationAssumption DEF IssueState

LEMMA ScalarIs ==
  \A in, pointer, scalar, isText :
    LET x == InvoiceScalar(in, pointer, scalar, isText)
    IN  /\ Shape(x) /\ x.from = {}
        /\ Clean(x.quality) /\ ~x.weak => Doubtless(in, pointer, scalar)
<1> SUFFICES ASSUME NEW in, NEW pointer, NEW scalar, NEW isText
             PROVE  LET x == InvoiceScalar(in, pointer, scalar, isText)
                    IN  /\ Shape(x) /\ x.from = {}
                        /\ Clean(x.quality) /\ ~x.weak => Doubtless(in, pointer, scalar)
  OBVIOUS
<1> DEFINE issue   == IssueState(in, pointer)
           quality == LinkedQuality(in, pointer, scalar.link)
           weak    == scalar.raw # NULL /\ ~GoodLink(in, scalar.link)
           fact    == IF issue # NULL THEN Fact(NULL, issue, "uncertain", {})
                      ELSE IF scalar.raw = NULL
                           THEN Fact(NULL, "missing", "no_reported_issue", {})
                      ELSE IF scalar.raw = BAD THEN Fact(NULL, "invalid", quality, {})
                      ELSE Fact(IF isText THEN Normal(scalar.raw) ELSE scalar.raw,
                                "present", quality, {})
           x       == InvoiceScalar(in, pointer, scalar, isText)
<1>1. x = [fact EXCEPT !.weak = weak]
  BY DEF InvoiceScalar
<1>2. PICK v, s, q : /\ fact = Fact(v, s, q, {})
                     /\ q \in {"uncertain", "no_reported_issue", quality}
                     /\ issue # NULL => q = "uncertain"
                     /\ issue = NULL /\ scalar.raw # NULL => q = quality
  OBVIOUS
<1>3. q \in Qualities
  BY <1>2, LinkedQualityIs DEF Qualities
<1> HIDE DEF fact
<1>4. PICK w : w = weak
  OBVIOUS
<1>5. x = Told(v, s, q, {}, w)
  BY <1>1, <1>2, <1>4, Zenon DEF Told
<1>6. Shape(x) /\ x.from = {} /\ x.quality = q /\ x.weak = w
  BY <1>3, <1>5, ToldIs
<1>7. ASSUME Clean(q), ~weak PROVE Doubtless(in, pointer, scalar)
  <2>1. issue = NULL
    BY <1>2, <1>7 DEF Clean
  <2>2. \A i \in DOMAIN in["issues"] : ~Overlap(in["issues"][i].field, pointer)
    BY <2>1, IssueStateIs
  <2>3. CASE scalar.raw = NULL
    BY <2>2, <2>3 DEF Doubtless
  <2>4. CASE scalar.raw # NULL
    <3>1. GoodLink(in, scalar.link) /\ Clean(quality)
      BY <1>2, <1>7, <2>1, <2>4
    <3> QED BY <2>2, <3>1, LinkedQualityIs DEF Doubtless, GoodLink
  <2> QED BY <2>3, <2>4
<1> QED BY <1>4, <1>6, <1>7
LEMMA TaxKindIs ==
  \A in, pointer, label : Shape(TaxKind(in, pointer, label))
<1> SUFFICES ASSUME NEW in, NEW pointer, NEW label PROVE Shape(TaxKind(in, pointer, label))
  OBVIOUS
<1> DEFINE issue == IssueState(in, pointer)
           quality == LinkedQuality(in, pointer, label.link)
           fact  == IF issue # NULL THEN Fact(NULL, issue, "uncertain", {})
                    ELSE Fact(label.raw, "present", quality, {})
<1>1. PICK v, s, q : fact = Fact(v, s, q, {}) /\ q \in {"uncertain", quality}
  OBVIOUS
<1>2. q \in Qualities
  BY <1>1, LinkedQualityIs DEF Qualities
<1>3. PICK w : w = ~GoodLink(in, label.link)
  OBVIOUS
<1>4. TaxKind(in, pointer, label) = [fact EXCEPT !.weak = ~GoodLink(in, label.link)]
  BY DEF TaxKind
<1> HIDE DEF fact
<1>5. TaxKind(in, pointer, label) = Told(v, s, q, {}, w)
  BY <1>1, <1>3, <1>4, Zenon DEF Told
<1> QED BY <1>2, <1>5, ToldIs

LEMMA CombinedIs ==
  ASSUME NEW value, NEW state, NEW own \in Qualities, NEW qualities \in SUBSET Qualities, NEW weak
  PROVE  LET x == Combined(value, state, own, qualities, weak)
         IN  /\ Shape(x) /\ x.from = {} /\ x.weak = weak
             /\ Clean(x.quality) => \A q \in qualities : Clean(q)
<1> DEFINE q == Worst({own} \union qualities)
<1>1. q \in Qualities /\ (Clean(q) => \A r \in {own} \union qualities : Clean(r))
  BY WorstIs
<1>2. Combined(value, state, own, qualities, weak) = Told(value, state, q, {}, weak)
  BY Zenon DEF Combined, Told
<1> HIDE DEF q
<1> QED BY <1>1, <1>2, ToldIs

LEMMA DocumentTypeIs ==
  \A in : Shape(DocumentType(in)) /\ DocumentType(in).from = {}
<1> SUFFICES ASSUME NEW in PROVE Shape(DocumentType(in)) /\ DocumentType(in).from = {}
  OBVIOUS
<1> DEFINE quality == LinkedQuality(in, <<"document_type">>, in["document_type"].link)
<1>1. PICK w : w = ~GoodLink(in, in["document_type"].link)
  OBVIOUS
<1>2. DocumentType(in) = Told(in["document_type"].raw, "present", quality, {}, w)
  BY <1>1, Zenon DEF DocumentType, Told
<1>3. quality \in Qualities
  BY LinkedQualityIs
<1> HIDE DEF quality
<1> QED BY <1>2, <1>3, ToldIs

\* The lines and the taxes that an amount is computed from are all without doubt.
LinesDoubtless(in) ==
    \A i \in DOMAIN in["lines"] : Doubtless(in, <<"lines", i, "amount">>, in["lines"][i])
TaxesDoubtless(in) ==
    \A i \in DOMAIN in["taxes"] : Doubtless(in, <<"taxes", i, "amount">>, in["taxes"][i].amount)

LEMMA LineAmountsIs ==
  \A in : LET x == LineAmounts(LineFacts(in))
          IN  /\ Shape(x) /\ x.from = {}
              /\ Clean(x.quality) /\ ~x.weak => LinesDoubtless(in)
<1> SUFFICES ASSUME NEW in
             PROVE  LET x == LineAmounts(LineFacts(in))
                    IN  /\ Shape(x) /\ x.from = {}
                        /\ Clean(x.quality) /\ ~x.weak => LinesDoubtless(in)
  OBVIOUS
<1> DEFINE lines == LineFacts(in)
           qualities == {lines[i].quality : i \in DOMAIN lines}
<1>1. /\ DOMAIN lines = DOMAIN in["lines"]
      /\ \A i \in DOMAIN lines :
            /\ lines[i].quality \in Qualities
            /\ Clean(lines[i].quality) /\ ~lines[i].weak
                 => Doubtless(in, <<"lines", i, "amount">>, in["lines"][i])
  BY ScalarIs DEF LineFacts, Shape
<1> HIDE DEF lines
<1> DEFINE states == {lines[i].state : i \in DOMAIN lines}
           state  == IF lines = <<>> THEN "missing"
                     ELSE IF "invalid" \in states THEN "invalid"
                     ELSE IF states # {"present"} THEN "missing" ELSE "present"
           value  == IF state = "present" THEN [i \in DOMAIN lines |-> lines[i].value] ELSE NULL
           own    == IF state # "present" THEN "not_applicable"
                     ELSE IF \A i \in DOMAIN lines : lines[i].quality = "no_reported_issue"
                     THEN "no_reported_issue" ELSE "uncertain"
           weak   == \E i \in DOMAIN lines : lines[i].weak
<1>2. /\ own \in Qualities
      /\ LineAmounts(lines) = Combined(value, state, own, qualities, weak)
  <2>1. LineAmounts(lines) = Combined(value, state, own, qualities, weak)
    BY Zenon DEF LineAmounts
  <2>2. own \in Qualities
    <3> HIDE DEF state
    <3> QED BY DEF Qualities
  <2> HIDE DEF value, own, weak, qualities
  <2> QED BY <2>1, <2>2
<1>3. qualities \in SUBSET Qualities
  BY <1>1
<1> HIDE DEF qualities
<1>4. /\ Shape(LineAmounts(lines)) /\ LineAmounts(lines).from = {} /\ LineAmounts(lines).weak = weak
      /\ Clean(LineAmounts(lines).quality) => \A q \in qualities : Clean(q)
  <2> HIDE DEF value, state, own, weak
  <2> QED BY <1>2, <1>3, CombinedIs
<1>5. ASSUME Clean(LineAmounts(lines).quality), ~weak PROVE LinesDoubtless(in)
  <2> SUFFICES ASSUME NEW i \in DOMAIN lines
               PROVE  Doubtless(in, <<"lines", i, "amount">>, in["lines"][i])
    BY <1>1 DEF LinesDoubtless
  <2>1. lines[i].quality \in qualities
    BY DEF qualities
  <2> QED BY <1>1, <1>4, <1>5, <2>1
<1> HIDE DEF weak
<1> QED BY <1>4, <1>5 DEF lines

LEMMA VatAmountIs ==
  \A in : LET x == VatAmount(TaxFacts(in))
          IN  /\ Shape(x) /\ x.from = {}
              /\ Clean(x.quality) /\ ~x.weak => TaxesDoubtless(in)
<1> SUFFICES ASSUME NEW in
             PROVE  LET x == VatAmount(TaxFacts(in))
                    IN  /\ Shape(x) /\ x.from = {}
                        /\ Clean(x.quality) /\ ~x.weak => TaxesDoubtless(in)
  OBVIOUS
<1> DEFINE taxes == TaxFacts(in)
           qualities == UNION {{taxes[i].kind.quality, taxes[i].amount.quality} : i \in DOMAIN taxes}
<1>1. /\ DOMAIN taxes = DOMAIN in["taxes"]
      /\ \A i \in DOMAIN taxes :
            /\ taxes[i].kind.quality \in Qualities /\ taxes[i].amount.quality \in Qualities
            /\ Clean(taxes[i].amount.quality) /\ ~taxes[i].amount.weak
                 => Doubtless(in, <<"taxes", i, "amount">>, in["taxes"][i].amount)
  BY ScalarIs, TaxKindIs DEF TaxFacts, Shape
<1> HIDE DEF taxes
<1>2. qualities \in SUBSET Qualities
  <2> SUFFICES ASSUME NEW q \in qualities PROVE q \in Qualities
    OBVIOUS
  <2>1. PICK i \in DOMAIN taxes : q \in {taxes[i].kind.quality, taxes[i].amount.quality}
    OBVIOUS
  <2> QED BY <1>1, <2>1
<1> DEFINE kinds  == {IF taxes[i].kind.value = NULL THEN "unknown" ELSE taxes[i].kind.value :
                        i \in DOMAIN taxes}
           states == {taxes[i].amount.state : i \in DOMAIN taxes}
           vat    == SelectSeq(taxes, LAMBDA t : t.kind.value = "vat")
           state  == IF taxes = <<>> THEN "missing"
                     ELSE IF "unknown" \in kinds THEN "ambiguous"
                     ELSE IF "invalid" \in states THEN "invalid"
                     ELSE IF states # {"present"} \/ vat = <<>> THEN "missing" ELSE "present"
           value  == IF state = "present"
                     THEN SumOf([i \in DOMAIN vat |-> vat[i].amount.value]) ELSE NULL
           own    == IF state = "present" THEN "no_reported_issue" ELSE "not_applicable"
           weak   == \E i \in DOMAIN taxes : taxes[i].kind.weak \/ taxes[i].amount.weak
<1>3. /\ own \in Qualities
      /\ VatAmount(taxes) = Combined(value, state, own, qualities, weak)
  <2>1. VatAmount(taxes) = Combined(value, state, own, qualities, weak)
    BY Zenon DEF VatAmount
  <2>2. own \in Qualities
    <3> HIDE DEF state
    <3> QED BY DEF Qualities
  <2> HIDE DEF value, own, weak, qualities
  <2> QED BY <2>1, <2>2
<1> HIDE DEF qualities
<1>4. /\ Shape(VatAmount(taxes)) /\ VatAmount(taxes).from = {} /\ VatAmount(taxes).weak = weak
      /\ Clean(VatAmount(taxes).quality) => \A q \in qualities : Clean(q)
  <2> HIDE DEF value, state, own, weak
  <2> QED BY <1>2, <1>3, CombinedIs
<1>5. ASSUME Clean(VatAmount(taxes).quality), ~weak PROVE TaxesDoubtless(in)
  <2> SUFFICES ASSUME NEW i \in DOMAIN taxes
               PROVE  Doubtless(in, <<"taxes", i, "amount">>, in["taxes"][i].amount)
    BY <1>1 DEF TaxesDoubtless
  <2>1. taxes[i].amount.quality \in qualities
    BY DEF qualities
  <2> QED BY <1>1, <1>4, <1>5, <2>1
<1> HIDE DEF weak
<1> QED BY <1>4, <1>5 DEF taxes
PrintedNames == InvoiceScalars \union {"invoice.document_type", "invoice.line_amounts", "invoice.vat_amount"}

\* The printed values behind a printed fact are without doubt.
Backed(in, f) ==
    /\ f \in InvoiceScalars => Doubtless(in, PointerOf[f], in[f])
    /\ f = "invoice.line_amounts" => LinesDoubtless(in)
    /\ f = "invoice.vat_amount" => TaxesDoubtless(in)

LEMMA PrintedIs ==
  \A in :
    /\ DOMAIN PrintedFacts(in) = PrintedNames
    /\ \A f \in PrintedNames :
          /\ Shape(PrintedFacts(in)[f]) /\ PrintedFacts(in)[f].from = {}
          /\ Clean(PrintedFacts(in)[f].quality) /\ ~PrintedFacts(in)[f].weak => Backed(in, f)
<1> SUFFICES ASSUME NEW in
             PROVE  /\ DOMAIN PrintedFacts(in) = PrintedNames
                    /\ \A f \in PrintedNames :
                          /\ Shape(PrintedFacts(in)[f]) /\ PrintedFacts(in)[f].from = {}
                          /\ Clean(PrintedFacts(in)[f].quality) /\ ~PrintedFacts(in)[f].weak => Backed(in, f)
  OBVIOUS
<1>1. PICK lines : lines = LineFacts(in)
  OBVIOUS
<1>2. PICK taxes : taxes = TaxFacts(in)
  OBVIOUS
<1>3. /\ The({LineAmounts(l) : l \in {LineFacts(in)}}) = LineAmounts(LineFacts(in))
      /\ The({VatAmount(t) : t \in {TaxFacts(in)}}) = VatAmount(TaxFacts(in))
  <2>1. /\ {LineAmounts(l) : l \in {LineFacts(in)}} = {LineAmounts(LineFacts(in))}
        /\ {VatAmount(t) : t \in {TaxFacts(in)}} = {VatAmount(TaxFacts(in))}
    OBVIOUS
  <2> QED BY <2>1, TheOnly
<1>4. PrintedFacts(in) =
        [f \in PrintedNames |->
           IF f \in InvoiceScalars THEN InvoiceScalar(in, PointerOf[f], in[f], f \in TextFields)
           ELSE IF f = "invoice.document_type" THEN DocumentType(in)
           ELSE IF f = "invoice.line_amounts"  THEN LineAmounts(LineFacts(in))
           ELSE VatAmount(TaxFacts(in))]
  BY <1>3, Zenon DEF PrintedFacts, PrintedNames
<1>5. {"invoice.document_type", "invoice.line_amounts", "invoice.vat_amount"} \intersect InvoiceScalars = {}
  BY DEF InvoiceScalars, TextFields
<1>6. ASSUME NEW f \in InvoiceScalars
      PROVE  /\ Shape(PrintedFacts(in)[f]) /\ PrintedFacts(in)[f].from = {}
             /\ Clean(PrintedFacts(in)[f].quality) /\ ~PrintedFacts(in)[f].weak => Backed(in, f)
  <2>1. PICK text : text = (f \in TextFields)
    OBVIOUS
  <2>2. PrintedFacts(in)[f] = InvoiceScalar(in, PointerOf[f], in[f], text)
    BY <1>4, <2>1 DEF PrintedNames
  <2> QED BY <1>5, <2>2, ScalarIs DEF Backed
<1>7. /\ PrintedFacts(in)["invoice.document_type"] = DocumentType(in)
      /\ PrintedFacts(in)["invoice.line_amounts"] = LineAmounts(LineFacts(in))
      /\ PrintedFacts(in)["invoice.vat_amount"] = VatAmount(TaxFacts(in))
  BY <1>4, <1>5 DEF PrintedNames
<1>8. ASSUME NEW f \in PrintedNames \ InvoiceScalars
      PROVE  /\ Shape(PrintedFacts(in)[f]) /\ PrintedFacts(in)[f].from = {}
             /\ Clean(PrintedFacts(in)[f].quality) /\ ~PrintedFacts(in)[f].weak => Backed(in, f)
  BY <1>5, <1>7, DocumentTypeIs, LineAmountsIs, VatAmountIs DEF PrintedNames, Backed
<1>9. DOMAIN PrintedFacts(in) = PrintedNames
  BY <1>4
<1> QED BY <1>6, <1>8, <1>9

----------------------------------------------------------------------------
(* What the facts of the masters, the ERP and the histories are computed from. *)

LEMMA MasterFieldIs ==
  \A snap, scope, raw, value, parent :
    Shape(MasterField(snap, scope, raw, value, parent))
      /\ MasterField(snap, scope, raw, value, parent).from = {parent}
<1> SUFFICES ASSUME NEW snap, NEW scope, NEW raw, NEW value, NEW parent
             PROVE  Shape(MasterField(snap, scope, raw, value, parent))
                      /\ MasterField(snap, scope, raw, value, parent).from = {parent}
  OBVIOUS
<1>1. \E v, s : MasterField(snap, scope, raw, value, parent) = Derived(v, s, {parent})
  BY DEF MasterField
<1> QED BY <1>1, DerivedIs

SupplierFrom(f) == IF f = "supplier.id" THEN {"invoice.supplier_tax_id"} ELSE {"supplier.id"}
OrderFrom(f) == IF f = "order.id" THEN {"invoice.order_reference"} ELSE {"order.id"}

LEMMA SupplierIs ==
  \A in, printed :
    /\ DOMAIN SupplierFacts(in, printed) = SupplierFields
    /\ \A f \in SupplierFields :
          /\ Shape(SupplierFacts(in, printed)[f])
          /\ SupplierFacts(in, printed)[f].from = SupplierFrom(f)
<1> SUFFICES ASSUME NEW in, NEW printed
             PROVE  /\ DOMAIN SupplierFacts(in, printed) = SupplierFields
                    /\ \A f \in SupplierFields :
                          /\ Shape(SupplierFacts(in, printed)[f])
                          /\ SupplierFacts(in, printed)[f].from = SupplierFrom(f)
  OBVIOUS
<1>1. DOMAIN SupplierFacts(in, printed) = SupplierFields
  BY Zenon DEF SupplierFacts
<1> DEFINE snap  == in["suppliers"]
           tax   == printed["invoice.supplier_tax_id"]
           block == MasterBlock(snap, "supplier.identity",
                                "SUPPLIER_MASTER_UNAVAILABLE", "SUPPLIER_MASTER_MALFORMED")
           state == IF block # "NONE" THEN BlockState(block)
                    ELSE IF ~Present(tax) THEN tax.state
                    ELSE IF SupplierResolved(in, tax.value) THEN "present"
                    ELSE IF SupplierCandidates(in, tax.value) = {} THEN "missing" ELSE "ambiguous"
           row   == snap.rows[CHOOSE i \in SupplierCandidates(in, tax.value) : TRUE]
           Column(scope, raw, value) == MasterField(snap, scope, raw, value, "supplier.id")
           Of(f) == CASE f = "supplier.tax_id" -> Column("supplier.identity", row.nif, Normal(row.nif))
                      [] f = "supplier.iban"   -> Column("supplier.bank_details", row.iban, Normal(row.iban))
                      [] f = "supplier.city"   -> Column("supplier.identity", row.city, Normal(row.city))
                      [] f = "supplier.active" -> Column("supplier.active", row.active, row.active)
                      [] OTHER                 -> Column("supplier.payment_terms", row.terms, row.terms)
           id    == Derived(IF state = "present" THEN row.id ELSE NULL, state, {"invoice.supplier_tax_id"})
           none  == Derived(NULL, "unavailable", {"supplier.id"})
<1>2. SupplierFacts(in, printed) =
        [f \in SupplierFields |->
           IF f = "supplier.id" THEN id ELSE IF state # "present" THEN none ELSE Of(f)]
  BY Zenon DEF SupplierFacts
<1>3. \A f : \E scope, raw, value : Of(f) = Column(scope, raw, value)
  <2> HIDE DEF row, snap
  <2>1. ASSUME NEW f, f = "supplier.tax_id" PROVE Of(f) = Column("supplier.identity", row.nif, Normal(row.nif))
    BY <2>1, Zenon
  <2>2. ASSUME NEW f, f = "supplier.iban" PROVE Of(f) = Column("supplier.bank_details", row.iban, Normal(row.iban))
    BY <2>2, Zenon
  <2>3. ASSUME NEW f, f = "supplier.city" PROVE Of(f) = Column("supplier.identity", row.city, Normal(row.city))
    BY <2>3, Zenon
  <2>4. ASSUME NEW f, f = "supplier.active" PROVE Of(f) = Column("supplier.active", row.active, row.active)
    BY <2>4, Zenon
  <2>5. ASSUME NEW f, f \notin {"supplier.tax_id", "supplier.iban", "supplier.city", "supplier.active"}
        PROVE  Of(f) = Column("supplier.payment_terms", row.terms, row.terms)
    BY <2>5, Zenon
  <2> HIDE DEF Of, Column
  <2> QED BY <2>1, <2>2, <2>3, <2>4, <2>5
<1> HIDE DEF Of, id, none, state, row
<1>4. /\ Shape(id) /\ id.from = {"invoice.supplier_tax_id"}
      /\ Shape(none) /\ none.from = {"supplier.id"}
      /\ \A f : Shape(Of(f)) /\ Of(f).from = {"supplier.id"}
  BY <1>3, DerivedIs, MasterFieldIs DEF id, none
<1>5. ASSUME NEW f \in SupplierFields
      PROVE  Shape(SupplierFacts(in, printed)[f]) /\ SupplierFacts(in, printed)[f].from = SupplierFrom(f)
  <2>1. SupplierFacts(in, printed)[f] =
          IF f = "supplier.id" THEN id ELSE IF state # "present" THEN none ELSE Of(f)
    BY <1>2
  <2> QED BY <2>1, <1>4 DEF SupplierFrom
<1> QED BY <1>1, <1>5
LEMMA OrderIs ==
  \A in, printed :
    /\ DOMAIN OrderFacts(in, printed) = OrderFields
    /\ \A f \in OrderFields :
          /\ Shape(OrderFacts(in, printed)[f])
          /\ OrderFacts(in, printed)[f].from = OrderFrom(f)
<1> SUFFICES ASSUME NEW in, NEW printed
             PROVE  /\ DOMAIN OrderFacts(in, printed) = OrderFields
                    /\ \A f \in OrderFields :
                          /\ Shape(OrderFacts(in, printed)[f])
                          /\ OrderFacts(in, printed)[f].from = OrderFrom(f)
  OBVIOUS
<1>1. DOMAIN OrderFacts(in, printed) = OrderFields
  BY Zenon DEF OrderFacts
<1> DEFINE snap  == in["orders"]
           ref   == printed["invoice.order_reference"]
           block == MasterBlock(snap, "order.identity",
                                "ORDER_MASTER_UNAVAILABLE", "ORDER_MASTER_MALFORMED")
           rows  == OrderCandidates(in, ref.value)
           state == IF block # "NONE" THEN BlockState(block)
                    ELSE IF ~Present(ref) THEN ref.state
                    ELSE IF OneRow(snap, rows) THEN "present"
                    ELSE IF rows = {} THEN "missing" ELSE "ambiguous"
           row   == snap.rows[CHOOSE i \in rows : TRUE]
           Column(scope, raw, value) == MasterField(snap, scope, raw, value, "order.id")
           Of(f) == CASE f = "order.supplier_id" -> Column("order.identity", row.owner, Normal(row.owner))
                      [] f = "order.total"       -> Column("order.amount", row.total, row.total)
                      [] OTHER                   -> Column("order.currency", row.currency, row.currency)
           id    == Derived(IF state = "present" THEN ref.value ELSE NULL, state, {"invoice.order_reference"})
           none  == Derived(NULL, "unavailable", {"order.id"})
<1>2. OrderFacts(in, printed) =
        [f \in OrderFields |->
           IF f = "order.id" THEN id ELSE IF state # "present" THEN none ELSE Of(f)]
  BY Zenon DEF OrderFacts
<1>3. \A f : \E scope, raw, value : Of(f) = Column(scope, raw, value)
  <2> HIDE DEF row, snap
  <2>1. ASSUME NEW f, f = "order.supplier_id"
        PROVE  Of(f) = Column("order.identity", row.owner, Normal(row.owner))
    BY <2>1, Zenon
  <2>2. ASSUME NEW f, f = "order.total" PROVE Of(f) = Column("order.amount", row.total, row.total)
    BY <2>2, Zenon
  <2>3. ASSUME NEW f, f \notin {"order.supplier_id", "order.total"}
        PROVE  Of(f) = Column("order.currency", row.currency, row.currency)
    BY <2>3, Zenon
  <2> HIDE DEF Of, Column
  <2> QED BY <2>1, <2>2, <2>3
<1> HIDE DEF Of, id, none, state, row
<1>4. /\ Shape(id) /\ id.from = {"invoice.order_reference"}
      /\ Shape(none) /\ none.from = {"order.id"}
      /\ \A f : Shape(Of(f)) /\ Of(f).from = {"order.id"}
  BY <1>3, DerivedIs, MasterFieldIs DEF id, none
<1>5. ASSUME NEW f \in OrderFields
      PROVE  Shape(OrderFacts(in, printed)[f]) /\ OrderFacts(in, printed)[f].from = OrderFrom(f)
  <2>1. OrderFacts(in, printed)[f] =
          IF f = "order.id" THEN id ELSE IF state # "present" THEN none ELSE Of(f)
    BY <1>2
  <2> QED BY <2>1, <1>4 DEF OrderFrom
<1> QED BY <1>1, <1>5

LEMMA ErpIs ==
  \A in, printed :
    LET x == ErpFact(in, printed)
    IN  /\ Shape(x) /\ x.from \in {{}, {"invoice.order_reference"}}
        /\ x.state \in {"present", "missing"} => x.from = {"invoice.order_reference"}
<1> SUFFICES ASSUME NEW in, NEW printed
             PROVE  LET x == ErpFact(in, printed)
                    IN  /\ Shape(x) /\ x.from \in {{}, {"invoice.order_reference"}}
                        /\ x.state \in {"present", "missing"} => x.from = {"invoice.order_reference"}
  OBVIOUS
<1>1. \/ ErpFact(in, printed) = Derived(NULL, "unavailable", {})
      \/ \E v, s : ErpFact(in, printed) = Derived(v, s, {"invoice.order_reference"})
  BY Zenon DEF ErpFact
<1> QED BY <1>1, DerivedIs

LEMMA HistoryIs ==
  \A in, h, facts :
    Shape(HistoryFact(in, h, facts)) /\ HistoryFact(in, h, facts).from = HistoryKeys
<1> SUFFICES ASSUME NEW in, NEW h, NEW facts
             PROVE  Shape(HistoryFact(in, h, facts)) /\ HistoryFact(in, h, facts).from = HistoryKeys
  OBVIOUS
<1>1. \E v, s : HistoryFact(in, h, facts) = Derived(v, s, HistoryKeys)
  BY Zenon DEF HistoryFact
<1> QED BY <1>1, DerivedIs

----------------------------------------------------------------------------
(* The facts of the alignment, and how far back their lineage reaches.         *)

MasterNames == PrintedNames \union SupplierFields \union OrderFields \union {"erp.order_payment_status"}

LEMMA NamesApart ==
  /\ PrintedNames \intersect (SupplierFields \union OrderFields \union {"erp.order_payment_status"}) = {}
  /\ SupplierFields \intersect (OrderFields \union {"erp.order_payment_status"}) = {}
  /\ "erp.order_payment_status" \notin OrderFields
  /\ {"invoice.supplier_tax_id", "invoice.order_reference"} \subseteq InvoiceScalars
  /\ {"supplier.id"} \subseteq SupplierFields /\ {"order.id"} \subseteq OrderFields
  /\ HistoryKeys \subseteq InvoiceScalars \union SupplierFields
  BY DEF PrintedNames, InvoiceScalars, TextFields, SupplierFields, OrderFields, HistoryKeys

LEMMA MastersAre ==
  \A in, printed :
    DOMAIN printed = PrintedNames =>
      /\ DOMAIN WithMasters(in, printed) = MasterNames
      /\ \A f \in SupplierFields : WithMasters(in, printed)[f] = SupplierFacts(in, printed)[f]
      /\ \A f \in OrderFields : WithMasters(in, printed)[f] = OrderFacts(in, printed)[f]
      /\ WithMasters(in, printed)["erp.order_payment_status"] = ErpFact(in, printed)
      /\ \A f \in PrintedNames : WithMasters(in, printed)[f] = printed[f]
<1> SUFFICES ASSUME NEW in, NEW printed, DOMAIN printed = PrintedNames
             PROVE  /\ DOMAIN WithMasters(in, printed) = MasterNames
                    /\ \A f \in SupplierFields : WithMasters(in, printed)[f] = SupplierFacts(in, printed)[f]
                    /\ \A f \in OrderFields : WithMasters(in, printed)[f] = OrderFacts(in, printed)[f]
                    /\ WithMasters(in, printed)["erp.order_payment_status"] = ErpFact(in, printed)
                    /\ \A f \in PrintedNames : WithMasters(in, printed)[f] = printed[f]
  OBVIOUS
<1> DEFINE Joined(supplier, order) ==
             [f \in DOMAIN printed \union SupplierFields \union OrderFields
                      \union {"erp.order_payment_status"} |->
                IF f \in SupplierFields THEN supplier[f]
                ELSE IF f \in OrderFields THEN order[f]
                ELSE IF f = "erp.order_payment_status" THEN ErpFact(in, printed) ELSE printed[f]]
           all == Joined(SupplierFacts(in, printed), OrderFacts(in, printed))
<1> DEFINE alls == {Joined(supplier, order) : supplier \in {SupplierFacts(in, printed)},
                                              order \in {OrderFacts(in, printed)}}
<1>1. WithMasters(in, printed) = The(alls)
  BY DEF WithMasters
<1>2. all = [f \in MasterNames |->
               IF f \in SupplierFields THEN SupplierFacts(in, printed)[f]
               ELSE IF f \in OrderFields THEN OrderFacts(in, printed)[f]
               ELSE IF f = "erp.order_payment_status" THEN ErpFact(in, printed) ELSE printed[f]]
  BY DEF MasterNames
<1> HIDE DEF Joined
<1>3. alls = {all}
  OBVIOUS
<1> HIDE DEF all, alls
<1>4. WithMasters(in, printed) = all
  BY <1>1, <1>3, TheOnly
<1> QED BY <1>2, <1>4, NamesApart DEF MasterNames

Names == MasterNames \union {HistoryField[h] : h \in Histories}

LEMMA ResolvedIs ==
  \A in :
    LET facts == WithMasters(in, PrintedFacts(in))
    IN  ResolvedFacts(in) =
          [f \in DOMAIN facts \union {HistoryField[h] : h \in Histories} |->
             IF f \in DOMAIN facts THEN facts[f]
             ELSE HistoryFact(in, CHOOSE h \in Histories : HistoryField[h] = f, facts)]
<1> SUFFICES ASSUME NEW in PROVE ResolvedFacts(in) = WithHistories(in, WithMasters(in, PrintedFacts(in)))
  BY DEF WithHistories
<1>1. {WithMasters(in, printed) : printed \in {PrintedFacts(in)}} = {WithMasters(in, PrintedFacts(in))}
  OBVIOUS
<1>2. {WithHistories(in, facts) : facts \in {WithMasters(in, PrintedFacts(in))}}
        = {WithHistories(in, WithMasters(in, PrintedFacts(in)))}
  OBVIOUS
<1> QED BY <1>1, <1>2, TheOnly DEF ResolvedFacts

LEMMA FieldsAre == \A in : Fields(in) = PropagateQuality(ResolvedFacts(in))
  BY TheOnly DEF Fields

LEMMA ResolvedFactsAre ==
  \A in :
    LET facts == ResolvedFacts(in)
    IN  /\ DOMAIN facts = Names
        /\ \A f \in Names : Shape(facts[f]) /\ facts[f].from \subseteq Names
        /\ \A f \in PrintedNames : facts[f] = PrintedFacts(in)[f]
        /\ \A f \in SupplierFields : facts[f].from = SupplierFrom(f)
        /\ \A f \in OrderFields : facts[f].from = OrderFrom(f)
        /\ facts["erp.order_payment_status"].state \in {"present", "missing"}
             => facts["erp.order_payment_status"].from = {"invoice.order_reference"}
<1> SUFFICES ASSUME NEW in
             PROVE  LET facts == ResolvedFacts(in)
                    IN  /\ DOMAIN facts = Names
                        /\ \A f \in Names : Shape(facts[f]) /\ facts[f].from \subseteq Names
                        /\ \A f \in PrintedNames : facts[f] = PrintedFacts(in)[f]
                        /\ \A f \in SupplierFields : facts[f].from = SupplierFrom(f)
                        /\ \A f \in OrderFields : facts[f].from = OrderFrom(f)
                        /\ facts["erp.order_payment_status"].state \in {"present", "missing"}
                             => facts["erp.order_payment_status"].from = {"invoice.order_reference"}
  OBVIOUS
<1> DEFINE facts == ResolvedFacts(in)
           masters == WithMasters(in, PrintedFacts(in))
<1>1. /\ DOMAIN masters = MasterNames
      /\ \A f \in SupplierFields : masters[f] = SupplierFacts(in, PrintedFacts(in))[f]
      /\ \A f \in OrderFields : masters[f] = OrderFacts(in, PrintedFacts(in))[f]
      /\ masters["erp.order_payment_status"] = ErpFact(in, PrintedFacts(in))
      /\ \A f \in PrintedNames : masters[f] = PrintedFacts(in)[f]
  BY PrintedIs, MastersAre
<1> HIDE DEF masters
<1>2. facts = [f \in DOMAIN masters \union {HistoryField[h] : h \in Histories} |->
                 IF f \in DOMAIN masters THEN masters[f]
                 ELSE HistoryFact(in, CHOOSE h \in Histories : HistoryField[h] = f, masters)]
  BY ResolvedIs DEF masters
<1> HIDE DEF facts
<1>3. /\ DOMAIN facts = Names
      /\ \A f \in MasterNames : facts[f] = masters[f]
      /\ \A f \in Names \ MasterNames : \E h : facts[f] = HistoryFact(in, h, masters)
  BY <1>1, <1>2 DEF Names
<1>4. /\ \A f \in SupplierFields : Shape(facts[f]) /\ facts[f].from = SupplierFrom(f)
      /\ \A f \in OrderFields : Shape(facts[f]) /\ facts[f].from = OrderFrom(f)
      /\ \A f \in PrintedNames : facts[f] = PrintedFacts(in)[f]
  BY <1>1, <1>3, SupplierIs, OrderIs DEF MasterNames
<1>5. /\ Shape(facts["erp.order_payment_status"])
      /\ facts["erp.order_payment_status"].from \in {{}, {"invoice.order_reference"}}
      /\ facts["erp.order_payment_status"].state \in {"present", "missing"}
           => facts["erp.order_payment_status"].from = {"invoice.order_reference"}
  BY <1>1, <1>3, ErpIs DEF MasterNames
<1>6. \A f \in Names \ MasterNames : Shape(facts[f]) /\ facts[f].from = HistoryKeys
  BY <1>3, HistoryIs
<1>7. \A f \in PrintedNames : Shape(facts[f]) /\ facts[f].from = {}
  BY <1>4, PrintedIs
<1>8. ASSUME NEW f \in Names PROVE Shape(facts[f]) /\ facts[f].from \subseteq Names
  <2>1. InvoiceScalars \union SupplierFields \union OrderFields \subseteq Names
    BY DEF Names, MasterNames, PrintedNames
  <2>2. CASE f \in SupplierFields
    BY <1>4, <2>1, <2>2, NamesApart DEF SupplierFrom
  <2>3. CASE f \in OrderFields
    BY <1>4, <2>1, <2>3, NamesApart DEF OrderFrom
  <2>4. CASE f = "erp.order_payment_status"
    BY <1>5, <2>1, <2>4, NamesApart
  <2>5. CASE f \in PrintedNames
    BY <1>7, <2>5
  <2>6. CASE f \in Names \ MasterNames
    BY <1>6, <2>1, <2>6, NamesApart
  <2> QED BY <2>2, <2>3, <2>4, <2>5, <2>6 DEF MasterNames
<1> QED BY <1>3, <1>4, <1>5, <1>8 DEF facts
\* A fact whose quality has been settled.
Requalified(x, quality) == [x EXCEPT !.quality = quality]

LEMMA RequalifiedIs ==
  ASSUME NEW x, Shape(x), NEW quality
  PROVE  LET y == Requalified(x, quality)
         IN  /\ y.state = x.state /\ y.value = x.value /\ y.from = x.from /\ y.weak = x.weak
             /\ y.quality = quality
             /\ quality \in Qualities => Shape(y)
<1>1. PICK v, s, q, fr, w :
         /\ x = [value |-> v, state |-> s, quality |-> q, from |-> fr, weak |-> w]
         /\ v = x.value /\ s = x.state /\ fr = x.from /\ w = x.weak
  BY DEF Shape
<1>2. [[value |-> v, state |-> s, quality |-> q, from |-> fr, weak |-> w] EXCEPT !.quality = quality]
        = [value |-> v, state |-> s, quality |-> quality, from |-> fr, weak |-> w]
  OBVIOUS
<1>3. Requalified(x, quality) = [value |-> v, state |-> s, quality |-> quality, from |-> fr, weak |-> w]
  BY <1>1, <1>2, Zenon DEF Requalified
<1> QED BY <1>1, <1>3 DEF Shape

\* What the facts that a fact was computed from say of it.
LEMMA LineageIs ==
  ASSUME NEW in, NEW f \in Names
  PROVE  LET facts == ResolvedFacts(in)
             x     == ExecFields(in)[f]
         IN  /\ x.state = facts[f].state /\ x.value = facts[f].value
             /\ Clean(x.quality) =>
                  \A g \in Lineage(facts, f) : g \in Names /\ Clean(facts[g].quality) /\ ~facts[g].weak
<1> DEFINE facts  == ResolvedFacts(in)
           fields == Fields(in)
           x      == ExecFields(in)[f]
           qualities(h) == {facts[g].quality : g \in Lineage(facts, h)}
<1>1. /\ DOMAIN facts = Names
      /\ \A g \in Names : Shape(facts[g]) /\ facts[g].from \subseteq Names
  BY ResolvedFactsAre
<1>2. fields = PropagateQuality(facts)
  BY FieldsAre
<1>3. x = ExecutionFields(fields)[f]
  BY ExecFieldsAre
<1> HIDE DEF facts, fields, x
<1>4. \A h \in Names : Lineage(facts, h) \subseteq Names /\ h \in Lineage(facts, h)
  BY <1>1 DEF Lineage
<1>5. /\ DOMAIN fields = Names
      /\ \A h \in Names : fields[h] = Requalified(facts[h], Worst(qualities(h)))
  BY <1>1, <1>2, Zenon DEF PropagateQuality, Requalified
<1>6. ASSUME NEW h \in Names
      PROVE  /\ qualities(h) \in SUBSET Qualities /\ qualities(h) # {}
             /\ Worst(qualities(h)) \in Qualities
             /\ Clean(Worst(qualities(h))) => \A q \in qualities(h) : Clean(q)
  <2>1. qualities(h) \in SUBSET Qualities /\ qualities(h) # {}
    BY <1>1, <1>4 DEF Shape
  <2> HIDE DEF qualities
  <2> QED BY <2>1, WorstIs
<1>7. ASSUME NEW h \in Names
      PROVE  /\ Shape(fields[h]) /\ fields[h].state = facts[h].state /\ fields[h].value = facts[h].value
             /\ fields[h].from = facts[h].from /\ fields[h].weak = facts[h].weak
             /\ Clean(fields[h].quality) => \A g \in Lineage(facts, h) : Clean(facts[g].quality)
  <2>1. \A g \in Lineage(facts, h) : facts[g].quality \in qualities(h)
    OBVIOUS
  <2> DEFINE worst == Worst(qualities(h))
  <2>2. worst \in Qualities /\ (Clean(worst) => \A g \in Lineage(facts, h) : Clean(facts[g].quality))
    BY <1>6, <2>1
  <2>3. fields[h] = Requalified(facts[h], worst)
    BY <1>5
  <2> HIDE DEF worst
  <2>4. Shape(facts[h])
    BY <1>1
  <2> QED BY <2>2, <2>3, <2>4, RequalifiedIs
<1>8. Lineage(fields, f) = Lineage(facts, f)
  BY <1>1, <1>7 DEF Lineage
<1>9. x = IF Guarded(fields, f) THEN Requalified(fields[f], "uncertain") ELSE fields[f]
  BY <1>3, <1>5, Zenon DEF ExecutionFields, Requalified
<1>10. x.state = facts[f].state /\ x.value = facts[f].value
  BY <1>7, <1>9, RequalifiedIs
<1>11. ASSUME Clean(x.quality), NEW g \in Lineage(facts, f)
       PROVE  g \in Names /\ Clean(facts[g].quality) /\ ~facts[g].weak
  <2>1. ~Guarded(fields, f)
    BY <1>7, <1>9, <1>11, RequalifiedIs DEF Clean
  <2>2. g \in Names /\ ~fields[g].weak
    BY <1>4, <1>8, <1>11, <2>1 DEF Guarded
  <2>3. fields[g].weak = facts[g].weak
    BY <1>7, <2>2
  <2> QED BY <1>7, <1>9, <1>11, <2>1, <2>2, <2>3
<1> QED BY <1>10, <1>11 DEF facts, x

LEMMA RestsOnIs ==
  ASSUME NEW in, NEW f
  PROVE  RestsOn(in, f) =
           IF f \in InvoiceScalars THEN {f}
           ELSE IF f \in SupplierFields THEN {"invoice.supplier_tax_id"}
           ELSE IF f \in OrderFields \union {"erp.order_payment_status"} THEN {"invoice.order_reference"}
           ELSE {}
<1>1. InvoiceScalars \subseteq PrintedNames
  BY DEF PrintedNames
<1>2. CASE f \in InvoiceScalars
  BY <1>2, <1>1, NamesApart, Zenon DEF RestsOn
<1>3. CASE f \in SupplierFields
  <2>1. f \notin InvoiceScalars /\ f \notin OrderFields \union {"erp.order_payment_status"}
    BY <1>3, <1>1, NamesApart
  <2> QED BY <1>3, <2>1, Zenon DEF RestsOn
<1>4. CASE f \in OrderFields \union {"erp.order_payment_status"}
  <2>1. f \notin InvoiceScalars /\ f \notin SupplierFields
    BY <1>4, <1>1, NamesApart
  <2> QED BY <1>4, <2>1, Zenon DEF RestsOn
<1>5. CASE f \notin InvoiceScalars \union SupplierFields \union OrderFields \union {"erp.order_payment_status"}
  <2>1. f \notin InvoiceScalars /\ f \notin SupplierFields /\ f \notin OrderFields \union {"erp.order_payment_status"}
    BY <1>5
  <2> QED BY <2>1, Zenon DEF RestsOn
<1> QED BY <1>2, <1>3, <1>4, <1>5

(* A fact that is known, or known to be missing, rests on printed values that   *)
(* are all read without doubt.                                                  *)
LEMMA KnownIsGrounded ==
  ASSUME NEW in, NEW f, Clean(ExecFields(in)[f].quality),
         ExecFields(in)[f].state \in {"present", "missing"}
  PROVE  Grounded(in, f)
<1> DEFINE facts == ResolvedFacts(in)
<1>0. InvoiceScalars \subseteq PrintedNames /\ PrintedNames \subseteq Names
      /\ SupplierFields \union OrderFields \union {"erp.order_payment_status"} \subseteq Names
  BY DEF Names, MasterNames, PrintedNames
<1>1. /\ \A g \in PrintedNames : facts[g] = PrintedFacts(in)[g]
      /\ \A g \in SupplierFields : facts[g].from = SupplierFrom(g)
      /\ \A g \in OrderFields : facts[g].from = OrderFrom(g)
      /\ facts["erp.order_payment_status"].state \in {"present", "missing"}
           => facts["erp.order_payment_status"].from = {"invoice.order_reference"}
  BY ResolvedFactsAre
<1>2. f \in Names =>
        /\ facts[f].state \in {"present", "missing"}
        /\ \A g \in Lineage(facts, f) : Clean(facts[g].quality) /\ ~facts[g].weak
  BY LineageIs
<1> HIDE DEF facts
<1>3. \A g \in PrintedNames : Clean(facts[g].quality) /\ ~facts[g].weak => Backed(in, g)
  BY <1>1, PrintedIs
<1>4. \A g \in InvoiceScalars \intersect Lineage(facts, f) :
        f \in Names => Doubtless(in, PointerOf[g], in[g])
  BY <1>0, <1>2, <1>3 DEF Backed
<1>5. /\ {"invoice.line_amounts", "invoice.vat_amount"} \subseteq PrintedNames
      /\ "invoice.line_amounts" \notin RestsOn(in, f)
  BY RestsOnIs DEF PrintedNames, InvoiceScalars, TextFields
<1>6. f \in Lineage(facts, f)
  BY DEF Lineage
<1>7. RestsOn(in, f) \subseteq InvoiceScalars \intersect Lineage(facts, f) /\ (RestsOn(in, f) # {} => f \in Names)
  <2>1. CASE f \in InvoiceScalars
    BY <2>1, <1>0, <1>6, RestsOnIs
  <2>2. CASE f \in SupplierFields
    <3>1. RestsOn(in, f) = {"invoice.supplier_tax_id"}
      BY <2>2, <1>0, RestsOnIs, NamesApart
    <3>2. "invoice.supplier_tax_id" \in Lineage(facts, f)
      BY <2>2, <1>1, NamesApart DEF Lineage, SupplierFrom
    <3> QED BY <2>2, <3>1, <3>2, <1>0, NamesApart
  <2>3. CASE f \in OrderFields
    <3>1. RestsOn(in, f) = {"invoice.order_reference"}
      BY <2>3, <1>0, RestsOnIs, NamesApart
    <3>2. "invoice.order_reference" \in Lineage(facts, f)
      BY <2>3, <1>1, NamesApart DEF Lineage, OrderFrom
    <3> QED BY <2>3, <3>1, <3>2, <1>0, NamesApart
  <2>4. CASE f = "erp.order_payment_status"
    <3>1. RestsOn(in, f) = {"invoice.order_reference"}
      BY <2>4, <1>0, RestsOnIs, NamesApart
    <3>2. facts[f].from = {"invoice.order_reference"}
      BY <2>4, <1>0, <1>1, <1>2
    <3>3. "invoice.order_reference" \in Lineage(facts, f)
      BY <3>2 DEF Lineage
    <3> QED BY <2>4, <3>1, <3>3, <1>0, NamesApart
  <2>5. CASE f \notin InvoiceScalars \union SupplierFields \union OrderFields \union {"erp.order_payment_status"}
    <3>1. RestsOn(in, f) = {}
      BY <2>5, RestsOnIs
    <3> QED BY <3>1
  <2> QED BY <2>1, <2>2, <2>3, <2>4, <2>5
<1>8. \A g \in RestsOn(in, f) : Doubtless(in, PointerOf[g], in[g])
  BY <1>4, <1>7
<1>9. ASSUME f \in {"invoice.line_amounts", "invoice.vat_amount"} PROVE Backed(in, f)
  BY <1>0, <1>2, <1>3, <1>5, <1>6, <1>9
<1> QED BY <1>8, <1>9 DEF Grounded, Backed, LinesDoubtless, TaxesDoubtless
----------------------------------------------------------------------------
(* An assertion fails only on facts that are settled: known without a doubt,   *)
(* or known to be missing.                                                    *)

Settled(x) == Clean(x.quality) /\ x.state \in {"present", "missing"}
Proven(fields, steps) ==
    \A s \in steps : s.verdict = "FAIL" => \A f \in s.uses : Settled(fields[f])

LEMMA UsableIsSettled == \A x : Usable(x) => Settled(x)
  BY DEF Usable, Present, Settled, Clean

LEMMA StepIs ==
  \A verdict, code, uses :
    Step(verdict, code, uses).verdict = verdict /\ Step(verdict, code, uses).uses = uses
  BY DEF Step

LEMMA OneProven ==
  \A fields, verdict, code, uses :
    (verdict = "FAIL" => \A f \in uses : Settled(fields[f]))
      => Proven(fields, {Step(verdict, code, uses)})
  BY StepIs DEF Proven

LEMMA NoneProven == \A fields : Proven(fields, {})
  BY DEF Proven

LEMMA BothProven ==
  \A fields, a, b : Proven(fields, a) /\ Proven(fields, b) => Proven(fields, a \union b)
  BY DEF Proven

LEMMA ClaimProven ==
  \A fields, uses, holds, failure, code : Proven(fields, Claim(fields, uses, holds, failure, code))
<1> SUFFICES ASSUME NEW fields, NEW uses, NEW holds, NEW failure, NEW code
             PROVE  Proven(fields, Claim(fields, uses, holds, failure, code))
  OBVIOUS
<1>1. CASE \A f \in uses : Usable(fields[f])
  <2>1. \E v : Claim(fields, uses, holds, failure, code) = {Step(v, code, uses)}
    BY <1>1 DEF Claim
  <2> QED BY <1>1, <2>1, OneProven, UsableIsSettled
<1>2. CASE ~ \A f \in uses : Usable(fields[f])
  <2>1. Claim(fields, uses, holds, failure, code) = {Step("BLOCKED", "UNUSABLE_INPUT", uses)}
    BY <1>2 DEF Claim
  <2> QED BY <2>1, OneProven
<1> QED BY <1>1, <1>2

LEMMA VendorProven == \A p, fields : Proven(fields, Vendor(p, fields))
<1> SUFFICES ASSUME NEW p, NEW fields PROVE Proven(fields, Vendor(p, fields))
  OBVIOUS
<1> DEFINE V(f) == fields[f].value
           c1 == Claim(fields, {"supplier.id"}, TRUE, "FAIL", "SUPPLIER_UNRESOLVED")
           c2 == IF p["require_nif_in_master"]
                 THEN Claim(fields, {"invoice.supplier_tax_id", "supplier.tax_id"},
                            V("invoice.supplier_tax_id") = V("supplier.tax_id"),
                            "FAIL", "TAX_ID_MISMATCH") ELSE {}
           c3 == IF p["check_nif_control_digit"]
                 THEN Claim(fields, {"invoice.supplier_tax_id"},
                            V("invoice.supplier_tax_id") \in ControlOk,
                            "FAIL", "NIF_CONTROL_MISMATCH") ELSE {}
           c4 == IF p["require_iban_match"]
                 THEN Claim(fields, {"invoice.iban", "supplier.iban"},
                            V("invoice.iban") = V("supplier.iban"),
                            "FAIL", "IBAN_MISMATCH") ELSE {}
           c5 == IF p["require_active"]
                 THEN Claim(fields, {"supplier.active"}, V("supplier.active") = TRUE,
                            "FAIL", "SUPPLIER_INACTIVE") ELSE {}
<1>1. Vendor(p, fields) = c1 \union c2 \union c3 \union c4 \union c5
  BY Zenon DEF Vendor
<1>2. Proven(fields, c1)
  BY ClaimProven
<1>3. Proven(fields, c2)
  BY ClaimProven, NoneProven, Zenon
<1>4. Proven(fields, c3)
  BY ClaimProven, NoneProven, Zenon
<1>5. Proven(fields, c4)
  BY ClaimProven, NoneProven, Zenon
<1>6. Proven(fields, c5)
  BY ClaimProven, NoneProven, Zenon
<1> HIDE DEF c1, c2, c3, c4, c5
<1> QED BY <1>1, <1>2, <1>3, <1>4, <1>5, <1>6 DEF Proven

LEMMA ErpPendingProven == \A fields : Proven(fields, ErpPending(fields))
<1> SUFFICES ASSUME NEW fields PROVE Proven(fields, ErpPending(fields))
  OBVIOUS
<1> DEFINE uses == {"invoice.order_reference", "order.id", "order.supplier_id", "supplier.id",
                    "erp.order_payment_status"}
<1>1. \/ \E v : /\ \A f \in uses : Usable(fields[f])
               /\ ErpPending(fields) = {Step(v, "ERP_ALREADY_PAID", uses)}
      \/ ErpPending(fields) = {Step("BLOCKED", "ERP_PAYMENT_STATE_UNUSABLE", uses)}
  BY Zenon DEF ErpPending
<1> HIDE DEF uses
<1> QED BY <1>1, OneProven, UsableIsSettled

LEMMA HistoryProven ==
  ASSUME NEW fields, NEW h, NEW seen, seen.hard # {} => HardReady(fields)
  PROVE  Proven(fields, HistorySteps(h, seen))
<1> DEFINE c1 == IF seen.hard # {} THEN {Step("FAIL", "DUPLICATE " \o h, HardFields)} ELSE {}
           c2 == IF seen.soft # {} THEN {Step("NEEDS_REVIEW", "SOFT_DUPLICATE_MATCH", SoftFields)} ELSE {}
           c3 == IF seen.coverage # "complete"
                 THEN {Step("BLOCKED", "HISTORY_COVERAGE_INCOMPLETE", HardFields)}
                 ELSE IF seen.hard = {} /\ seen.soft = {}
                      THEN {Step("PASS", "NO_HISTORY_DUPLICATE", HardFields \union SoftFields)} ELSE {}
<1>1. HistorySteps(h, seen) = c1 \union c2 \union c3
  BY Zenon DEF HistorySteps
<1>2. Proven(fields, c1)
  <2>1. seen.hard # {} => \A f \in HardFields : Settled(fields[f])
    BY UsableIsSettled DEF HardReady, HardFields
  <2>2. PICK code : code = "DUPLICATE " \o h
    OBVIOUS
  <2>3. c1 = {} \/ (seen.hard # {} /\ c1 = {Step("FAIL", code, HardFields)})
    BY <2>2
  <2> HIDE DEF c1
  <2> QED BY <2>1, <2>3, OneProven, NoneProven
<1>3. Proven(fields, c2)
  BY OneProven, NoneProven
<1>4. Proven(fields, c3)
  BY OneProven, NoneProven
<1> HIDE DEF c1, c2, c3
<1> QED BY <1>1, <1>2, <1>3, <1>4 DEF Proven

LEMMA ObservedIs ==
  \A in, h, fields : HistoryObservation(in, h, fields).hard # {} => HardReady(fields)
<1> SUFFICES ASSUME NEW in, NEW h, NEW fields, HistoryObservation(in, h, fields).hard # {}
             PROVE  HardReady(fields)
  OBVIOUS
<1> DEFINE rows == RowsWhere(in[h], LAMBDA r : ~OwnSubmission(in, h, r))
           hard == {i \in rows : HardMatch(fields, in[h].rows[i])}
<1>1. \/ HistoryObservation(in, h, fields).hard = {}
      \/ HistoryObservation(in, h, fields).hard = hard
  BY DEF HistoryObservation
<1>2. PICK i \in rows : HardMatch(fields, in[h].rows[i])
  BY <1>1
<1> QED BY <1>2 DEF HardMatch

LEMMA DuplicatesProven ==
  ASSUME NEW in, NEW p
  PROVE  Proven(ExecFields(in), Duplicates(p, ExecFields(in), Observations(in), Captured(in)))
<1> DEFINE fields == ExecFields(in)
           seen   == Observations(in)
           hs     == {"processed"} \union Captured(in)
           erp    == IF p["require_erp_pending"] THEN ErpPending(fields) ELSE {}
           told   == UNION {HistorySteps(h, seen[h]) : h \in hs}
<1>1. Duplicates(p, fields, seen, Captured(in)) = erp \union told
  BY Zenon DEF Duplicates
<1>2. Proven(fields, erp)
  BY ErpPendingProven, NoneProven, Zenon
<1>3. hs \subseteq Histories
  BY DEF Captured, Histories
<1>4. \A h \in hs : seen[h] = HistoryObservation(in, h, fields)
  BY <1>3, ObservationsAre
<1> HIDE DEF fields, seen, hs
<1>5. \A h \in hs : Proven(fields, HistorySteps(h, seen[h]))
  BY <1>4, ObservedIs, HistoryProven
<1>6. Proven(fields, told)
  BY <1>5, Zenon DEF Proven
<1> HIDE DEF erp, told
<1>7. Proven(fields, erp \union told)
  BY <1>2, <1>6, BothProven
<1> QED BY <1>1, <1>7 DEF fields, seen
LEMMA MonetaryProven ==
  \A p, fields, uses, difference, code : Proven(fields, Monetary(p, fields, uses, difference, code))
<1> SUFFICES ASSUME NEW p, NEW fields, NEW uses, NEW difference, NEW code
             PROVE  Proven(fields, Monetary(p, fields, uses, difference, code))
  OBVIOUS
<1> DEFINE borrowed == /\ "order.total" \in uses
                       /\ p["order_currency_policy"] = "invoice"
                       /\ fields["order.currency"].state \in {"missing", "unavailable"}
           currencies == {CurrencyField(f) : f \in uses} \ (IF borrowed THEN {"order.currency"} ELSE {})
           all        == uses \union currencies
<1>1. \/ \E c : Monetary(p, fields, uses, difference, code) = {Step("BLOCKED", c, all)}
      \/ \E v : /\ ~ \E f \in all : ~Usable(fields[f])
                /\ Monetary(p, fields, uses, difference, code) = {Step(v, code, all)}
  BY Zenon DEF Monetary
<1> HIDE DEF all
<1> QED BY <1>1, OneProven, UsableIsSettled

LEMMA VatProven == \A p, fields, taxes : Proven(fields, Vat(p, fields, taxes))
<1> SUFFICES ASSUME NEW p, NEW fields, NEW taxes PROVE Proven(fields, Vat(p, fields, taxes))
  OBVIOUS
<1> DEFINE uses == {"invoice.taxable_base", "invoice.currency"}
<1>1. \/ \E c, u : Vat(p, fields, taxes) = {Step("BLOCKED", c, u)}
      \/ \E v, c : /\ ~ \E f \in uses : ~Usable(fields[f])
                   /\ Vat(p, fields, taxes) = {Step(v, c, uses)}
  BY Zenon DEF Vat
<1> HIDE DEF uses
<1> QED BY <1>1, OneProven, UsableIsSettled

LEMMA AmountProven == \A p, fields, taxes : Proven(fields, Amount(p, fields, taxes))
<1> SUFFICES ASSUME NEW p, NEW fields, NEW taxes PROVE Proven(fields, Amount(p, fields, taxes))
  OBVIOUS
<1> DEFINE V(f)     == fields[f].value
           lineGap  == SumOf(V("invoice.line_amounts")) - V("invoice.taxable_base")
           totalGap == V("invoice.taxable_base") + V("invoice.vat_amount") - V("invoice.total")
           orderGap == V("invoice.total") - V("order.total")
           owned == /\ \A f \in OrderIdentity : Usable(fields[f])
                    /\ fields["supplier.id"].value = fields["order.supplier_id"].value
           c1 == IF p["allowed_currencies"] # {}
                 THEN Claim(fields, {"invoice.currency"},
                             fields["invoice.currency"].value \in p["allowed_currencies"],
                             "FAIL", "CURRENCY_NOT_ALLOWED") ELSE {}
           c2 == IF p["check_iva"] THEN Vat(p, fields, taxes) ELSE {}
           c3 == IF p["check_line_items_sum"]
                 THEN Monetary(p, fields, {"invoice.line_amounts", "invoice.taxable_base"},
                               lineGap, "LINE_SUM_MISMATCH") ELSE {}
           c4 == IF p["check_total_is_base_plus_iva"]
                 THEN Monetary(p, fields, {"invoice.taxable_base", "invoice.vat_amount",
                                           "invoice.total"}, totalGap, "TOTAL_MISMATCH") ELSE {}
           c5 == IF ~p["check_matches_pedido"] THEN {}
                 ELSE IF ~owned THEN {Step("BLOCKED", "ORDER_IDENTITY_UNUSABLE", OrderIdentity)}
                 ELSE Monetary(p, fields, {"invoice.total", "order.total"},
                               orderGap, "ORDER_AMOUNT_MISMATCH")
<1>1. Amount(p, fields, taxes) = c1 \union c2 \union c3 \union c4 \union c5
  BY Zenon DEF Amount
<1>2. Proven(fields, c1)
  BY ClaimProven, NoneProven, Zenon
<1>3. Proven(fields, c2)
  BY VatProven, NoneProven, Zenon
<1>4. Proven(fields, c3)
  BY MonetaryProven, NoneProven, Zenon
<1>5. Proven(fields, c4)
  BY MonetaryProven, NoneProven, Zenon
<1>6. Proven(fields, c5)
  <2>1. Proven(fields, {Step("BLOCKED", "ORDER_IDENTITY_UNUSABLE", OrderIdentity)})
    BY OneProven
  <2> QED BY <2>1, MonetaryProven, NoneProven, Zenon
<1> HIDE DEF c1, c2, c3, c4, c5
<1> QED BY <1>1, <1>2, <1>3, <1>4, <1>5, <1>6 DEF Proven

LEMMA AuthorizationProven == \A p, fields : Proven(fields, Authorization(p, fields))
<1> SUFFICES ASSUME NEW p, NEW fields PROVE Proven(fields, Authorization(p, fields))
  OBVIOUS
<1>1. \/ \E c, u : Authorization(p, fields) = {Step("BLOCKED", c, u)}
      \/ \E u, holds, failure, c : Authorization(p, fields) = Claim(fields, u, holds, failure, c)
  BY Zenon DEF Authorization
<1> QED BY <1>1, OneProven, ClaimProven

LEMMA DatesProven == \A p, fields, today : Proven(fields, Dates(p, fields, today))
<1> SUFFICES ASSUME NEW p, NEW fields, NEW today PROVE Proven(fields, Dates(p, fields, today))
  OBVIOUS
<1> DEFINE issued == fields["invoice.issue_date"].value
           c1 == IF p["allow_future"] THEN {}
                 ELSE Claim(fields, {"invoice.issue_date"}, issued <= today,
                             "FAIL", "FUTURE_INVOICE_DATE")
           c2 == IF p["enforce_payment_terms"]
                 THEN Claim(fields, {"invoice.issue_date", "supplier.payment_terms_days"},
                             today - issued <= fields["supplier.payment_terms_days"].value,
                             "NEEDS_REVIEW", "PAYMENT_TERMS_EXCEEDED") ELSE {}
<1>1. Dates(p, fields, today) = c1 \union c2
  BY Zenon DEF Dates
<1>2. Proven(fields, c1)
  BY ClaimProven, NoneProven, Zenon
<1>3. Proven(fields, c2)
  BY ClaimProven, NoneProven, Zenon
<1> HIDE DEF c1, c2
<1> QED BY <1>1, <1>2, <1>3 DEF Proven

LEMMA RequiredProven == \A p, fields : Proven(fields, RequiredFields(p, fields))
<1> SUFFICES ASSUME NEW p, NEW fields, NEW s \in RequiredFields(p, fields), s.verdict = "FAIL",
                    NEW f \in s.uses
             PROVE  Settled(fields[f])
  BY DEF Proven
<1>1. PICK n : s = IF Usable(fields[FieldId(n)]) THEN Step("PASS", "REQUIREMENT_SATISFIED", {FieldId(n)})
                   ELSE IF CleanlyMissing(fields[FieldId(n)])
                   THEN Step("FAIL", "REQUIRED_FIELD_MISSING", {FieldId(n)})
                   ELSE Step("BLOCKED", "UNUSABLE_INPUT", {FieldId(n)})
  BY DEF RequiredFields
<1>2. s.uses = {FieldId(n)} /\ CleanlyMissing(fields[FieldId(n)])
  BY <1>1, StepIs
<1> QED BY <1>2 DEF CleanlyMissing, Settled, Clean

LEMMA CanonicalProven ==
  ASSUME NEW in, NEW rule, rule.kind # "structured",
         ~Unsupported(rule, ExecFields(in), ExecutionTaxes(in))
  PROVE  Proven(ExecFields(in),
                CanonicalCheck(rule, ExecFields(in), ExecutionTaxes(in), Observations(in),
                               Captured(in), in["today"]))
<1> DEFINE fields == ExecFields(in)
           taxes  == ExecutionTaxes(in)
           check  == CanonicalCheck(rule, fields, taxes, Observations(in), Captured(in), in["today"])
<1>1. rule.canonical \in Canonicals
  BY DEF Unsupported, Executable
<1>2. CASE rule.canonical = "VENDOR"
  <2>1. check = Vendor(Params(rule), fields)
    BY <1>2, Zenon DEF CanonicalCheck
  <2> QED BY <2>1, VendorProven
<1>3. CASE rule.canonical = "DUPLICATES"
  <2>1. check = Duplicates(Params(rule), fields, Observations(in), Captured(in))
    BY <1>3, Zenon DEF CanonicalCheck
  <2> QED BY <2>1, DuplicatesProven
<1>4. CASE rule.canonical = "AMOUNT"
  <2>1. check = Amount(Params(rule), fields, taxes)
    BY <1>4, Zenon DEF CanonicalCheck
  <2> QED BY <2>1, AmountProven
<1>5. CASE rule.canonical = "AUTHORIZATION"
  <2>1. check = Authorization(Params(rule), fields)
    BY <1>5, Zenon DEF CanonicalCheck
  <2> QED BY <2>1, AuthorizationProven
<1>6. CASE rule.canonical = "DATES"
  <2>1. check = Dates(Params(rule), fields, in["today"])
    BY <1>6, Zenon DEF CanonicalCheck
  <2> QED BY <2>1, DatesProven
<1>7. CASE rule.canonical = "MISSING"
  <2>1. check = RequiredFields(Params(rule), fields)
    BY <1>7, Zenon DEF CanonicalCheck
  <2> QED BY <2>1, RequiredProven
<1> QED BY <1>1, <1>2, <1>3, <1>4, <1>5, <1>6, <1>7 DEF Canonicals
\* A clause that comes to a truth value has read settled facts only.
LEMMA ClauseSettled ==
  ASSUME NEW clause, NEW fields, ClauseTruth(clause, fields) # "UNKNOWN"
  PROVE  \A f \in ClauseFields(clause) : Settled(fields[f])
<1>1. CASE clause.op \in Presence
  <2>1. ClauseFields(clause) = {FieldId(clause.field)}
    BY <1>1 DEF ClauseFields
  <2>2. /\ fields[FieldId(clause.field)].quality \notin {"uncertain", "unlinked"}
        /\ fields[FieldId(clause.field)].state \in {"present", "missing"}
    BY <1>1 DEF ClauseTruth
  <2> QED BY <2>1, <2>2 DEF Settled, Clean
<1>2. CASE clause.op \notin Presence
  <2>1. \A f \in ClauseFields(clause) : Usable(fields[f])
    BY <1>2, Zenon DEF ClauseTruth
  <2> QED BY <2>1, UsableIsSettled
<1> QED BY <1>1, <1>2

\* A group that is false has read settled facts only: those of its false clauses
\* for a conjunction, those of all its clauses, all false, for a disjunction.
LEMMA FalseGroupSettled ==
  ASSUME NEW group, NEW fields, EvaluateGroup(group, fields).truth = "FALSE"
  PROVE  \A f \in EvaluateGroup(group, fields).required : Settled(fields[f])
<1> DEFINE truths == [i \in DOMAIN group.clauses |-> ClauseTruth(group.clauses[i], fields)]
           chosen == Selected(group.logic, truths)
<1>1. /\ GroupTruth(group.logic, truths) = "FALSE"
      /\ EvaluateGroup(group, fields).required = UNION {ClauseFields(group.clauses[i]) : i \in chosen}
  BY DEF EvaluateGroup
<1>2. \A i \in DOMAIN truths : truths[i] = ClauseTruth(group.clauses[i], fields)
  OBVIOUS
<1> HIDE DEF truths
<1>3. \A i \in chosen : i \in DOMAIN truths /\ truths[i] # "UNKNOWN"
  <2>1. CASE group.logic = "AND"
    <3>1. "FALSE" \in {truths[i] : i \in DOMAIN truths}
      BY <1>1, <2>1 DEF GroupTruth
    <3>2. chosen = {i \in DOMAIN truths : truths[i] = "FALSE"}
      BY <2>1, <3>1 DEF Selected
    <3> QED BY <3>2
  <2>2. CASE group.logic # "AND"
    <3>1. "UNKNOWN" \notin {truths[i] : i \in DOMAIN truths}
      BY <1>1, <2>2 DEF GroupTruth
    <3>2. chosen \subseteq DOMAIN truths
      BY <2>2 DEF Selected
    <3> QED BY <3>1, <3>2
  <2> QED BY <2>1, <2>2
<1>4. \A i \in chosen : \A f \in ClauseFields(group.clauses[i]) : Settled(fields[f])
  BY <1>2, <1>3, ClauseSettled
<1> HIDE DEF chosen
<1> QED BY <1>1, <1>4

\* The steps of a condition prove what they fail.
LEMMA StructuredProven ==
  ASSUME NEW rule, NEW fields, NEW taxes, rule.kind = "structured",
         ~Unsupported(rule, fields, taxes)
  PROVE  Proven(fields, {Step(Verdict(rule, EvaluateGroup(rule.group, fields)), "CONDITION",
                              EvaluateGroup(rule.group, fields).required)})
<1> DEFINE main == EvaluateGroup(rule.group, fields)
<1>1. main.truth \in {"TRUE", "FALSE", "UNKNOWN"}
  BY TruthKnown
<1>2. CASE main.truth = "FALSE"
  BY <1>2, FalseGroupSettled, OneProven
<1>3. CASE main.truth = "TRUE"
  <2>1. Verdict(rule, main) = "PASS"
    BY <1>3, Zenon DEF Verdict
  <2> QED BY <2>1, OneProven
<1>4. CASE main.truth = "UNKNOWN"
  <2>0. main.truth # "TRUE" /\ main.truth # "FALSE"
    BY <1>4
  <2>1. Verdict(rule, main) = "BLOCKED"
    BY <2>0, Zenon DEF Verdict
  <2> QED BY <2>1, OneProven
<1> QED BY <1>1, <1>2, <1>3, <1>4

LEMMA DeclaredProven == \A rule, fields : Proven(fields, Declared(rule, fields))
  BY DeclaredBlocks DEF Proven

\* A rule that is violated has failed on settled facts.
LEMMA FinishProven ==
  ASSUME NEW rule, NEW fields, NEW steps, Proven(fields, steps),
         Finish(rule, steps).status = "VIOLATED"
  PROVE  \E s \in Finish(rule, steps).steps :
            s.verdict = "FAIL" /\ \A f \in s.uses : Settled(fields[f])
<1>1. PICK status \in {"VIOLATED", "BLOCKED", "NEEDS_REVIEW", "PASS"} :
         /\ status = "VIOLATED" <=> \E s \in steps : s.verdict = "FAIL"
         /\ \/ steps # {} /\ Finish(rule, steps) = Result(rule, status, steps)
            \/ /\ steps = {} /\ status = "BLOCKED"
               /\ Finish(rule, steps) =
                    Result(rule, status, {Step("BLOCKED", "NO_EXECUTABLE_ASSERTIONS", {})})
  BY FinishIs
<1>2. status = "VIOLATED" /\ Finish(rule, steps).steps = steps
  BY <1>1, ResultFields
<1> QED BY <1>1, <1>2 DEF Proven

LEMMA ViolationProven ==
  ASSUME NEW in, NEW rule, NEW crash, Outcome(in, rule, crash).status = "VIOLATED"
  PROVE  \E s \in Outcome(in, rule, crash).steps :
            s.verdict = "FAIL" /\ \A f \in s.uses : Settled(ExecFields(in)[f])
<1> DEFINE fields == ExecFields(in)
           taxes  == ExecutionTaxes(in)
           declared == Declared(rule, fields)
<1>1. Outcome(in, rule, crash) \notin {Raised(rule), Refused(rule)}
  BY ResultFields DEF Raised, Refused
<1>2. CASE /\ ~Unsupported(rule, fields, taxes) /\ rule.kind = "structured"
           /\ Outcome(in, rule, crash) = ExecuteStructured(rule, fields)
  <2> DEFINE app  == EvaluateGroup(rule.applies, fields)
             main == EvaluateGroup(rule.group, fields)
             asserted == {Step(Verdict(rule, main), "CONDITION", main.required)}
             short == IF declared # {} THEN "BLOCKED" ELSE "NOT_APPLICABLE"
             doubt == declared \union {Step("BLOCKED", "APPLICABILITY_UNKNOWN", app.required)}
  <2>1. \/ ExecuteStructured(rule, fields) = Result(rule, short, declared)
        \/ ExecuteStructured(rule, fields) = Result(rule, "BLOCKED", doubt)
        \/ ExecuteStructured(rule, fields) = Finish(rule, declared \union asserted)
    BY StructuredIs
  <2>2. short # "VIOLATED"
    OBVIOUS
  <2> HIDE DEF short, doubt
  <2>3. Outcome(in, rule, crash) = Finish(rule, declared \union asserted)
    BY <1>2, <2>1, <2>2, ResultFields
  <2>4. Proven(fields, declared \union asserted)
    BY <1>2, StructuredProven, DeclaredProven, BothProven
  <2> HIDE DEF asserted
  <2> QED BY <2>3, <2>4, FinishProven
<1>3. CASE /\ ~Unsupported(rule, fields, taxes) /\ rule.kind # "structured"
           /\ Outcome(in, rule, crash) =
                Finish(rule, declared \union CanonicalCheck(rule, fields, taxes, Observations(in),
                                                            Captured(in), in["today"]))
  <2> DEFINE asserted == CanonicalCheck(rule, fields, taxes, Observations(in), Captured(in), in["today"])
  <2>1. Proven(fields, declared \union asserted)
    BY <1>3, CanonicalProven, DeclaredProven, BothProven
  <2> HIDE DEF asserted
  <2> QED BY <1>3, <2>1, FinishProven DEF asserted
<1> QED BY <1>1, <1>2, <1>3, OutcomeCases

LEMMA RejectionFollows == EvaluationInv => RejectionIsProved
<1> SUFFICES ASSUME EvaluationInv, decision = "NO_PAGAR"
             PROVE  \E i \in DOMAIN results :
                       /\ EnabledRules(input)[i].onFail = "NO_PAGAR"
                       /\ \E s \in results[i].steps :
                             s.verdict = "FAIL" /\ \A f \in s.uses : Grounded(input, f)
  BY DEF RejectionIsProved
<1>1. stage = "decided"
  BY EvaluationAssumption DEF EvaluationInv, Decisions
<1>2. PICK crash \in Crashes : results = Executed(input, crash)
  BY <1>1 DEF EvaluationInv
<1>3. PICK i \in DOMAIN results : /\ EnabledRules(input)[i].onFail = "NO_PAGAR"
                                  /\ results[i].status = "VIOLATED"
  BY <1>1, DecidedIs
<1>4. results[i] = Outcome(input, EnabledRules(input)[i], crash)
  BY <1>2, ExecutedIs
<1>5. PICK s \in results[i].steps :
         s.verdict = "FAIL" /\ \A f \in s.uses : Settled(ExecFields(input)[f])
  BY <1>3, <1>4, ViolationProven
<1>6. \A f \in s.uses : Grounded(input, f)
  BY <1>5, KnownIsGrounded DEF Settled
<1> QED BY <1>3, <1>5, <1>6

(* A rejection rests on an assertion that failed on facts whose own printed     *)
(* values are all read without doubt, for every invoice, every snapshot and     *)
(* every rule book: an unreadable or unlinked value may only escalate           *)
(* (_input_guards, RuleFrame.check, conditions.evaluate_group).                 *)
THEOREM RejectionsAreProved == SpecReviewed => []RejectionIsProved
  BY ReviewFrame, DecisionFollowsInput, RejectionFollows, PTL

----------------------------------------------------------------------------
(* Two inputs of which the second is known less well. What is printed is read *)
(* alike: the same values, and the same links of the values that are there.    *)

PrintParts == {"file_id", "document_type", "lines", "taxes", "issues", "annotations",
               "reading", "evidence", "rules", "today"}
PrintedAlike(o, n) ==
    /\ \A k \in PrintParts : n[k] = o[k]
    /\ \A f \in InvoiceScalars : n[f].raw = o[f].raw /\ (o[f].raw = NULL \/ n[f].link = o[f].link)

\* The same operators, of the parts that they read.
IssueStateOf(issues, pointer) ==
    LET hits == {i \in DOMAIN issues : Overlap(issues[i].field, pointer)}
        first == CHOOSE i \in hits : \A j \in hits : i <= j
    IN  IF hits = {} THEN NULL
        ELSE IF issues[first].kind = "unreadable" THEN "missing" ELSE "ambiguous"
GoodLinkOf(reading, evidence, link) == reading /\ evidence /\ link \in {"good", "uncertain"}
RelatedOf(issues, pointer) ==
    \E i \in DOMAIN issues : issues[i].field # <<>> /\ Overlap(issues[i].field, pointer)
QualityOf(issues, reading, evidence, pointer, link) ==
    IF RelatedOf(issues, pointer)               THEN "uncertain"
    ELSE IF link = "none" \/ ~evidence          THEN "unlinked"
    ELSE IF link = "uncertain" /\ reading       THEN "uncertain"
    ELSE "no_reported_issue"

LEMMA ReadingOf ==
  \A in, pointer, link :
    /\ IssueState(in, pointer) = IssueStateOf(in["issues"], pointer)
    /\ GoodLink(in, link) = GoodLinkOf(in["reading"], in["evidence"], link)
    /\ LinkedQuality(in, pointer, link) =
         QualityOf(in["issues"], in["reading"], in["evidence"], pointer, link)
<1>1. \A in, pointer : IssueState(in, pointer) = IssueStateOf(in["issues"], pointer)
  BY DEF IssueState, IssueStateOf
<1>2. \A in, link : GoodLink(in, link) = GoodLinkOf(in["reading"], in["evidence"], link)
  BY DEF GoodLink, GoodLinkOf
<1>3. \A in, pointer, link :
        LinkedQuality(in, pointer, link) =
          QualityOf(in["issues"], in["reading"], in["evidence"], pointer, link)
  BY DEF LinkedQuality, IssueRelated, QualityOf, RelatedOf
<1> QED BY <1>1, <1>2, <1>3

\* A printed value, of what the reading says of it.
ScalarOf(issue, quality, good, raw, isText) ==
    LET weak == raw # NULL /\ ~good
        fact == IF issue # NULL        THEN Fact(NULL, issue, "uncertain", {})
                ELSE IF raw = NULL
                     THEN Fact(NULL, "missing", "no_reported_issue", {})
                ELSE IF raw = BAD THEN Fact(NULL, "invalid", quality, {})
                ELSE Fact(IF isText THEN Normal(raw) ELSE raw, "present", quality, {})
    IN  [fact EXCEPT !.weak = weak]

LEMMA ScalarOfIs ==
  \A in, pointer, scalar, isText :
    InvoiceScalar(in, pointer, scalar, isText) =
      ScalarOf(IssueState(in, pointer), LinkedQuality(in, pointer, scalar.link),
               GoodLink(in, scalar.link), scalar.raw, isText)
  BY DEF InvoiceScalar, ScalarOf

LEMMA ScalarUnread ==
  \A issue, q1, g1, q2, g2, isText :
    ScalarOf(issue, q1, g1, NULL, isText) = ScalarOf(issue, q2, g2, NULL, isText)
  BY Zenon DEF ScalarOf

LEMMA ScalarAlike ==
  ASSUME NEW o, NEW n, PrintedAlike(o, n)
  PROVE  \A pointer, s, t, isText :
           t.raw = s.raw /\ (s.raw = NULL \/ t.link = s.link)
             => InvoiceScalar(n, pointer, t, isText) = InvoiceScalar(o, pointer, s, isText)
<1>1. n["issues"] = o["issues"] /\ n["reading"] = o["reading"] /\ n["evidence"] = o["evidence"]
  BY DEF PrintedAlike, PrintParts
<1>2. \A pointer, link : /\ IssueState(n, pointer) = IssueState(o, pointer)
                         /\ LinkedQuality(n, pointer, link) = LinkedQuality(o, pointer, link)
                         /\ GoodLink(n, link) = GoodLink(o, link)
  BY <1>1, ReadingOf
<1> SUFFICES ASSUME NEW pointer, NEW s, NEW t, NEW isText,
                    t.raw = s.raw, s.raw = NULL \/ t.link = s.link
             PROVE  InvoiceScalar(n, pointer, t, isText) = InvoiceScalar(o, pointer, s, isText)
  OBVIOUS
<1>3. CASE s.raw = NULL
  BY <1>2, <1>3, ScalarOfIs, ScalarUnread
<1>4. CASE t.link = s.link
  BY <1>2, <1>4, ScalarOfIs
<1> QED BY <1>3, <1>4

LEMMA LinesAlike ==
  ASSUME NEW o, NEW n, PrintedAlike(o, n)
  PROVE  LineFacts(n) = LineFacts(o)
<1>1. n["lines"] = o["lines"]
  BY DEF PrintedAlike, PrintParts
<1> DEFINE Of(in, i) == InvoiceScalar(in, <<"lines", i, "amount">>, in["lines"][i], FALSE)
<1>0. \A pointer, s, t : t = s => InvoiceScalar(n, pointer, t, FALSE) = InvoiceScalar(o, pointer, s, FALSE)
  <2>1. \A pointer, s, t, isText :
          t.raw = s.raw /\ (s.raw = NULL \/ t.link = s.link)
            => InvoiceScalar(n, pointer, t, isText) = InvoiceScalar(o, pointer, s, isText)
    BY ScalarAlike
  <2>2. PICK plain : plain = FALSE
    OBVIOUS
  <2> QED BY <2>1, <2>2
<1>2. ASSUME NEW i PROVE Of(n, i) = Of(o, i)
  <2>1. n["lines"][i] = o["lines"][i]
    BY <1>1
  <2> QED BY <1>0, <2>1, Zenon
<1>3. \A in : LineFacts(in) = [i \in DOMAIN in["lines"] |-> Of(in, i)]
  BY DEF LineFacts
<1> HIDE DEF Of
<1>4. LineFacts(n) = [i \in DOMAIN o["lines"] |-> Of(n, i)]
  BY <1>1, <1>3
<1> QED BY <1>2, <1>3, <1>4, Zenon

KindOf(issue, quality, good, raw) ==
    LET fact == IF issue # NULL THEN Fact(NULL, issue, "uncertain", {})
                ELSE Fact(raw, "present", quality, {})
    IN  [fact EXCEPT !.weak = ~good]

LEMMA TaxesAlike ==
  ASSUME NEW o, NEW n, PrintedAlike(o, n)
  PROVE  TaxFacts(n) = TaxFacts(o)
<1>1. /\ n["taxes"] = o["taxes"] /\ n["issues"] = o["issues"]
      /\ n["reading"] = o["reading"] /\ n["evidence"] = o["evidence"]
  BY DEF PrintedAlike, PrintParts
<1>2. \A in, pointer, label :
        TaxKind(in, pointer, label) =
          KindOf(IssueState(in, pointer), LinkedQuality(in, pointer, label.link),
                 GoodLink(in, label.link), label.raw)
  BY DEF TaxKind, KindOf
<1>3. \A pointer, s, t : t = s => TaxKind(n, pointer, t) = TaxKind(o, pointer, s)
  BY <1>1, <1>2, ReadingOf
<1>4. \A pointer, s, t : t = s => InvoiceScalar(n, pointer, t, FALSE) = InvoiceScalar(o, pointer, s, FALSE)
  <2>1. \A pointer, s, t, isText :
          t.raw = s.raw /\ (s.raw = NULL \/ t.link = s.link)
            => InvoiceScalar(n, pointer, t, isText) = InvoiceScalar(o, pointer, s, isText)
    BY ScalarAlike
  <2>2. PICK plain : plain = FALSE
    OBVIOUS
  <2> QED BY <2>1, <2>2
<1> DEFINE Of(in, i) ==
      [kind   |-> TaxKind(in, <<"taxes", i, "label">>, in["taxes"][i].label),
       amount |-> InvoiceScalar(in, <<"taxes", i, "amount">>, in["taxes"][i].amount, FALSE),
       rate   |-> InvoiceScalar(in, <<"taxes", i, "rate_percent">>, in["taxes"][i].rate, FALSE)]
<1>5. ASSUME NEW i PROVE Of(n, i) = Of(o, i)
  <2>1. /\ n["taxes"][i].label = o["taxes"][i].label
        /\ n["taxes"][i].amount = o["taxes"][i].amount
        /\ n["taxes"][i].rate = o["taxes"][i].rate
    BY <1>1
  <2>2. /\ TaxKind(n, <<"taxes", i, "label">>, n["taxes"][i].label)
             = TaxKind(o, <<"taxes", i, "label">>, o["taxes"][i].label)
        /\ InvoiceScalar(n, <<"taxes", i, "amount">>, n["taxes"][i].amount, FALSE)
             = InvoiceScalar(o, <<"taxes", i, "amount">>, o["taxes"][i].amount, FALSE)
        /\ InvoiceScalar(n, <<"taxes", i, "rate_percent">>, n["taxes"][i].rate, FALSE)
             = InvoiceScalar(o, <<"taxes", i, "rate_percent">>, o["taxes"][i].rate, FALSE)
    BY <1>3, <1>4, <2>1, Zenon
  <2> QED BY <2>2, Zenon
<1>6. \A in : TaxFacts(in) = [i \in DOMAIN in["taxes"] |-> Of(in, i)]
  BY DEF TaxFacts
<1> HIDE DEF Of
<1>7. TaxFacts(n) = [i \in DOMAIN o["taxes"] |-> Of(n, i)]
  BY <1>1, <1>6
<1> QED BY <1>5, <1>6, <1>7, Zenon

ExecutionTaxesOf(taxes, facts) ==
    LET Guard(fact) == IF fact.weak THEN [fact EXCEPT !.quality = "uncertain"] ELSE fact
    IN  [i \in DOMAIN taxes |-> [k \in {"kind", "amount", "rate"} |-> Guard(facts[i][k])]]

LEMMA ExecutionTaxesAlike ==
  ASSUME NEW o, NEW n, PrintedAlike(o, n)
  PROVE  ExecutionTaxes(n) = ExecutionTaxes(o)
<1>1. \A in : ExecutionTaxes(in) = ExecutionTaxesOf(in["taxes"], TaxFacts(in))
  BY DEF ExecutionTaxes, ExecutionTaxesOf
<1>2. n["taxes"] = o["taxes"]
  BY DEF PrintedAlike, PrintParts
<1> QED BY <1>1, <1>2, TaxesAlike

LEMMA PrintedFactsAlike ==
  ASSUME NEW o, NEW n, PrintedAlike(o, n)
  PROVE  PrintedFacts(n) = PrintedFacts(o)
<1>1. /\ n["document_type"] = o["document_type"] /\ n["issues"] = o["issues"]
      /\ n["reading"] = o["reading"] /\ n["evidence"] = o["evidence"]
  BY DEF PrintedAlike, PrintParts
<1>2. ASSUME NEW f \in InvoiceScalars
      PROVE  InvoiceScalar(n, PointerOf[f], n[f], f \in TextFields)
               = InvoiceScalar(o, PointerOf[f], o[f], f \in TextFields)
  <2>1. n[f].raw = o[f].raw /\ (o[f].raw = NULL \/ n[f].link = o[f].link)
    BY DEF PrintedAlike
  <2>2. PICK pointer, isText : pointer = PointerOf[f] /\ isText = (f \in TextFields)
    OBVIOUS
  <2> QED BY <2>1, <2>2, ScalarAlike
<1>3. DocumentType(n) = DocumentType(o)
  <2> DEFINE Of(quality, good, raw) == [Fact(raw, "present", quality, {}) EXCEPT !.weak = ~good]
  <2>1. \A in : DocumentType(in) =
                  Of(LinkedQuality(in, <<"document_type">>, in["document_type"].link),
                     GoodLink(in, in["document_type"].link), in["document_type"].raw)
    BY DEF DocumentType
  <2> HIDE DEF Of
  <2> QED BY <1>1, <2>1, ReadingOf
<1>4. /\ {LineAmounts(lines) : lines \in {LineFacts(n)}} = {LineAmounts(lines) : lines \in {LineFacts(o)}}
      /\ {VatAmount(taxes) : taxes \in {TaxFacts(n)}} = {VatAmount(taxes) : taxes \in {TaxFacts(o)}}
  BY LinesAlike, TaxesAlike
<1> DEFINE Printed(in, f) ==
      IF f \in InvoiceScalars THEN InvoiceScalar(in, PointerOf[f], in[f], f \in TextFields)
      ELSE IF f = "invoice.document_type" THEN DocumentType(in)
      ELSE IF f = "invoice.line_amounts"  THEN The({LineAmounts(lines) : lines \in {LineFacts(in)}})
      ELSE The({VatAmount(taxes) : taxes \in {TaxFacts(in)}})
<1>5. \A in : PrintedFacts(in) =
        [f \in InvoiceScalars \union
               {"invoice.document_type", "invoice.line_amounts", "invoice.vat_amount"} |-> Printed(in, f)]
  BY DEF PrintedFacts
<1>6. \A f : Printed(n, f) = Printed(o, f)
  BY <1>2, <1>3, <1>4, Zenon
<1> HIDE DEF Printed
<1> QED BY <1>5, <1>6, Zenon

LEMMA AcquisitionAlike ==
  ASSUME NEW o, NEW n, PrintedAlike(o, n)
  PROVE  AcquisitionFindings(n) = AcquisitionFindings(o)
<1>1. \A k \in PrintParts : n[k] = o[k]
  BY DEF PrintedAlike
<1>2. /\ n["issues"] = o["issues"] /\ n["document_type"] = o["document_type"]
      /\ n["lines"] = o["lines"] /\ n["taxes"] = o["taxes"]
      /\ n["reading"] = o["reading"] /\ n["evidence"] = o["evidence"]
      /\ n["annotations"] = o["annotations"]
  BY <1>1 DEF PrintParts
<1>3. \A f \in InvoiceScalars : n[f].raw = o[f].raw /\ LinkOf(n[f]) = LinkOf(o[f])
  BY DEF PrintedAlike, LinkOf
<1>4. PrintedLinks(n) = PrintedLinks(o)
  <2>1. UNION {LinkOf(n[f]) : f \in InvoiceScalars \union {"document_type"}}
          = UNION {LinkOf(o[f]) : f \in InvoiceScalars \union {"document_type"}}
    BY <1>2, <1>3
  <2> DEFINE All(first, lines, taxes) ==
               first \union (UNION {LinkOf(lines[i]) : i \in DOMAIN lines}) \union
               (UNION {LinkOf(taxes[i][k]) : i \in DOMAIN taxes, k \in {"label", "amount", "rate"}})
  <2>2. \A in : PrintedLinks(in) =
                  All(UNION {LinkOf(in[f]) : f \in InvoiceScalars \union {"document_type"}},
                      in["lines"], in["taxes"])
    BY DEF PrintedLinks
  <2> HIDE DEF All
  <2> QED BY <1>2, <2>1, <2>2
<1>5. FailedChecks(n) = FailedChecks(o)
  <2> DEFINE Of(links, issues, kind, number, currency, total, lines) ==
        (IF "broken" \in links THEN {"evidence_references"} ELSE {})
        \union (IF links \intersect {"none", "broken"} # {} THEN {"factual_leaves_linked"} ELSE {})
        \union (IF "background" \in links THEN {"foreground_evidence_only"} ELSE {})
        \union (IF "uncertain" \in links THEN {"source_uncertainty_clear", "coverage_accounted"} ELSE {})
        \union (IF issues # <<>> THEN {"invoice_issues_clear"} ELSE {})
        \union (IF kind \notin {"invoice", "credit_note"}
                   \/ number = NULL THEN {"invoice_identity_present"} ELSE {})
        \union (IF currency = BAD THEN {"currency_code_shape"} ELSE {})
        \union (IF total = NULL THEN {"invoice_total_present"} ELSE {})
        \union (IF lines = <<>> \/ \E i \in DOMAIN lines : lines[i].raw = NULL
                THEN {"invoice_lines_present"} ELSE {})
  <2>1. \A in : FailedChecks(in) =
                  Of(PrintedLinks(in), in["issues"], in["document_type"].raw, in["invoice.number"].raw,
                     in["invoice.currency"].raw, in["invoice.total"].raw, in["lines"])
    BY DEF FailedChecks
  <2>2. /\ n["invoice.number"].raw = o["invoice.number"].raw
        /\ n["invoice.currency"].raw = o["invoice.currency"].raw
        /\ n["invoice.total"].raw = o["invoice.total"].raw
    BY <1>3 DEF InvoiceScalars, TextFields
  <2> HIDE DEF Of
  <2> QED BY <1>2, <1>4, <2>1, <2>2
<1> DEFINE Of(reading, evidence, checks, annotations, kind) ==
      (IF reading THEN {} ELSE {"READING_UNAVAILABLE"})
      \union (IF evidence THEN {} ELSE {"EVIDENCE_UNAVAILABLE"})
      \union (IF reading /\ evidence THEN checks ELSE {"EXTRACTION_CHECKS_UNAVAILABLE"})
      \union (IF annotations THEN {"UNREVIEWED_ANNOTATION"} ELSE {})
      \union (IF kind # "invoice" THEN {"DOCUMENT_TYPE_UNSUPPORTED"} ELSE {})
<1>6. \A in : AcquisitionFindings(in) =
                Of(in["reading"], in["evidence"], FailedChecks(in), in["annotations"],
                   in["document_type"].raw)
  BY DEF AcquisitionFindings
<1> HIDE DEF Of
<1> QED BY <1>2, <1>5, <1>6

----------------------------------------------------------------------------
(* A snapshot that is known less well, and about which nothing has been found: *)
(* its rows are there as before, it may only have lost the authority for some  *)
(* of what they say.                                                          *)

ScopeOf(s) ==
    IF s = "suppliers" THEN "supplier.identity" ELSE IF s = "orders" THEN "order.identity"
    ELSE IF s = "erp" THEN "order.payment_status" ELSE "history." \o s
Kept(s, was, now) ==
    \/ now = was
    \/ /\ was.avail = "available" /\ now.avail = "available"
       /\ now.rows = was.rows /\ now.auth \subseteq was.auth
       /\ s \in {"suppliers", "orders"} => ScopeOf(s) \in now.auth
       /\ s \notin {"suppliers", "orders"} /\ ScopeOf(s) \in now.auth
            => Complete(was) /\ Complete(now)
       /\ s \in Histories => now.kind = was.kind /\ now.include = was.include

\* A fact that is the same, or that has become unavailable.
SameOrLost(y, x) == y = x \/ y.state = "unavailable"

MasterFieldOf(auth, scope, raw, value, parent) ==
    Derived(IF scope \in auth /\ raw \notin {NULL, BAD} THEN value ELSE NULL,
            IF scope \notin auth THEN "unavailable"
            ELSE IF raw = NULL THEN "missing" ELSE IF raw = BAD THEN "invalid" ELSE "present",
            {parent})

LEMMA ColumnKept ==
  \A was, now, scope, raw, value, parent :
    now \subseteq was =>
      SameOrLost(MasterFieldOf(now, scope, raw, value, parent), MasterFieldOf(was, scope, raw, value, parent))
<1> SUFFICES ASSUME NEW was, NEW now, NEW scope, NEW raw, NEW value, NEW parent, now \subseteq was
             PROVE  SameOrLost(MasterFieldOf(now, scope, raw, value, parent),
                          MasterFieldOf(was, scope, raw, value, parent))
  OBVIOUS
<1>1. CASE scope \in now
  BY <1>1 DEF SameOrLost, MasterFieldOf
<1>2. CASE scope \notin now
  <2>1. MasterFieldOf(now, scope, raw, value, parent) = Derived(NULL, "unavailable", {parent})
    BY <1>2 DEF MasterFieldOf
  <2> QED BY <2>1, DerivedIs DEF SameOrLost
<1> QED BY <1>1, <1>2

\* What a master says of one invoice, of what its rows come to.
RowState(block, key, found, none) ==
    IF block # "NONE" THEN BlockState(block)
    ELSE IF ~Present(key) THEN key.state
    ELSE IF found THEN "present"
    ELSE IF none THEN "missing" ELSE "ambiguous"
SupplierOf(state, auth, row, f) ==
    LET Column(scope, raw, value) == MasterFieldOf(auth, scope, raw, value, "supplier.id")
    IN  IF f = "supplier.id"
        THEN Derived(IF state = "present" THEN row.id ELSE NULL, state, {"invoice.supplier_tax_id"})
        ELSE IF state # "present" THEN Derived(NULL, "unavailable", {"supplier.id"})
        ELSE CASE f = "supplier.tax_id" -> Column("supplier.identity", row.nif, Normal(row.nif))
               [] f = "supplier.iban"   -> Column("supplier.bank_details", row.iban, Normal(row.iban))
               [] f = "supplier.city"   -> Column("supplier.identity", row.city, Normal(row.city))
               [] f = "supplier.active" -> Column("supplier.active", row.active, row.active)
               [] OTHER                 -> Column("supplier.payment_terms", row.terms, row.terms)
OrderOf(state, auth, row, ref, f) ==
    LET Column(scope, raw, value) == MasterFieldOf(auth, scope, raw, value, "order.id")
    IN  IF f = "order.id"
        THEN Derived(IF state = "present" THEN ref ELSE NULL, state, {"invoice.order_reference"})
        ELSE IF state # "present" THEN Derived(NULL, "unavailable", {"order.id"})
        ELSE CASE f = "order.supplier_id" -> Column("order.identity", row.owner, Normal(row.owner))
               [] f = "order.total"       -> Column("order.amount", row.total, row.total)
               [] OTHER                   -> Column("order.currency", row.currency, row.currency)

LEMMA SupplierOfKept ==
  ASSUME NEW state, NEW was, NEW now, now \subseteq was, NEW row, NEW f
  PROVE  /\ SameOrLost(SupplierOf(state, now, row, f), SupplierOf(state, was, row, f))
         /\ SupplierOf(state, now, row, "supplier.id") = SupplierOf(state, was, row, "supplier.id")
<1> DEFINE Column(auth, scope, raw, value) == MasterFieldOf(auth, scope, raw, value, "supplier.id")
<1>1. \A scope, raw, value : SameOrLost(Column(now, scope, raw, value), Column(was, scope, raw, value))
  BY ColumnKept
<1>2. SupplierOf(state, now, row, "supplier.id") = SupplierOf(state, was, row, "supplier.id")
  BY Zenon DEF SupplierOf
<1>3. CASE f = "supplier.id"
  BY <1>2, <1>3 DEF SameOrLost
<1>4. CASE f # "supplier.id" /\ state # "present"
  <2>1. \A auth : SupplierOf(state, auth, row, f) = Derived(NULL, "unavailable", {"supplier.id"})
    BY <1>4, Zenon DEF SupplierOf
  <2> QED BY <1>2, <2>1 DEF SameOrLost
<1>5. CASE f # "supplier.id" /\ state = "present"
  <2>1. CASE f = "supplier.tax_id"
    <3>1. \A auth : SupplierOf(state, auth, row, f) = Column(auth, "supplier.identity", row.nif, Normal(row.nif))
      BY <1>5, <2>1, Zenon DEF SupplierOf
    <3> QED BY <1>1, <1>2, <3>1
  <2>2. CASE f = "supplier.iban"
    <3>1. \A auth : SupplierOf(state, auth, row, f) = Column(auth, "supplier.bank_details", row.iban, Normal(row.iban))
      BY <1>5, <2>2, Zenon DEF SupplierOf
    <3> QED BY <1>1, <1>2, <3>1
  <2>3. CASE f = "supplier.city"
    <3>1. \A auth : SupplierOf(state, auth, row, f) = Column(auth, "supplier.identity", row.city, Normal(row.city))
      BY <1>5, <2>3, Zenon DEF SupplierOf
    <3> QED BY <1>1, <1>2, <3>1
  <2>4. CASE f = "supplier.active"
    <3>1. \A auth : SupplierOf(state, auth, row, f) = Column(auth, "supplier.active", row.active, row.active)
      BY <1>5, <2>4, Zenon DEF SupplierOf
    <3> QED BY <1>1, <1>2, <3>1
  <2>5. CASE f \notin {"supplier.tax_id", "supplier.iban", "supplier.city", "supplier.active"}
    <3>1. \A auth : SupplierOf(state, auth, row, f) = Column(auth, "supplier.payment_terms", row.terms, row.terms)
      BY <1>5, <2>5, Zenon DEF SupplierOf
    <3> QED BY <1>1, <1>2, <3>1
  <2> QED BY <2>1, <2>2, <2>3, <2>4, <2>5
<1> QED BY <1>2, <1>3, <1>4, <1>5

LEMMA OrderOfKept ==
  ASSUME NEW state, NEW was, NEW now, now \subseteq was, NEW row, NEW ref, NEW f
  PROVE  /\ SameOrLost(OrderOf(state, now, row, ref, f), OrderOf(state, was, row, ref, f))
         /\ OrderOf(state, now, row, ref, "order.id") = OrderOf(state, was, row, ref, "order.id")
<1> DEFINE Column(auth, scope, raw, value) == MasterFieldOf(auth, scope, raw, value, "order.id")
<1>1. \A scope, raw, value : SameOrLost(Column(now, scope, raw, value), Column(was, scope, raw, value))
  BY ColumnKept
<1>2. OrderOf(state, now, row, ref, "order.id") = OrderOf(state, was, row, ref, "order.id")
  BY Zenon DEF OrderOf
<1>3. CASE f = "order.id"
  BY <1>2, <1>3 DEF SameOrLost
<1>4. CASE f # "order.id" /\ state # "present"
  <2>1. \A auth : OrderOf(state, auth, row, ref, f) = Derived(NULL, "unavailable", {"order.id"})
    BY <1>4, Zenon DEF OrderOf
  <2> QED BY <1>2, <2>1 DEF SameOrLost
<1>5. CASE f # "order.id" /\ state = "present"
  <2>1. CASE f = "order.supplier_id"
    <3>1. \A auth : OrderOf(state, auth, row, ref, f) = Column(auth, "order.identity", row.owner, Normal(row.owner))
      BY <1>5, <2>1, Zenon DEF OrderOf
    <3> QED BY <1>1, <1>2, <3>1
  <2>2. CASE f = "order.total"
    <3>1. \A auth : OrderOf(state, auth, row, ref, f) = Column(auth, "order.amount", row.total, row.total)
      BY <1>5, <2>2, Zenon DEF OrderOf
    <3> QED BY <1>1, <1>2, <3>1
  <2>3. CASE f \notin {"order.supplier_id", "order.total"}
    <3>1. \A auth : OrderOf(state, auth, row, ref, f) = Column(auth, "order.currency", row.currency, row.currency)
      BY <1>5, <2>3, Zenon DEF OrderOf
    <3> QED BY <1>1, <1>2, <3>1
  <2> QED BY <2>1, <2>2, <2>3
<1> QED BY <1>2, <1>3, <1>4, <1>5

\* The rows that a printed key leads to.
SupplierRowsOf(rows, tax) ==
    {i \in DOMAIN rows : rows[i] # BAD /\ (rows[i].nif # NULL /\ Normal(rows[i].nif) = tax)}
SupplierFoundOf(rows, tax) ==
    LET found == SupplierRowsOf(rows, tax)
        id    == rows[CHOOSE i \in found : TRUE].id
    IN  /\ found # {} /\ \A i, j \in found : rows[i] = rows[j]
        /\ id \notin {NULL, BAD}
        /\ \A i \in {i \in DOMAIN rows : rows[i] # BAD /\ rows[i].id = id} :
              rows[i].nif # NULL /\ Normal(rows[i].nif) = tax
OrderRowsOf(rows, ref) ==
    {i \in DOMAIN rows : rows[i] # BAD /\ (rows[i].pedido # NULL /\ Normal(rows[i].pedido) = ref)}
OrderFoundOf(rows, ref) ==
    LET found == OrderRowsOf(rows, ref)
    IN  found # {} /\ \A i, j \in found : rows[i] = rows[j]

SupplierBlock(in) ==
    MasterBlock(in["suppliers"], "supplier.identity",
                "SUPPLIER_MASTER_UNAVAILABLE", "SUPPLIER_MASTER_MALFORMED")
OrderBlock(in) ==
    MasterBlock(in["orders"], "order.identity", "ORDER_MASTER_UNAVAILABLE", "ORDER_MASTER_MALFORMED")

SupplierFactsOf(rows, auth, block, tax, found, resolved) ==
    [f \in SupplierFields |->
       SupplierOf(RowState(block, tax, resolved, found = {}), auth, rows[CHOOSE i \in found : TRUE], f)]
OrderFactsOf(rows, auth, block, ref, found, resolved) ==
    [f \in OrderFields |->
       OrderOf(RowState(block, ref, resolved, found = {}), auth, rows[CHOOSE i \in found : TRUE], ref.value, f)]

LEMMA SupplierFactsAre ==
  \A in, printed :
    LET rows == in["suppliers"].rows
        tax  == printed["invoice.supplier_tax_id"]
    IN  SupplierFacts(in, printed) =
          SupplierFactsOf(rows, in["suppliers"].auth, SupplierBlock(in), tax,
                          SupplierRowsOf(rows, tax.value), SupplierFoundOf(rows, tax.value))
<1>1. \A in, tax : SupplierCandidates(in, tax) = SupplierRowsOf(in["suppliers"].rows, tax)
  BY DEF SupplierCandidates, RowsWhere, SupplierRowsOf
<1>2. \A in, tax : SupplierResolved(in, tax) = SupplierFoundOf(in["suppliers"].rows, tax)
  BY DEF SupplierResolved, SupplierFoundOf, SupplierCandidates, SupplierRowsOf, RowsWhere, OneRow
<1>3. \A in, printed :
        SupplierFacts(in, printed) =
          SupplierFactsOf(in["suppliers"].rows, in["suppliers"].auth, SupplierBlock(in),
                          printed["invoice.supplier_tax_id"],
                          SupplierCandidates(in, printed["invoice.supplier_tax_id"].value),
                          SupplierResolved(in, printed["invoice.supplier_tax_id"].value))
  BY DEF SupplierFacts, SupplierFactsOf, SupplierBlock, RowState, SupplierOf, MasterField, MasterFieldOf
<1> QED BY <1>1, <1>2, <1>3

LEMMA OrderFactsAre ==
  \A in, printed :
    LET rows == in["orders"].rows
        ref  == printed["invoice.order_reference"]
    IN  OrderFacts(in, printed) =
          OrderFactsOf(rows, in["orders"].auth, OrderBlock(in), ref,
                       OrderRowsOf(rows, ref.value), OrderFoundOf(rows, ref.value))
<1>1. \A in, ref : OrderCandidates(in, ref) = OrderRowsOf(in["orders"].rows, ref)
  BY DEF OrderCandidates, RowsWhere, OrderRowsOf
<1>2. \A in, ref : OneRow(in["orders"], OrderRowsOf(in["orders"].rows, ref))
                      = OrderFoundOf(in["orders"].rows, ref)
  BY DEF OrderFoundOf, OneRow
<1>3. \A in, printed :
        OrderFacts(in, printed) =
          OrderFactsOf(in["orders"].rows, in["orders"].auth, OrderBlock(in),
                       printed["invoice.order_reference"],
                       OrderCandidates(in, printed["invoice.order_reference"].value),
                       OneRow(in["orders"], OrderCandidates(in, printed["invoice.order_reference"].value)))
  BY DEF OrderFacts, OrderFactsOf, OrderBlock, RowState, OrderOf, MasterField, MasterFieldOf
<1> QED BY <1>1, <1>2, <1>3

LEMMA BlockKept ==
  \A s, was, now, none, broken :
    s \in {"suppliers", "orders"} /\ Kept(s, was, now) =>
      /\ MasterBlock(now, ScopeOf(s), none, broken) = MasterBlock(was, ScopeOf(s), none, broken)
      /\ now.rows = was.rows /\ now.avail = was.avail /\ now.auth \subseteq was.auth
<1> SUFFICES ASSUME NEW s \in {"suppliers", "orders"}, NEW was, NEW now, NEW none, NEW broken,
                    Kept(s, was, now), now # was
             PROVE  /\ MasterBlock(now, ScopeOf(s), none, broken) = MasterBlock(was, ScopeOf(s), none, broken)
                    /\ now.rows = was.rows /\ now.avail = was.avail /\ now.auth \subseteq was.auth
  OBVIOUS
<1>1. /\ was.avail = "available" /\ now.avail = "available"
      /\ now.rows = was.rows /\ now.auth \subseteq was.auth
      /\ ScopeOf(s) \in now.auth /\ ScopeOf(s) \in was.auth
  BY DEF Kept
<1> QED BY <1>1 DEF MasterBlock, Missing

LEMMA SupplierKept ==
  ASSUME NEW o, NEW n, NEW printed, Kept("suppliers", o["suppliers"], n["suppliers"])
  PROVE  /\ SupplierBlock(n) = SupplierBlock(o)
         /\ \A f \in SupplierFields : SameOrLost(SupplierFacts(n, printed)[f], SupplierFacts(o, printed)[f])
         /\ SupplierFacts(n, printed)["supplier.id"] = SupplierFacts(o, printed)["supplier.id"]
         /\ n["suppliers"].auth = o["suppliers"].auth
              => SupplierFacts(n, printed) = SupplierFacts(o, printed)
<1>1. /\ n["suppliers"].rows = o["suppliers"].rows
      /\ n["suppliers"].auth \subseteq o["suppliers"].auth
      /\ SupplierBlock(n) = SupplierBlock(o)
  <2>1. ScopeOf("suppliers") = "supplier.identity"
    BY DEF ScopeOf
  <2> QED BY <2>1, BlockKept DEF SupplierBlock
<1> DEFINE rows  == o["suppliers"].rows
           tax   == printed["invoice.supplier_tax_id"]
           found == SupplierRowsOf(rows, tax.value)
           state == RowState(SupplierBlock(o), tax, SupplierFoundOf(rows, tax.value), found = {})
           row   == rows[CHOOSE i \in found : TRUE]
           Facts(auth) == SupplierFactsOf(rows, auth, SupplierBlock(o), tax, found,
                                          SupplierFoundOf(rows, tax.value))
<1>2. /\ SupplierFacts(o, printed) = Facts(o["suppliers"].auth)
      /\ SupplierFacts(n, printed) = Facts(n["suppliers"].auth)
  BY <1>1, SupplierFactsAre
<1>5. \A auth : Facts(auth) = [f \in SupplierFields |-> SupplierOf(state, auth, row, f)]
  BY Zenon DEF SupplierFactsOf
<1> HIDE DEF state, row, Facts
<1>3. \A f : /\ SameOrLost(SupplierOf(state, n["suppliers"].auth, row, f),
                      SupplierOf(state, o["suppliers"].auth, row, f))
             /\ SupplierOf(state, n["suppliers"].auth, row, "supplier.id")
                  = SupplierOf(state, o["suppliers"].auth, row, "supplier.id")
  BY <1>1, SupplierOfKept
<1>4. "supplier.id" \in SupplierFields
  BY DEF SupplierFields
<1>6. n["suppliers"].auth = o["suppliers"].auth => SupplierFacts(n, printed) = SupplierFacts(o, printed)
  BY <1>2
<1>7. \A f \in SupplierFields : SameOrLost(SupplierFacts(n, printed)[f], SupplierFacts(o, printed)[f])
  <2>1. \A auth : \A f \in SupplierFields : Facts(auth)[f] = SupplierOf(state, auth, row, f)
    BY <1>5
  <2> QED BY <1>2, <1>3, <2>1
<1> QED BY <1>1, <1>2, <1>3, <1>4, <1>5, <1>6, <1>7

LEMMA OrderKept ==
  ASSUME NEW o, NEW n, NEW printed, Kept("orders", o["orders"], n["orders"])
  PROVE  /\ OrderBlock(n) = OrderBlock(o)
         /\ \A f \in OrderFields : SameOrLost(OrderFacts(n, printed)[f], OrderFacts(o, printed)[f])
         /\ OrderFacts(n, printed)["order.id"] = OrderFacts(o, printed)["order.id"]
         /\ n["orders"].auth = o["orders"].auth => OrderFacts(n, printed) = OrderFacts(o, printed)
<1>1. /\ n["orders"].rows = o["orders"].rows
      /\ n["orders"].auth \subseteq o["orders"].auth
      /\ OrderBlock(n) = OrderBlock(o)
  <2>1. ScopeOf("orders") = "order.identity"
    BY DEF ScopeOf
  <2> QED BY <2>1, BlockKept DEF OrderBlock
<1> DEFINE rows  == o["orders"].rows
           ref   == printed["invoice.order_reference"]
           found == OrderRowsOf(rows, ref.value)
           state == RowState(OrderBlock(o), ref, OrderFoundOf(rows, ref.value), found = {})
           row   == rows[CHOOSE i \in found : TRUE]
           Facts(auth) == OrderFactsOf(rows, auth, OrderBlock(o), ref, found, OrderFoundOf(rows, ref.value))
<1>2. /\ OrderFacts(o, printed) = Facts(o["orders"].auth)
      /\ OrderFacts(n, printed) = Facts(n["orders"].auth)
  BY <1>1, OrderFactsAre
<1>5. \A auth : Facts(auth) = [f \in OrderFields |-> OrderOf(state, auth, row, ref.value, f)]
  BY Zenon DEF OrderFactsOf
<1> HIDE DEF state, row, Facts
<1>3. \A f : /\ SameOrLost(OrderOf(state, n["orders"].auth, row, ref.value, f),
                      OrderOf(state, o["orders"].auth, row, ref.value, f))
             /\ OrderOf(state, n["orders"].auth, row, ref.value, "order.id")
                  = OrderOf(state, o["orders"].auth, row, ref.value, "order.id")
  BY <1>1, OrderOfKept
<1>4. "order.id" \in OrderFields
  BY DEF OrderFields
<1>6. n["orders"].auth = o["orders"].auth => OrderFacts(n, printed) = OrderFacts(o, printed)
  BY <1>2
<1>7. \A f \in OrderFields : SameOrLost(OrderFacts(n, printed)[f], OrderFacts(o, printed)[f])
  <2>1. \A auth : \A f \in OrderFields : Facts(auth)[f] = OrderOf(state, auth, row, ref.value, f)
    BY <1>5
  <2> QED BY <1>2, <1>3, <2>1
<1> QED BY <1>1, <1>2, <1>3, <1>4, <1>5, <1>6, <1>7

----------------------------------------------------------------------------
(* What the ERP and the histories say.                                        *)

ErpStatesOf(rows, ref) ==
    {rows[i].estado : i \in {i \in DOMAIN rows :
                               rows[i] # BAD /\ (rows[i].pedido # NULL /\ Normal(rows[i].pedido) = ref)}}
ErpSays(states) ==
    LET known == states \intersect {"PENDIENTE", "PAGADA"}
        ref   == {"invoice.order_reference"}
    IN  IF states = {} THEN Derived(NULL, "missing", ref)
        ELSE IF Cardinality(known) # 1 \/ states # known THEN Derived(NULL, "ambiguous", ref)
        ELSE Derived(CHOOSE s \in known : TRUE, "present", ref)

LEMMA ErpFactIs ==
  \A in, printed :
    LET snap == in["erp"]
    IN  /\ ~Complete(snap) \/ "order.payment_status" \notin snap.auth
             => ErpFact(in, printed) = Derived(NULL, "unavailable", {})
        /\ Complete(snap) /\ "order.payment_status" \in snap.auth
             => ErpFact(in, printed) =
                  ErpSays(ErpStatesOf(snap.rows, printed["invoice.order_reference"].value))
<1>1. \A in, printed : ErpStates(in, printed) =
                         ErpStatesOf(in["erp"].rows, printed["invoice.order_reference"].value)
  BY DEF ErpStates, ErpStatesOf, RowsWhere
<1>2. \A in, printed :
        ErpFact(in, printed) =
          IF ~Complete(in["erp"]) \/ "order.payment_status" \notin in["erp"].auth
          THEN Derived(NULL, "unavailable", {}) ELSE ErpSays(ErpStates(in, printed))
  BY DEF ErpFact, ErpSays
<1> QED BY <1>1, <1>2

LEMMA ErpKept ==
  ASSUME NEW o, NEW n, NEW printed, Kept("erp", o["erp"], n["erp"])
  PROVE  /\ SameOrLost(ErpFact(n, printed), ErpFact(o, printed))
         /\ n["erp"].auth = o["erp"].auth => ErpFact(n, printed) = ErpFact(o, printed)
<1> DEFINE says == ErpSays(ErpStatesOf(o["erp"].rows, printed["invoice.order_reference"].value))
           none == Derived(NULL, "unavailable", {})
           scope == "order.payment_status"
<1>1. ScopeOf("erp") = scope
  BY DEF ScopeOf
<1>2. /\ n["erp"].rows = o["erp"].rows /\ n["erp"].auth \subseteq o["erp"].auth
      /\ n["erp"] = o["erp"] \/ (scope \in n["erp"].auth => Complete(o["erp"]) /\ Complete(n["erp"]))
  BY <1>1 DEF Kept
<1>3. /\ ~Complete(n["erp"]) \/ scope \notin n["erp"].auth => ErpFact(n, printed) = none
      /\ Complete(n["erp"]) /\ scope \in n["erp"].auth => ErpFact(n, printed) = says
      /\ ~Complete(o["erp"]) \/ scope \notin o["erp"].auth => ErpFact(o, printed) = none
      /\ Complete(o["erp"]) /\ scope \in o["erp"].auth => ErpFact(o, printed) = says
  BY <1>2, ErpFactIs
<1>4. none.state = "unavailable"
  BY DerivedIs
<1> HIDE DEF none, says
<1> QED BY <1>2, <1>3, <1>4 DEF SameOrLost

\* The rows of a history, of what is read of it.
OwnOf(h, file, include, row) == h = "processed" /\ row.file = file /\ ~include
MatchesOf(h, file, include, rows, number, supplier, total, date, currency) ==
    {i \in DOMAIN rows : rows[i] # BAD /\
        (/\ ~OwnOf(h, file, include, rows[i])
         /\ WholeRecord(rows[i])
         /\ \/ rows[i].number = number /\ rows[i].supplier = supplier
            \/ /\ rows[i].total = total
               /\ rows[i].date = date
               /\ rows[i].currency = currency)}
MalformedOf(h, file, include, rows) ==
    \E i \in DOMAIN rows :
        \/ rows[i] = BAD
        \/ ~OwnOf(h, file, include, rows[i]) /\ ~WholeRecord(rows[i])

LEMMA MatchesAre ==
  \A in, h, facts :
    /\ HistoryMatches(in, h, facts) =
         MatchesOf(h, in["file_id"], in[h].include, in[h].rows,
                   facts["invoice.number"].value, facts["supplier.id"].value,
                   facts["invoice.total"].value, facts["invoice.issue_date"].value,
                   facts["invoice.currency"].value)
    /\ HistoryMalformed(in, h) = MalformedOf(h, in["file_id"], in[h].include, in[h].rows)
<1>1. \A in, h, facts :
        HistoryMatches(in, h, facts) =
          MatchesOf(h, in["file_id"], in[h].include, in[h].rows,
                    facts["invoice.number"].value, facts["supplier.id"].value,
                    facts["invoice.total"].value, facts["invoice.issue_date"].value,
                    facts["invoice.currency"].value)
  BY DEF HistoryMatches, MatchesOf, RowsWhere, OwnSubmission, OwnOf
<1>2. \A in, h : HistoryMalformed(in, h) = MalformedOf(h, in["file_id"], in[h].include, in[h].rows)
  BY DEF HistoryMalformed, MalformedOf, OwnSubmission, OwnOf
<1> QED BY <1>1, <1>2

HistorySays(states, doubtful, malformed, matches) ==
    LET inherited == IF "unavailable" \in states THEN "unavailable"
                     ELSE IF "ambiguous" \in states THEN "ambiguous"
                     ELSE IF "invalid" \in states THEN "invalid" ELSE "missing"
    IN  IF doubtful THEN Derived(NULL, "ambiguous", HistoryKeys)
        ELSE IF states # {"present"} THEN Derived(NULL, inherited, HistoryKeys)
        ELSE IF malformed THEN Derived(NULL, "ambiguous", HistoryKeys)
        ELSE Derived(matches, "present", HistoryKeys)
Doubtful(facts) == \E f \in HistoryKeys : facts[f].quality \in {"uncertain", "unlinked"}

LEMMA HistoryFactIs ==
  \A in, h, facts :
    /\ ~HistoryAnswers(in, h) => HistoryFact(in, h, facts) = Derived(NULL, "unavailable", HistoryKeys)
    /\ HistoryAnswers(in, h)
         => HistoryFact(in, h, facts) =
              HistorySays({facts[f].state : f \in HistoryKeys}, Doubtful(facts),
                          HistoryMalformed(in, h), HistoryMatches(in, h, facts))
<1>1. \A in, h, facts :
        HistoryFact(in, h, facts) =
          IF ~HistoryAnswers(in, h) THEN Derived(NULL, "unavailable", HistoryKeys)
          ELSE HistorySays({facts[f].state : f \in HistoryKeys}, Doubtful(facts),
                           HistoryMalformed(in, h), HistoryMatches(in, h, facts))
  BY DEF HistoryFact, HistorySays, Doubtful
<1> QED BY <1>1, Zenon

LEMMA HistoryKept ==
  ASSUME NEW o, NEW n, NEW h \in Histories, Kept(h, o[h], n[h]), n["file_id"] = o["file_id"],
         NEW was, NEW now, \A f \in HistoryKeys : now[f] = was[f]
  PROVE  /\ SameOrLost(HistoryFact(n, h, now), HistoryFact(o, h, was))
         /\ n[h].auth = o[h].auth => HistoryFact(n, h, now) = HistoryFact(o, h, was)
<1> DEFINE none == Derived(NULL, "unavailable", HistoryKeys)
           says(in, facts) == HistorySays({facts[f].state : f \in HistoryKeys}, Doubtful(facts),
                                          HistoryMalformed(in, h), HistoryMatches(in, h, facts))
<1>1. /\ h \notin {"suppliers", "orders"} /\ ScopeOf(h) = "history." \o h
  BY DEF Histories, ScopeOf
<1>2. /\ n[h].rows = o[h].rows /\ n[h].include = o[h].include /\ n[h].kind = o[h].kind
      /\ n[h].auth \subseteq o[h].auth
      /\ n[h] = o[h] \/ (ScopeOf(h) \in n[h].auth => Complete(o[h]) /\ Complete(n[h]))
  BY <1>1 DEF Kept
<1>3. /\ HistoryAnswers(n, h) => HistoryAnswers(o, h)
      /\ n[h].auth = o[h].auth /\ HistoryAnswers(o, h) => HistoryAnswers(n, h)
  <2>1. \A in : HistoryAnswers(in, h) <=> Complete(in[h]) /\ ScopeOf(h) \in in[h].auth /\ in[h].kind = h
    BY <1>1, Zenon DEF HistoryAnswers
  <2> QED BY <1>2, <2>1
<1>4. says(n, now) = says(o, was)
  <2>1. \A f \in HistoryKeys : now[f].state = was[f].state /\ now[f].quality = was[f].quality
                               /\ now[f].value = was[f].value
    OBVIOUS
  <2>2. {now[f].state : f \in HistoryKeys} = {was[f].state : f \in HistoryKeys}
    BY <2>1
  <2>3. Doubtful(now) = Doubtful(was)
    BY <2>1 DEF Doubtful
  <2>4. HistoryMalformed(n, h) = HistoryMalformed(o, h)
    BY <1>2, MatchesAre
  <2>5. HistoryMatches(n, h, now) = HistoryMatches(o, h, was)
    BY <1>2, <2>1, MatchesAre DEF HistoryKeys
  <2> QED BY <2>2, <2>3, <2>4, <2>5, Zenon
<1>5. /\ ~HistoryAnswers(n, h) => HistoryFact(n, h, now) = none
      /\ ~HistoryAnswers(o, h) => HistoryFact(o, h, was) = none
      /\ HistoryAnswers(n, h) => HistoryFact(n, h, now) = says(n, now)
      /\ HistoryAnswers(o, h) => HistoryFact(o, h, was) = says(o, was)
  BY HistoryFactIs, Zenon
<1>6. none.state = "unavailable"
  BY DerivedIs
<1> HIDE DEF none, says
<1> QED BY <1>3, <1>4, <1>5, <1>6 DEF SameOrLost

\* What a history is observed to hold, of the five facts that it is compared with.
UsableTwo(a, b) == Usable(a) /\ Usable(b)
HardOf(number, supplier, row) ==
    /\ UsableTwo(number, supplier)
    /\ Known(row.number) /\ row.number = number.value
    /\ Known(row.supplier) /\ row.supplier = supplier.value
SoftOf(total, date, currency, row) ==
    /\ UsableTwo(total, date)
    /\ Known(row.total) /\ row.total = total.value
    /\ Known(row.date) /\ row.date = date.value
    /\ \/ row.currency = NULL \/ currency.value = NULL
       \/ row.currency = currency.value
OffOf(fact, value) == Known(value) /\ Usable(fact) /\ value # fact.value
AccountedOf(number, supplier, total, date, row) ==
    /\ \/ Known(row.number) /\ Known(row.supplier)
       \/ OffOf(number, row.number)
       \/ OffOf(supplier, row.supplier)
    /\ \/ Known(row.total) /\ Known(row.date)
       \/ OffOf(total, row.total)
       \/ OffOf(date, row.date)
    /\ row.currency # BAD

TheirRows(h, file, include, rows) == {i \in DOMAIN rows : rows[i] # BAD /\ ~OwnOf(h, file, include, rows[i])}
HardRows(theirs, rows, number, supplier) == {i \in theirs : HardOf(number, supplier, rows[i])}
SoftRows(theirs, rows, total, date, currency, hard) ==
    {i \in theirs : SoftOf(total, date, currency, rows[i])} \ hard
WholeRows(theirs, rows, number, supplier, total, date) ==
    /\ UsableTwo(number, supplier) /\ UsableTwo(total, date)
    /\ \A i \in DOMAIN rows : rows[i] # BAD
    /\ \A i \in theirs : AccountedOf(number, supplier, total, date, rows[i])

\* The whole observation, when the history may be read.
SeenOf(entire, rows, theirs, number, supplier, total, date, currency) ==
    [hard |-> HardRows(theirs, rows, number, supplier),
     soft |-> SoftRows(theirs, rows, total, date, currency, HardRows(theirs, rows, number, supplier)),
     coverage |-> IF entire /\ WholeRows(theirs, rows, number, supplier, total, date)
                  THEN "complete" ELSE "partial"]
NotSeen == [hard |-> {}, soft |-> {}, coverage |-> "unavailable"]
MayBeRead(snap, h) ==
    ~Missing(snap) /\ ("history." \o h) \in snap.auth /\ snap.rows # NULL /\ snap.kind = h
Entire(snap) == snap.avail = "available" /\ snap.complete

LEMMA ObservationIs ==
  \A in, h, fields :
    LET theirs == TheirRows(h, in["file_id"], in[h].include, in[h].rows)
    IN  HistoryObservation(in, h, fields) =
          IF ~MayBeRead(in[h], h) THEN NotSeen
          ELSE SeenOf(Entire(in[h]), in[h].rows, theirs, fields["invoice.number"], fields["supplier.id"],
                      fields["invoice.total"], fields["invoice.issue_date"], fields["invoice.currency"])
<1> SUFFICES ASSUME NEW in, NEW h, NEW fields
             PROVE  HistoryObservation(in, h, fields) =
                      IF ~MayBeRead(in[h], h) THEN NotSeen
                      ELSE SeenOf(Entire(in[h]), in[h].rows,
                                  TheirRows(h, in["file_id"], in[h].include, in[h].rows),
                                  fields["invoice.number"], fields["supplier.id"],
                                  fields["invoice.total"], fields["invoice.issue_date"],
                                  fields["invoice.currency"])
  OBVIOUS
<1> DEFINE snap == in[h]
           rows == RowsWhere(snap, LAMBDA r : ~OwnSubmission(in, h, r))
           hard == {i \in rows : HardMatch(fields, snap.rows[i])}
           soft == {i \in rows : SoftMatch(fields, snap.rows[i])} \ hard
           whole == /\ snap.avail = "available" /\ snap.complete
                    /\ HardReady(fields) /\ SoftReady(fields)
                    /\ \A i \in DOMAIN snap.rows : snap.rows[i] # BAD
                    /\ \A i \in rows : Accounted(fields, snap.rows[i])
           theirs == TheirRows(h, in["file_id"], snap.include, snap.rows)
           number == fields["invoice.number"]
           supplier == fields["supplier.id"]
           total == fields["invoice.total"]
           date == fields["invoice.issue_date"]
           currency == fields["invoice.currency"]
<1>1. HistoryObservation(in, h, fields) =
        IF ~MayBeRead(snap, h) THEN NotSeen
        ELSE [hard |-> hard, soft |-> soft, coverage |-> IF whole THEN "complete" ELSE "partial"]
  BY DEF HistoryObservation, NotSeen, MayBeRead
<1>2. rows = theirs
  BY DEF RowsWhere, TheirRows, OwnSubmission, OwnOf
<1>3. \A row : /\ HardMatch(fields, row) = HardOf(number, supplier, row)
               /\ SoftMatch(fields, row) = SoftOf(total, date, currency, row)
               /\ Accounted(fields, row) = AccountedOf(number, supplier, total, date, row)
  BY DEF HardMatch, HardOf, SoftMatch, SoftOf, Accounted, AccountedOf, Differs, OffOf,
         HardReady, SoftReady, UsableTwo
<1>4. hard = HardRows(theirs, snap.rows, number, supplier)
  BY <1>2, <1>3 DEF HardRows
<1>5. soft = SoftRows(theirs, snap.rows, total, date, currency, hard)
  BY <1>2, <1>3 DEF SoftRows
<1>6. whole <=> Entire(snap) /\ WholeRows(theirs, snap.rows, number, supplier, total, date)
  BY <1>2, <1>3 DEF Entire, WholeRows, HardReady, SoftReady, UsableTwo
<1> HIDE DEF hard, soft, whole, theirs, rows
<1> QED BY <1>1, <1>4, <1>5, <1>6 DEF SeenOf, theirs

LEMMA ObservationKept ==
  ASSUME NEW o, NEW n, NEW h \in Histories, Kept(h, o[h], n[h]), n["file_id"] = o["file_id"],
         NEW was, NEW now, \A f \in HistoryKeys : now[f] = was[f]
  PROVE  /\ \/ HistoryObservation(n, h, now) = HistoryObservation(o, h, was)
            \/ HistoryObservation(n, h, now) = NotSeen
         /\ n[h].auth = o[h].auth => HistoryObservation(n, h, now) = HistoryObservation(o, h, was)
<1> DEFINE theirs == TheirRows(h, o["file_id"], o[h].include, o[h].rows)
           seen(entire) == SeenOf(entire, o[h].rows, theirs, was["invoice.number"], was["supplier.id"],
                                  was["invoice.total"], was["invoice.issue_date"], was["invoice.currency"])
<1>1. /\ h \notin {"suppliers", "orders"} /\ ScopeOf(h) = "history." \o h
  BY DEF Histories, ScopeOf
<1>2. /\ n[h].rows = o[h].rows /\ n[h].include = o[h].include /\ n[h].kind = o[h].kind
      /\ n[h].auth \subseteq o[h].auth /\ n[h].avail = o[h].avail
      /\ n[h] = o[h] \/ (ScopeOf(h) \in n[h].auth => Complete(o[h]) /\ Complete(n[h]))
  BY <1>1 DEF Kept
<1>3. /\ now["invoice.number"] = was["invoice.number"] /\ now["supplier.id"] = was["supplier.id"]
      /\ now["invoice.total"] = was["invoice.total"]
      /\ now["invoice.issue_date"] = was["invoice.issue_date"]
      /\ now["invoice.currency"] = was["invoice.currency"]
  BY DEF HistoryKeys
<1>4. /\ HistoryObservation(o, h, was) = IF ~MayBeRead(o[h], h) THEN NotSeen ELSE seen(Entire(o[h]))
      /\ HistoryObservation(n, h, now) = IF ~MayBeRead(n[h], h) THEN NotSeen ELSE seen(Entire(n[h]))
  BY <1>2, <1>3, ObservationIs
<1>5. \A snap : MayBeRead(snap, h) <=> /\ ~Missing(snap) /\ ScopeOf(h) \in snap.auth
                                   /\ snap.rows # NULL /\ snap.kind = h
  BY <1>1, Zenon DEF MayBeRead
<1>6. /\ MayBeRead(n[h], h) => MayBeRead(o[h], h)
      /\ n[h].auth = o[h].auth /\ MayBeRead(o[h], h) => MayBeRead(n[h], h)
  BY <1>2, <1>5 DEF Missing
<1>7. CASE MayBeRead(n[h], h)
  <2>1. Entire(n[h]) <=> Entire(o[h])
    BY <1>2, <1>5, <1>7 DEF Entire, Complete
  <2>2. seen(Entire(n[h])) = seen(Entire(o[h]))
    <3> DEFINE whole == WholeRows(theirs, o[h].rows, was["invoice.number"], was["supplier.id"],
                                  was["invoice.total"], was["invoice.issue_date"])
               hard  == HardRows(theirs, o[h].rows, was["invoice.number"], was["supplier.id"])
               soft  == SoftRows(theirs, o[h].rows, was["invoice.total"], was["invoice.issue_date"],
                                 was["invoice.currency"], hard)
    <3>1. \A snap : seen(Entire(snap)) =
            [hard |-> hard, soft |-> soft,
             coverage |-> IF Entire(snap) /\ whole THEN "complete" ELSE "partial"]
      BY Zenon DEF SeenOf
    <3> HIDE DEF whole, hard, soft, seen
    <3> QED BY <2>1, <3>1
  <2> QED BY <1>4, <1>6, <1>7, <2>2
<1>8. CASE ~MayBeRead(n[h], h)
  BY <1>4, <1>6, <1>8
<1> QED BY <1>7, <1>8

----------------------------------------------------------------------------
(* All that is known of the weaker input.                                     *)

AllKept(o, n) ==
    /\ PrintedAlike(o, n)
    /\ \A s \in Snapshots : Kept(s, o[s], n[s])
SameAuthority(o, n) == \A s \in Snapshots : n[s].auth = o[s].auth

\* The facts that others are computed from: none of them is lost.
Roots == PrintedNames \union {"supplier.id", "order.id"}

LEMMA RootsAre ==
  /\ HistoryKeys \subseteq Roots /\ Roots \subseteq MasterNames
  /\ "supplier.id" \in SupplierFields /\ "order.id" \in OrderFields
  /\ {"invoice.supplier_tax_id", "invoice.order_reference"} \subseteq Roots
  BY DEF Roots, HistoryKeys, MasterNames, PrintedNames, InvoiceScalars, TextFields, SupplierFields, OrderFields

LEMMA MastersKept ==
  ASSUME NEW o, NEW n, AllKept(o, n)
  PROVE  LET was == WithMasters(o, PrintedFacts(o))
             now == WithMasters(n, PrintedFacts(n))
         IN  /\ DOMAIN was = MasterNames /\ DOMAIN now = MasterNames
             /\ \A f \in MasterNames : SameOrLost(now[f], was[f])
             /\ \A f \in Roots : now[f] = was[f]
             /\ SameAuthority(o, n) => \A f \in MasterNames : now[f] = was[f]
<1> DEFINE printed == PrintedFacts(o)
           was == WithMasters(o, printed)
           now == WithMasters(n, printed)
<1>1. PrintedFacts(n) = printed
  BY PrintedFactsAlike DEF AllKept
<1>2. /\ Kept("suppliers", o["suppliers"], n["suppliers"])
      /\ Kept("orders", o["orders"], n["orders"]) /\ Kept("erp", o["erp"], n["erp"])
  BY DEF AllKept, Snapshots
<1>3. DOMAIN printed = PrintedNames
  BY PrintedIs
<1> HIDE DEF printed
<1>4. /\ DOMAIN was = MasterNames
      /\ \A f \in SupplierFields : was[f] = SupplierFacts(o, printed)[f]
      /\ \A f \in OrderFields : was[f] = OrderFacts(o, printed)[f]
      /\ was["erp.order_payment_status"] = ErpFact(o, printed)
      /\ \A f \in PrintedNames : was[f] = printed[f]
  BY <1>3, MastersAre
<1>5. /\ DOMAIN now = MasterNames
      /\ \A f \in SupplierFields : now[f] = SupplierFacts(n, printed)[f]
      /\ \A f \in OrderFields : now[f] = OrderFacts(n, printed)[f]
      /\ now["erp.order_payment_status"] = ErpFact(n, printed)
      /\ \A f \in PrintedNames : now[f] = printed[f]
  BY <1>3, MastersAre
<1>6. /\ \A f \in SupplierFields : SameOrLost(SupplierFacts(n, printed)[f], SupplierFacts(o, printed)[f])
      /\ SupplierFacts(n, printed)["supplier.id"] = SupplierFacts(o, printed)["supplier.id"]
      /\ n["suppliers"].auth = o["suppliers"].auth => SupplierFacts(n, printed) = SupplierFacts(o, printed)
  BY <1>2, SupplierKept
<1>7. /\ \A f \in OrderFields : SameOrLost(OrderFacts(n, printed)[f], OrderFacts(o, printed)[f])
      /\ OrderFacts(n, printed)["order.id"] = OrderFacts(o, printed)["order.id"]
      /\ n["orders"].auth = o["orders"].auth => OrderFacts(n, printed) = OrderFacts(o, printed)
  BY <1>2, OrderKept
<1>8. /\ SameOrLost(ErpFact(n, printed), ErpFact(o, printed))
      /\ n["erp"].auth = o["erp"].auth => ErpFact(n, printed) = ErpFact(o, printed)
  BY <1>2, ErpKept
<1> HIDE DEF was, now
<1>9. \A f \in MasterNames : SameOrLost(now[f], was[f])
  BY <1>4, <1>5, <1>6, <1>7, <1>8 DEF MasterNames, SameOrLost
<1>10. \A f \in Roots : now[f] = was[f]
  BY <1>4, <1>5, <1>6, <1>7, RootsAre DEF Roots
<1>11. ASSUME SameAuthority(o, n) PROVE \A f \in MasterNames : now[f] = was[f]
  <2>1. /\ n["suppliers"].auth = o["suppliers"].auth /\ n["orders"].auth = o["orders"].auth
        /\ n["erp"].auth = o["erp"].auth
    BY <1>11 DEF SameAuthority, Snapshots
  <2> QED BY <1>4, <1>5, <1>6, <1>7, <1>8, <2>1 DEF MasterNames
<1> QED BY <1>1, <1>4, <1>5, <1>9, <1>10, <1>11 DEF was, now, printed

LEMMA ResolvedKept ==
  ASSUME NEW o, NEW n, AllKept(o, n)
  PROVE  LET was == ResolvedFacts(o)
             now == ResolvedFacts(n)
         IN  /\ \A f \in Names : SameOrLost(now[f], was[f])
             /\ \A f \in Roots : now[f] = was[f]
             /\ SameAuthority(o, n) => \A f \in Names : now[f] = was[f]
<1> DEFINE was == ResolvedFacts(o)
           now == ResolvedFacts(n)
           first == WithMasters(o, PrintedFacts(o))
           next  == WithMasters(n, PrintedFacts(n))
           Which(f) == CHOOSE h \in Histories : HistoryField[h] = f
<1>1. /\ DOMAIN first = MasterNames /\ DOMAIN next = MasterNames
      /\ \A f \in MasterNames : SameOrLost(next[f], first[f])
      /\ \A f \in Roots : next[f] = first[f]
      /\ SameAuthority(o, n) => \A f \in MasterNames : next[f] = first[f]
  BY MastersKept
<1>2. n["file_id"] = o["file_id"] /\ \A h \in Histories : Kept(h, o[h], n[h])
  BY DEF AllKept, PrintedAlike, PrintParts, Snapshots
<1> HIDE DEF first, next
<1>3. /\ was = [f \in DOMAIN first \union {HistoryField[h] : h \in Histories} |->
                  IF f \in DOMAIN first THEN first[f] ELSE HistoryFact(o, Which(f), first)]
      /\ now = [f \in DOMAIN next \union {HistoryField[h] : h \in Histories} |->
                  IF f \in DOMAIN next THEN next[f] ELSE HistoryFact(n, Which(f), next)]
  BY ResolvedIs DEF first, next
<1> HIDE DEF was, now
<1>4. \A f \in Names \ MasterNames : Which(f) \in Histories
  BY DEF Names
<1> HIDE DEF Which
<1>5. /\ \A f \in MasterNames : was[f] = first[f] /\ now[f] = next[f]
      /\ \A f \in Names \ MasterNames : /\ was[f] = HistoryFact(o, Which(f), first)
                                        /\ now[f] = HistoryFact(n, Which(f), next)
  BY <1>1, <1>3 DEF Names
<1>6. \A f \in HistoryKeys : next[f] = first[f]
  BY <1>1, RootsAre
<1>7. ASSUME NEW h \in Histories
      PROVE  /\ SameOrLost(HistoryFact(n, h, next), HistoryFact(o, h, first))
             /\ SameAuthority(o, n) => HistoryFact(n, h, next) = HistoryFact(o, h, first)
  <2>1. /\ SameOrLost(HistoryFact(n, h, next), HistoryFact(o, h, first))
        /\ n[h].auth = o[h].auth => HistoryFact(n, h, next) = HistoryFact(o, h, first)
    BY <1>2, <1>6, HistoryKept
  <2>2. SameAuthority(o, n) => n[h].auth = o[h].auth
    BY DEF SameAuthority, Snapshots
  <2> QED BY <2>1, <2>2
<1>8. Names = MasterNames \union (Names \ MasterNames)
  BY DEF Names
<1>9. /\ \A f \in Names : SameOrLost(now[f], was[f])
      /\ \A f \in Roots : now[f] = was[f]
      /\ SameAuthority(o, n) => \A f \in Names : now[f] = was[f]
  BY <1>1, <1>4, <1>5, <1>7, <1>8, RootsAre
<1> QED BY <1>9 DEF was, now

\* Every fact is computed from facts that are never lost.
LEMMA FromRoots ==
  ASSUME NEW in, NEW f \in Names
  PROVE  ResolvedFacts(in)[f].from \subseteq Roots
<1> DEFINE facts   == ResolvedFacts(in)
           masters == WithMasters(in, PrintedFacts(in))
<1>1. /\ DOMAIN masters = MasterNames
      /\ masters["erp.order_payment_status"] = ErpFact(in, PrintedFacts(in))
  BY PrintedIs, MastersAre
<1> HIDE DEF masters
<1>2. facts = [g \in DOMAIN masters \union {HistoryField[h] : h \in Histories} |->
                 IF g \in DOMAIN masters THEN masters[g]
                 ELSE HistoryFact(in, CHOOSE h \in Histories : HistoryField[h] = g, masters)]
  BY ResolvedIs DEF masters
<1>3. /\ \A g \in PrintedNames : facts[g] = PrintedFacts(in)[g]
      /\ \A g \in SupplierFields : facts[g].from = SupplierFrom(g)
      /\ \A g \in OrderFields : facts[g].from = OrderFrom(g)
  BY ResolvedFactsAre
<1> SUFFICES facts[f].from \subseteq Roots
  OBVIOUS
<1> HIDE DEF facts
<1>4. CASE f \in PrintedNames
  BY <1>3, <1>4, PrintedIs
<1>5. CASE f \in SupplierFields
  BY <1>3, <1>5, RootsAre DEF SupplierFrom, Roots
<1>6. CASE f \in OrderFields
  BY <1>3, <1>6, RootsAre DEF OrderFrom, Roots
<1>7. CASE f = "erp.order_payment_status"
  <2>1. facts[f] = ErpFact(in, PrintedFacts(in))
    BY <1>1, <1>2, <1>7 DEF MasterNames
  <2> QED BY <2>1, ErpIs, RootsAre
<1>8. CASE f \in Names \ MasterNames
  <2>1. \E h : facts[f] = HistoryFact(in, h, masters)
    BY <1>1, <1>2, <1>8 DEF Names
  <2> QED BY <2>1, HistoryIs, RootsAre
<1> QED BY <1>4, <1>5, <1>6, <1>7, <1>8 DEF MasterNames

\* The quality of a fact, and the guard on it, are all that the two passes change.
LEMMA FieldsKeep ==
  ASSUME NEW in, NEW f \in Names
  PROVE  LET fact  == ResolvedFacts(in)[f]
             field == Fields(in)[f]
         IN  /\ DOMAIN Fields(in) = Names /\ DOMAIN ExecFields(in) = Names
             /\ Shape(field) /\ field.state = fact.state /\ field.from = fact.from
             /\ field.weak = fact.weak
             /\ ExecFields(in)[f].state = fact.state
<1> DEFINE facts  == ResolvedFacts(in)
           fields == Fields(in)
           qualities == {facts[g].quality : g \in Lineage(facts, f)}
<1>1. /\ DOMAIN facts = Names
      /\ \A g \in Names : Shape(facts[g]) /\ facts[g].from \subseteq Names
  BY ResolvedFactsAre
<1>2. fields = PropagateQuality(facts) /\ ExecFields(in) = ExecutionFields(fields)
  BY FieldsAre, ExecFieldsAre
<1> HIDE DEF facts, fields
<1>3. /\ DOMAIN fields = Names
      /\ fields[f] = Requalified(facts[f], Worst(qualities))
  BY <1>1, <1>2, Zenon DEF PropagateQuality, Requalified
<1>4. DOMAIN ExecFields(in) = Names
  BY <1>2, <1>3 DEF ExecutionFields
<1>5. Lineage(facts, f) \subseteq Names /\ f \in Lineage(facts, f)
  BY <1>1 DEF Lineage
<1>6. qualities \in SUBSET Qualities /\ qualities # {}
  BY <1>1, <1>5 DEF Shape
<1> HIDE DEF qualities
<1>7. Worst(qualities) \in Qualities
  BY <1>6, WorstIs
<1>8. /\ Shape(fields[f]) /\ fields[f].state = facts[f].state /\ fields[f].from = facts[f].from
      /\ fields[f].weak = facts[f].weak
  BY <1>1, <1>3, <1>7, RequalifiedIs
<1>9. ExecFields(in)[f].state = facts[f].state
  BY <1>8, LineageIs DEF facts
<1> QED BY <1>3, <1>4, <1>8, <1>9 DEF facts, fields

LEMMA LineageAlike ==
  ASSUME NEW Q, NEW was, NEW now, NEW f \in Q,
         \A g \in Q : now[g] = was[g] /\ was[g].from \subseteq Q
  PROVE  Lineage(now, f) = Lineage(was, f) /\ Lineage(was, f) \subseteq Q
  BY DEF Lineage

LEMMA ExecKept ==
  ASSUME NEW o, NEW n, AllKept(o, n)
  PROVE  LET was == ExecFields(o)
             now == ExecFields(n)
         IN  /\ DOMAIN was = Names /\ DOMAIN now = Names
             /\ \A f \in Names : SameOrLost(now[f], was[f])
             /\ \A f \in Roots : now[f] = was[f]
             /\ SameAuthority(o, n) => now = was
<1> DEFINE before1 == ResolvedFacts(o)
           after1  == ResolvedFacts(n)
           before2 == Fields(o)
           after2  == Fields(n)
           was == ExecFields(o)
           now == ExecFields(n)
<1>1. /\ \A f \in Names : SameOrLost(after1[f], before1[f])
      /\ \A f \in Roots : after1[f] = before1[f]
      /\ SameAuthority(o, n) => \A f \in Names : after1[f] = before1[f]
  BY ResolvedKept
<1>2. /\ DOMAIN before1 = Names /\ DOMAIN after1 = Names
      /\ Roots \subseteq Names
  BY ResolvedFactsAre, RootsAre DEF Names
<1>3. /\ \A f \in Names : before1[f].from \subseteq Roots
      /\ \A f \in Names : /\ before2[f].from = before1[f].from
                          /\ was[f].state = before1[f].state /\ now[f].state = after1[f].state
  BY FromRoots, FieldsKeep
<1>4. /\ DOMAIN was = Names /\ DOMAIN now = Names
      /\ DOMAIN before2 = Names /\ DOMAIN after2 = Names
  <2>1. "supplier.id" \in Names
    BY <1>2, RootsAre DEF Roots
  <2> QED BY <2>1, FieldsKeep
<1>5. /\ before2 = PropagateQuality(before1) /\ after2 = PropagateQuality(after1)
      /\ was = ExecutionFields(before2) /\ now = ExecutionFields(after2)
  BY FieldsAre, ExecFieldsAre
<1> HIDE DEF before1, after1, before2, after2, was, now
<1>6. \A f \in Names : /\ before2[f] = Requalified(before1[f], Worst({before1[g].quality : g \in Lineage(before1, f)}))
                       /\ after2[f] = Requalified(after1[f], Worst({after1[g].quality : g \in Lineage(after1, f)}))
  BY <1>2, <1>5, Zenon DEF PropagateQuality, Requalified
<1>7. \A f \in Names : /\ was[f] = IF Guarded(before2, f) THEN Requalified(before2[f], "uncertain") ELSE before2[f]
                       /\ now[f] = IF Guarded(after2, f) THEN Requalified(after2[f], "uncertain") ELSE after2[f]
  BY <1>4, <1>5, Zenon DEF ExecutionFields, Requalified
<1>8. ASSUME NEW f \in Names, after1[f] = before1[f] PROVE now[f] = was[f]
  <2> DEFINE Q == {f} \union Roots
  <2>1. Q \subseteq Names /\ \A g \in Q : after1[g] = before1[g] /\ before1[g].from \subseteq Q
    BY <1>1, <1>2, <1>3, <1>8
  <2>2. f \in Q
    OBVIOUS
  <2> HIDE DEF Q
  <2>3. ASSUME NEW g \in Q PROVE after2[g] = before2[g]
    <3>1. Lineage(after1, g) = Lineage(before1, g) /\ Lineage(before1, g) \subseteq Q
      BY <2>1, LineageAlike
    <3>2. {after1[x].quality : x \in Lineage(after1, g)} = {before1[x].quality : x \in Lineage(before1, g)}
      BY <2>1, <3>1
    <3>3. g \in Names /\ after1[g] = before1[g]
      BY <2>1
    <3> QED BY <1>6, <3>2, <3>3
  <2>4. \A g \in Q : after2[g] = before2[g] /\ before2[g].from \subseteq Q
    BY <1>3, <2>1, <2>3
  <2>5. Lineage(after2, f) = Lineage(before2, f) /\ Lineage(before2, f) \subseteq Q
    BY <2>2, <2>4, LineageAlike
  <2>6. Guarded(after2, f) <=> Guarded(before2, f)
    BY <2>4, <2>5 DEF Guarded
  <2> QED BY <1>7, <2>2, <2>4, <2>6
<1>9. \A f \in Names : SameOrLost(now[f], was[f])
  BY <1>1, <1>3, <1>8 DEF SameOrLost
<1>10. \A f \in Roots : now[f] = was[f]
  BY <1>1, <1>2, <1>8
<1>11. ASSUME SameAuthority(o, n) PROVE now = was
  <2>1. \A f \in Names : now[f] = was[f]
    BY <1>1, <1>8, <1>11
  <2>2. /\ now = [f \in Names |-> now[f]] /\ was = [f \in Names |-> was[f]]
    BY <1>4, <1>5 DEF ExecutionFields
  <2> QED BY <2>1, <2>2
<1> QED BY <1>4, <1>9, <1>10, <1>11 DEF was, now

----------------------------------------------------------------------------
(* What is executed of the two inputs, and what was found of them.            *)

LEMMA ObservationsKept ==
  ASSUME NEW o, NEW n, AllKept(o, n)
  PROVE  /\ \A h \in Histories : \/ Observations(n)[h] = Observations(o)[h]
                                 \/ Observations(n)[h] = NotSeen
         /\ SameAuthority(o, n) => Observations(n) = Observations(o)
<1> DEFINE was == ExecFields(o)
           now == ExecFields(n)
<1>1. \A f \in HistoryKeys : now[f] = was[f]
  BY ExecKept, RootsAre
<1>2. n["file_id"] = o["file_id"] /\ \A h \in Histories : Kept(h, o[h], n[h])
  BY DEF AllKept, PrintedAlike, PrintParts, Snapshots
<1> HIDE DEF was, now
<1>3. ASSUME NEW h \in Histories
      PROVE  /\ \/ HistoryObservation(n, h, now) = HistoryObservation(o, h, was)
                \/ HistoryObservation(n, h, now) = NotSeen
             /\ SameAuthority(o, n) => HistoryObservation(n, h, now) = HistoryObservation(o, h, was)
  <2>1. /\ \/ HistoryObservation(n, h, now) = HistoryObservation(o, h, was)
           \/ HistoryObservation(n, h, now) = NotSeen
        /\ n[h].auth = o[h].auth => HistoryObservation(n, h, now) = HistoryObservation(o, h, was)
    BY <1>1, <1>2, ObservationKept
  <2>2. SameAuthority(o, n) => n[h].auth = o[h].auth
    BY DEF SameAuthority, Snapshots
  <2> QED BY <2>1, <2>2
<1>4. /\ Observations(o) = [h \in Histories |-> HistoryObservation(o, h, was)]
      /\ Observations(n) = [h \in Histories |-> HistoryObservation(n, h, now)]
  BY ObservationsAre DEF was, now
<1> QED BY <1>3, <1>4

LEMMA WorldKept ==
  ASSUME NEW o, NEW n, AllKept(o, n)
  PROVE  /\ Captured(n) = Captured(o) /\ EnabledRules(n) = EnabledRules(o)
         /\ n["today"] = o["today"] /\ ExecutionTaxes(n) = ExecutionTaxes(o)
<1>1. n["rules"] = o["rules"] /\ n["today"] = o["today"]
  BY DEF AllKept, PrintedAlike, PrintParts
<1>2. \A h \in Histories : n[h].avail = o[h].avail
  BY DEF AllKept, Snapshots, Kept
<1>3. Captured(n) = Captured(o)
  BY <1>2 DEF Captured, Histories
<1>4. EnabledRules(n) = EnabledRules(o)
  BY <1>1 DEF EnabledRules
<1> QED BY <1>1, <1>3, <1>4, ExecutionTaxesAlike DEF AllKept

LEMMA OutcomesSame ==
  ASSUME NEW o, NEW n, AllKept(o, n), SameAuthority(o, n), NEW rule, NEW crash
  PROVE  Outcome(n, rule, crash) = Outcome(o, rule, crash)
<1> DEFINE Of(fields, taxes, seen, captured, today) ==
             IF rule.id = crash
             THEN Result(rule, "ERROR", {Step("BLOCKED", "CHECK_EXECUTION_ERROR", {})})
             ELSE ExecuteRule(rule, fields, taxes, seen, captured, today)
<1>1. \A in : Outcome(in, rule, crash) =
                Of(ExecFields(in), ExecutionTaxes(in), Observations(in), Captured(in), in["today"])
  BY DEF Outcome
<1> HIDE DEF Of
<1> QED BY <1>1, WorldKept, ExecKept, ObservationsKept

\* Every finding is of one of the parts, or of one history.
Plain(in) ==
    AcquisitionFindings(in) \union SupplierFindings(in, ResolvedFacts(in))
    \union OrderFindings(in, ResolvedFacts(in))
    \union ErpFindings(in, ResolvedFacts(in)["erp.order_payment_status"])
    \union MissingLinks(in, Fields(in))
    \union (IF \E i \in DOMAIN in["rules"] : in["rules"][i].enabled # FALSE
            THEN {} ELSE {"NO_ENABLED_RULES"})

LEMMA FindingsAre ==
  \A in : Findings(in) =
            {Finding(c, NULL) : c \in Plain(in)} \union
            UNION {{Finding(c, h) : c \in HistoryFindings(in, h, ResolvedFacts(in))} : h \in Histories}
<1> SUFFICES ASSUME NEW in
             PROVE  Findings(in) =
                      {Finding(c, NULL) : c \in Plain(in)} \union
                      UNION {{Finding(c, h) : c \in HistoryFindings(in, h, ResolvedFacts(in))} : h \in Histories}
  OBVIOUS
<1>1. {FindingsOf(in, facts, fields) : facts \in {ResolvedFacts(in)}, fields \in {Fields(in)}}
        = {FindingsOf(in, ResolvedFacts(in), Fields(in))}
  OBVIOUS
<1>2. Findings(in) = FindingsOf(in, ResolvedFacts(in), Fields(in))
  BY <1>1, TheOnly DEF Findings
<1> QED BY <1>2, Zenon DEF FindingsOf, Plain

\* The same operators, of the parts that they read.
SupplierFindingsOf(avail, block, facts) ==
    IF block # "NONE" THEN IF avail = "absent" THEN {} ELSE {block}
    ELSE IF Present(facts["invoice.supplier_tax_id"]) /\ facts["supplier.id"].state = "ambiguous"
         THEN {"SUPPLIER_IDENTITY_AMBIGUOUS"} ELSE {}
OrderFindingsOf(avail, block, facts) ==
    (IF block # "NONE" THEN IF avail = "absent" THEN {} ELSE {block}
     ELSE IF Present(facts["invoice.order_reference"]) /\ facts["order.id"].state = "ambiguous"
          THEN {"ORDER_IDENTITY_AMBIGUOUS"} ELSE {})
    \union (IF /\ facts["order.supplier_id"].value # NULL /\ facts["supplier.id"].value # NULL
               /\ facts["order.supplier_id"].value # facts["supplier.id"].value
            THEN {"ORDER_SUPPLIER_MISMATCH"} ELSE {})
ErpFindingsOf(avail, authority, complete, fact) ==
    IF avail = "absent" THEN {}
    ELSE IF avail # "available" THEN {"ERP_UNAVAILABLE"}
    ELSE IF ~authority THEN {}
    ELSE IF ~complete THEN {"ERP_INSUFFICIENT_COVERAGE"}
    ELSE IF fact.state = "ambiguous" THEN {"ERP_STATUS_CONFLICT"} ELSE {}
HistoryFindingsOf(avail, authority, complete, right, doubtful, present, malformed) ==
    IF avail = "absent" THEN {}
    ELSE IF avail # "available" THEN {"HISTORY_UNAVAILABLE"}
    ELSE IF ~authority THEN {}
    ELSE IF ~complete THEN {"HISTORY_INSUFFICIENT_COVERAGE"}
    ELSE IF ~right THEN {"HISTORY_KIND_MISMATCH"}
    ELSE IF doubtful THEN {"HISTORY_INPUT_UNCERTAIN"}
    ELSE IF present /\ malformed THEN {"HISTORY_RECORDS_MALFORMED"} ELSE {}
LooseLinks(lines, taxes, lineFacts, taxFacts, fields) ==
    LET Loose(fact) == Present(fact) /\ fact.quality = "unlinked"
    IN  IF \/ \E f \in DOMAIN fields : Loose(fields[f])
           \/ \E i \in DOMAIN lines : Loose(lineFacts[i])
           \/ \E i \in DOMAIN taxes : Loose(taxFacts[i].kind) \/ Loose(taxFacts[i].amount)
        THEN {"MISSING_EVIDENCE_LINK"} ELSE {}

LEMMA FindingsOfParts ==
  /\ \A in, facts : SupplierFindings(in, facts) =
                      SupplierFindingsOf(in["suppliers"].avail, SupplierBlock(in), facts)
  /\ \A in, facts : OrderFindings(in, facts) = OrderFindingsOf(in["orders"].avail, OrderBlock(in), facts)
  /\ \A in, fact : ErpFindings(in, fact) =
       ErpFindingsOf(in["erp"].avail, "order.payment_status" \in in["erp"].auth, Complete(in["erp"]), fact)
  /\ \A in, h, facts :
       HistoryFindings(in, h, facts) =
         HistoryFindingsOf(in[h].avail, ("history." \o h) \in in[h].auth, Complete(in[h]), in[h].kind = h,
                           Doubtful(facts), \A f \in HistoryKeys : Present(facts[f]), HistoryMalformed(in, h))
  /\ \A in, fields : MissingLinks(in, fields) =
       LooseLinks(in["lines"], in["taxes"], LineFacts(in), TaxFacts(in), fields)
<1>1. \A in, facts : SupplierFindings(in, facts) =
                       SupplierFindingsOf(in["suppliers"].avail, SupplierBlock(in), facts)
  BY DEF SupplierFindings, SupplierFindingsOf, SupplierBlock
<1>2. \A in, facts : OrderFindings(in, facts) = OrderFindingsOf(in["orders"].avail, OrderBlock(in), facts)
  BY DEF OrderFindings, OrderFindingsOf, OrderBlock
<1>3. \A in, fact : ErpFindings(in, fact) =
        ErpFindingsOf(in["erp"].avail, "order.payment_status" \in in["erp"].auth, Complete(in["erp"]), fact)
  BY DEF ErpFindings, ErpFindingsOf
<1>4. \A in, h, facts :
        HistoryFindings(in, h, facts) =
          HistoryFindingsOf(in[h].avail, ("history." \o h) \in in[h].auth, Complete(in[h]), in[h].kind = h,
                            Doubtful(facts), \A f \in HistoryKeys : Present(facts[f]), HistoryMalformed(in, h))
  BY DEF HistoryFindings, HistoryFindingsOf, Doubtful
<1>5. \A in, fields : MissingLinks(in, fields) =
        LooseLinks(in["lines"], in["taxes"], LineFacts(in), TaxFacts(in), fields)
  BY DEF MissingLinks, LooseLinks
<1> QED BY <1>1, <1>2, <1>3, <1>4, <1>5, Zenon

LEMMA FactsSame ==
  ASSUME NEW o, NEW n, AllKept(o, n), SameAuthority(o, n)
  PROVE  ResolvedFacts(n) = ResolvedFacts(o) /\ Fields(n) = Fields(o)
<1>1. \A f \in Names : ResolvedFacts(n)[f] = ResolvedFacts(o)[f]
  BY ResolvedKept
<1>2. \A in : DOMAIN ResolvedFacts(in) = Names
  BY ResolvedFactsAre
<1>3. \A in : ResolvedFacts(in) = [f \in Names |-> ResolvedFacts(in)[f]]
  <2> TAKE in
  <2> DEFINE facts == WithMasters(in, PrintedFacts(in))
  <2>1. ResolvedFacts(in) = [f \in DOMAIN facts \union {HistoryField[h] : h \in Histories} |->
             IF f \in DOMAIN facts THEN facts[f]
             ELSE HistoryFact(in, CHOOSE h \in Histories : HistoryField[h] = f, facts)]
    BY ResolvedIs
  <2> QED BY <1>2, <2>1
<1>4. ResolvedFacts(n) = ResolvedFacts(o)
  BY <1>1, <1>3
<1> QED BY <1>4, FieldsAre

LEMMA FindingsSame ==
  ASSUME NEW o, NEW n, AllKept(o, n), SameAuthority(o, n)
  PROVE  Findings(n) = Findings(o)
<1>1. ResolvedFacts(n) = ResolvedFacts(o) /\ Fields(n) = Fields(o)
  BY FactsSame
<1>2. /\ PrintedAlike(o, n)
      /\ n["rules"] = o["rules"] /\ n["lines"] = o["lines"] /\ n["taxes"] = o["taxes"]
      /\ n["file_id"] = o["file_id"]
  BY DEF AllKept, PrintedAlike, PrintParts
<1>3. \A s \in Snapshots : Kept(s, o[s], n[s]) /\ n[s].auth = o[s].auth
  BY DEF AllKept, SameAuthority
<1> DEFINE facts == ResolvedFacts(o)
<1>4. SupplierFindings(n, facts) = SupplierFindings(o, facts)
  <2>1. n["suppliers"].avail = o["suppliers"].avail /\ SupplierBlock(n) = SupplierBlock(o)
    BY <1>3, SupplierKept DEF Snapshots, Kept
  <2> QED BY <2>1, FindingsOfParts
<1>5. OrderFindings(n, facts) = OrderFindings(o, facts)
  <2>1. n["orders"].avail = o["orders"].avail /\ OrderBlock(n) = OrderBlock(o)
    BY <1>3, OrderKept DEF Snapshots, Kept
  <2> QED BY <2>1, FindingsOfParts
<1>6. ErpFindings(n, facts["erp.order_payment_status"]) = ErpFindings(o, facts["erp.order_payment_status"])
  <2>1. Kept("erp", o["erp"], n["erp"]) /\ n["erp"].auth = o["erp"].auth
    BY <1>3 DEF Snapshots
  <2>2. /\ n["erp"].avail = o["erp"].avail
        /\ "order.payment_status" \in n["erp"].auth => (Complete(n["erp"]) <=> Complete(o["erp"]))
    BY <2>1 DEF Kept, ScopeOf
  <2> QED BY <2>1, <2>2, FindingsOfParts DEF ErpFindingsOf
<1>7. ASSUME NEW h \in Histories PROVE HistoryFindings(n, h, facts) = HistoryFindings(o, h, facts)
  <2>1. Kept(h, o[h], n[h]) /\ n[h].auth = o[h].auth
    BY <1>3 DEF Snapshots
  <2>0. h \notin {"suppliers", "orders"} /\ ScopeOf(h) = "history." \o h
    BY DEF ScopeOf, Histories
  <2>2. /\ n[h].avail = o[h].avail /\ n[h].kind = o[h].kind
        /\ n[h].include = o[h].include /\ n[h].rows = o[h].rows
        /\ ScopeOf(h) \in n[h].auth => (Complete(n[h]) <=> Complete(o[h]))
    BY <2>0, <2>1 DEF Kept
  <2>3. HistoryMalformed(n, h) <=> HistoryMalformed(o, h)
    BY <1>2, <2>2, MatchesAre
  <2>4. \A in : HistoryFindings(in, h, facts) =
          HistoryFindingsOf(in[h].avail, ScopeOf(h) \in in[h].auth, Complete(in[h]), in[h].kind = h,
                            Doubtful(facts), \A f \in HistoryKeys : Present(facts[f]), HistoryMalformed(in, h))
    BY <2>0, FindingsOfParts, Zenon
  <2> QED BY <2>0, <2>1, <2>2, <2>3, <2>4 DEF HistoryFindingsOf
<1>8. MissingLinks(n, Fields(o)) = MissingLinks(o, Fields(o))
  BY <1>2, FindingsOfParts, LinesAlike, TaxesAlike
<1>9. Plain(n) = Plain(o)
  <2> DEFINE Of(a, s, t, e, m, rules) ==
        a \union s \union t \union e \union m
        \union (IF \E i \in DOMAIN rules : rules[i].enabled # FALSE THEN {} ELSE {"NO_ENABLED_RULES"})
  <2>1. \A in : Plain(in) =
          Of(AcquisitionFindings(in), SupplierFindings(in, ResolvedFacts(in)),
             OrderFindings(in, ResolvedFacts(in)),
             ErpFindings(in, ResolvedFacts(in)["erp.order_payment_status"]),
             MissingLinks(in, Fields(in)), in["rules"])
    BY DEF Plain
  <2> HIDE DEF Of
  <2> QED BY <1>1, <1>2, <1>4, <1>5, <1>6, <1>8, <2>1, AcquisitionAlike
<1> QED BY <1>1, <1>7, <1>9, FindingsAre

----------------------------------------------------------------------------
(* What is recommended on an input.                                           *)

Advice(in, crash) == Aggregate(Executed(in, crash), Outstanding(in, Findings(in), Executed(in, crash)))

LEMMA AdviceIs ==
  ASSUME NEW in, NEW crash
  PROVE  LET res == Executed(in, crash)
         IN  /\ Advice(in, crash) \in Decisions
             /\ DOMAIN res = DOMAIN EnabledRules(in)
             /\ Advice(in, crash) = "PAGAR" =>
                  /\ Outstanding(in, Findings(in), res) = {}
                  /\ \A i \in DOMAIN res : res[i].complete /\ res[i].status \in {"PASS", "NOT_APPLICABLE"}
             /\ Advice(in, crash) = "NO_PAGAR" =>
                  \E i \in DOMAIN res : res[i].status = "VIOLATED" /\ EnabledRules(in)[i].onFail = "NO_PAGAR"
<1> DEFINE res == Executed(in, crash)
           outstanding == Outstanding(in, Findings(in), res)
<1>1. /\ DOMAIN res = DOMAIN EnabledRules(in)
      /\ \A i \in DOMAIN res : Ended(EnabledRules(in)[i], res[i])
  BY ExecutedIs, OutcomeEnds
<1>2. Advice(in, crash) = Aggregate(res, outstanding)
  BY DEF Advice
<1> HIDE DEF outstanding, res
<1>3. \A i \in DOMAIN res : res[i].consequence \in Decisions \union {NULL}
  BY <1>1 DEF Ended
<1>4. /\ Advice(in, crash) \in Decisions
      /\ Advice(in, crash) = "PAGAR" =>
           /\ outstanding = {}
           /\ \A i \in DOMAIN res : res[i].complete /\ res[i].consequence \in {NULL, "PAGAR"}
      /\ Advice(in, crash) = "NO_PAGAR" => \E i \in DOMAIN res : res[i].consequence = "NO_PAGAR"
  BY <1>2, <1>3, AggregateIs
<1> QED BY <1>1, <1>4 DEF Ended, outstanding, res

Raises(in, crash) ==
    \E i \in DOMAIN Executed(in, crash) : Executed(in, crash)[i].status = "ERROR"

\* Nobody's crash matters to a rule that did not raise.
LEMMA CrashlessIs ==
  ASSUME NEW in, NEW rule, NEW crash, Outcome(in, rule, crash).status # "ERROR"
  PROVE  /\ rule.id # crash
         /\ \A other : rule.id # other => Outcome(in, rule, other) = Outcome(in, rule, crash)
<1>1. rule.id # crash
  BY ResultFields DEF Outcome
<1>2. ASSUME NEW other, rule.id # other PROVE Outcome(in, rule, other) = Outcome(in, rule, crash)
  BY <1>1, <1>2, Zenon DEF Outcome
<1> QED BY <1>1, <1>2

LEMMA OutstandingSame ==
  ASSUME NEW o, NEW n, Observations(n) = Observations(o)
  PROVE  \A findings, res : Outstanding(n, findings, res) = Outstanding(o, findings, res)
<1> DEFINE Of(seen0, findings, res) ==
      The({{f \in findings : ~Retired(f, seen)} : seen \in {seen0}})
      \union {Finding("UNRESOLVED", res[i].rule) : i \in {j \in DOMAIN res : ~res[j].complete}}
      \union (IF res # <<>> /\ \A i \in DOMAIN res : res[i].status = "NOT_APPLICABLE"
              THEN {Finding("NO_APPLICABLE_RULES", NULL)} ELSE {})
      \union (IF res = <<>> THEN {Finding("NO_ENABLED_RULES", NULL)} ELSE {})
<1>1. \A in, findings, res : Outstanding(in, findings, res) = Of(Observations(in), findings, res)
  BY DEF Outstanding
<1> HIDE DEF Of
<1> QED BY <1>1

(* With the same authority, what may be paid of the weaker input may be paid   *)
(* of the stronger one.                                                        *)
LEMMA SameAuthoritySamePay ==
  ASSUME NEW o, NEW n, AllKept(o, n), SameAuthority(o, n), NEW c, NEW d,
         Advice(n, d) = "PAGAR", ~Raises(o, c)
  PROVE  Advice(o, c) = "PAGAR"
<1> DEFINE rules == EnabledRules(o)
           was == Executed(o, c)
           now == Executed(n, d)
<1>1. EnabledRules(n) = rules
  BY WorldKept
<1>2. /\ was = [i \in DOMAIN rules |-> Outcome(o, rules[i], c)]
      /\ now = [i \in DOMAIN rules |-> Outcome(n, rules[i], d)]
  BY <1>1, ExecutedIs
<1>3. /\ \A i \in DOMAIN now : now[i].status \in {"PASS", "NOT_APPLICABLE"}
      /\ \A i \in DOMAIN was : was[i].status # "ERROR"
  BY AdviceIs DEF Raises
<1> HIDE DEF was, now, rules
<1>4. ASSUME NEW i \in DOMAIN rules PROVE Outcome(n, rules[i], d) = Outcome(o, rules[i], c)
  <2>1. Outcome(o, rules[i], c).status # "ERROR" /\ Outcome(n, rules[i], d).status # "ERROR"
    BY <1>2, <1>3
  <2>2. rules[i].id # c /\ rules[i].id # d
    BY <2>1, CrashlessIs
  <2>3. Outcome(n, rules[i], c) = Outcome(n, rules[i], d)
    BY <2>1, <2>2, CrashlessIs
  <2> QED BY <2>3, OutcomesSame
<1>5. now = was
  BY <1>2, <1>4
<1>6. Findings(n) = Findings(o) /\ Observations(n) = Observations(o)
  BY FindingsSame, ObservationsKept
<1>7. Outstanding(n, Findings(n), now) = Outstanding(o, Findings(o), was)
  BY <1>5, <1>6, OutstandingSame
<1> QED BY <1>5, <1>7 DEF Advice, was, now

----------------------------------------------------------------------------
(* A rule that is violated stays in doubt when its facts are lost: what failed *)
(* fails again, or cannot be asserted any more.                                *)

FieldsKept(now, was) ==
    /\ \A f \in Names : SameOrLost(now[f], was[f])
    /\ \A f \in Roots : now[f] = was[f]

Fails(steps)     == \E s \in steps : s.verdict = "FAIL"
InDoubt(steps)   == \E s \in steps : s.verdict \in {"FAIL", "BLOCKED"}
Stands(now, was) == Fails(was) => InDoubt(now)

LEMMA StandsIs ==
  /\ \A steps : Stands(steps, steps) /\ Stands(steps, {})
  /\ \A now, was : InDoubt(now) => Stands(now, was)
  /\ \A a, b, c, d : Stands(a, b) /\ Stands(c, d) => Stands(a \union c, b \union d)
  BY DEF Stands, Fails, InDoubt

LEMMA BlockedIsDoubt == \A code, uses : InDoubt({Step("BLOCKED", code, uses)})
  BY StepIs DEF InDoubt

LEMMA ClaimStands ==
  ASSUME NEW uses \in SUBSET Names, NEW now, NEW was, \A f \in Names : SameOrLost(now[f], was[f]),
         NEW new, NEW old, NEW failure, NEW code,
         (\A f \in uses : now[f] = was[f]) => new = old
  PROVE  Stands(Claim(now, uses, new, failure, code), Claim(was, uses, old, failure, code))
<1>1. CASE \A f \in uses : now[f] = was[f]
  <2>1. new = old
    BY <1>1
  <2>2. Claim(now, uses, old, failure, code) = Claim(was, uses, old, failure, code)
    BY <1>1 DEF Claim
  <2> QED BY <2>1, <2>2, StandsIs
<1>2. CASE \E f \in uses : now[f].state = "unavailable"
  <2>1. ~ \A f \in uses : Usable(now[f])
    BY <1>2 DEF Usable, Present
  <2>2. Claim(now, uses, new, failure, code) = {Step("BLOCKED", "UNUSABLE_INPUT", uses)}
    BY <2>1, Zenon DEF Claim
  <2> QED BY <2>2, BlockedIsDoubt, StandsIs
<1> QED BY <1>1, <1>2 DEF SameOrLost

LEMMA FieldNames ==
  /\ {"supplier.id", "supplier.tax_id", "supplier.iban", "supplier.active",
      "supplier.payment_terms_days"} \subseteq Names
  /\ {"invoice.supplier_tax_id", "invoice.iban", "invoice.order_reference", "invoice.currency",
      "invoice.total", "invoice.taxable_base", "invoice.issue_date", "invoice.vat_amount",
      "invoice.line_amounts", "supplier.id", "order.id"} \subseteq Roots
  /\ {"order.supplier_id", "order.total", "order.currency", "erp.order_payment_status"} \subseteq Names
  /\ Roots \subseteq Names
  BY DEF Names, Roots, MasterNames, PrintedNames, InvoiceScalars, TextFields, SupplierFields, OrderFields

LEMMA VendorStands ==
  ASSUME NEW now, NEW was, FieldsKept(now, was), NEW p
  PROVE  Stands(Vendor(p, now), Vendor(p, was))
<1> DEFINE c1(fields) == Claim(fields, {"supplier.id"}, TRUE, "FAIL", "SUPPLIER_UNRESOLVED")
           c2(fields) == Claim(fields, {"invoice.supplier_tax_id", "supplier.tax_id"},
                               fields["invoice.supplier_tax_id"].value = fields["supplier.tax_id"].value,
                               "FAIL", "TAX_ID_MISMATCH")
           c3(fields) == Claim(fields, {"invoice.supplier_tax_id"},
                               fields["invoice.supplier_tax_id"].value \in ControlOk,
                               "FAIL", "NIF_CONTROL_MISMATCH")
           c4(fields) == Claim(fields, {"invoice.iban", "supplier.iban"},
                               fields["invoice.iban"].value = fields["supplier.iban"].value,
                               "FAIL", "IBAN_MISMATCH")
           c5(fields) == Claim(fields, {"supplier.active"}, fields["supplier.active"].value = TRUE,
                               "FAIL", "SUPPLIER_INACTIVE")
           If(asked, steps) == IF asked THEN steps ELSE {}
<1>1. \A fields : Vendor(p, fields) =
                    c1(fields) \union If(p["require_nif_in_master"], c2(fields))
                    \union If(p["check_nif_control_digit"], c3(fields))
                    \union If(p["require_iban_match"], c4(fields))
                    \union If(p["require_active"], c5(fields))
  BY Zenon DEF Vendor
<1>2. \A f \in Names : SameOrLost(now[f], was[f])
  BY DEF FieldsKept
<1>3. Stands(c1(now), c1(was))
  <2>1. PICK yes : yes = TRUE
    OBVIOUS
  <2>2. {"supplier.id"} \in SUBSET Names
    BY FieldNames
  <2>3. Stands(Claim(now, {"supplier.id"}, yes, "FAIL", "SUPPLIER_UNRESOLVED"),
               Claim(was, {"supplier.id"}, yes, "FAIL", "SUPPLIER_UNRESOLVED"))
    BY <1>2, <2>2, ClaimStands
  <2> QED BY <2>1, <2>3
<1>4. Stands(c2(now), c2(was))
  <2> DEFINE uses == {"invoice.supplier_tax_id", "supplier.tax_id"}
  <2>1. PICK new : new = (now["invoice.supplier_tax_id"].value = now["supplier.tax_id"].value)
    OBVIOUS
  <2>2. PICK old : old = (was["invoice.supplier_tax_id"].value = was["supplier.tax_id"].value)
    OBVIOUS
  <2>3. uses \in SUBSET Names /\ ((\A f \in uses : now[f] = was[f]) => new = old)
    BY <2>1, <2>2, FieldNames
  <2>4. Stands(Claim(now, uses, new, "FAIL", "TAX_ID_MISMATCH"), Claim(was, uses, old, "FAIL", "TAX_ID_MISMATCH"))
    BY <1>2, <2>3, ClaimStands
  <2> QED BY <2>1, <2>2, <2>4
<1>5. Stands(c3(now), c3(was))
  <2> DEFINE uses == {"invoice.supplier_tax_id"}
  <2>1. PICK new : new = (now["invoice.supplier_tax_id"].value \in ControlOk)
    OBVIOUS
  <2>2. PICK old : old = (was["invoice.supplier_tax_id"].value \in ControlOk)
    OBVIOUS
  <2>3. uses \in SUBSET Names /\ ((\A f \in uses : now[f] = was[f]) => new = old)
    BY <2>1, <2>2, FieldNames
  <2>4. Stands(Claim(now, uses, new, "FAIL", "NIF_CONTROL_MISMATCH"), Claim(was, uses, old, "FAIL", "NIF_CONTROL_MISMATCH"))
    BY <1>2, <2>3, ClaimStands
  <2> QED BY <2>1, <2>2, <2>4
<1>6. Stands(c4(now), c4(was))
  <2> DEFINE uses == {"invoice.iban", "supplier.iban"}
  <2>1. PICK new : new = (now["invoice.iban"].value = now["supplier.iban"].value)
    OBVIOUS
  <2>2. PICK old : old = (was["invoice.iban"].value = was["supplier.iban"].value)
    OBVIOUS
  <2>3. uses \in SUBSET Names /\ ((\A f \in uses : now[f] = was[f]) => new = old)
    BY <2>1, <2>2, FieldNames
  <2>4. Stands(Claim(now, uses, new, "FAIL", "IBAN_MISMATCH"), Claim(was, uses, old, "FAIL", "IBAN_MISMATCH"))
    BY <1>2, <2>3, ClaimStands
  <2> QED BY <2>1, <2>2, <2>4
<1>7. Stands(c5(now), c5(was))
  <2> DEFINE uses == {"supplier.active"}
  <2>1. PICK new : new = (now["supplier.active"].value = TRUE)
    OBVIOUS
  <2>2. PICK old : old = (was["supplier.active"].value = TRUE)
    OBVIOUS
  <2>3. uses \in SUBSET Names /\ ((\A f \in uses : now[f] = was[f]) => new = old)
    BY <2>1, <2>2, FieldNames
  <2>4. Stands(Claim(now, uses, new, "FAIL", "SUPPLIER_INACTIVE"), Claim(was, uses, old, "FAIL", "SUPPLIER_INACTIVE"))
    BY <1>2, <2>3, ClaimStands
  <2> QED BY <2>1, <2>2, <2>4
<1>8. \A asked, a, b : Stands(a, b) => Stands(If(asked, a), If(asked, b))
  BY StandsIs
<1> HIDE DEF c1, c2, c3, c4, c5, If
<1>9. /\ Stands(If(p["require_nif_in_master"], c2(now)), If(p["require_nif_in_master"], c2(was)))
      /\ Stands(If(p["check_nif_control_digit"], c3(now)), If(p["check_nif_control_digit"], c3(was)))
      /\ Stands(If(p["require_iban_match"], c4(now)), If(p["require_iban_match"], c4(was)))
      /\ Stands(If(p["require_active"], c5(now)), If(p["require_active"], c5(was)))
  BY <1>4, <1>5, <1>6, <1>7, <1>8
<1> DEFINE s2(fields) == If(p["require_nif_in_master"], c2(fields))
           s3(fields) == If(p["check_nif_control_digit"], c3(fields))
           s4(fields) == If(p["require_iban_match"], c4(fields))
           s5(fields) == If(p["require_active"], c5(fields))
<1>10. \A fields : Vendor(p, fields) = c1(fields) \union s2(fields) \union s3(fields) \union s4(fields) \union s5(fields)
  BY <1>1
<1>11. Stands(s2(now), s2(was)) /\ Stands(s3(now), s3(was)) /\ Stands(s4(now), s4(was)) /\ Stands(s5(now), s5(was))
  BY <1>9
<1> HIDE DEF s2, s3, s4, s5
<1>12. Stands(c1(now) \union s2(now) \union s3(now) \union s4(now) \union s5(now),
              c1(was) \union s2(was) \union s3(was) \union s4(was) \union s5(was))
  BY <1>3, <1>11 DEF Stands, Fails, InDoubt
<1> QED BY <1>10, <1>12

LEMMA ErpPendingStands ==
  ASSUME NEW now, NEW was, FieldsKept(now, was)
  PROVE  Stands(ErpPending(now), ErpPending(was))
<1> DEFINE uses == {"invoice.order_reference", "order.id", "order.supplier_id", "supplier.id",
                    "erp.order_payment_status"}
<1>1. uses \subseteq Names /\ \A f \in Names : SameOrLost(now[f], was[f])
  BY FieldNames DEF FieldsKept
<1>2. CASE \A f \in uses : now[f] = was[f]
  <2>1. ErpPending(now) = ErpPending(was)
    BY <1>2 DEF ErpPending
  <2> QED BY <2>1, StandsIs
<1>3. CASE \E f \in uses : now[f].state = "unavailable"
  <2>1. ~ \A f \in uses : Usable(now[f])
    BY <1>3 DEF Usable, Present
  <2>2. ErpPending(now) = {Step("BLOCKED", "ERP_PAYMENT_STATE_UNUSABLE", uses)}
    BY <2>1, Zenon DEF ErpPending
  <2> QED BY <2>2, BlockedIsDoubt, StandsIs
<1> QED BY <1>1, <1>2, <1>3 DEF SameOrLost

LEMMA NotSeenIsDoubt == \A h : InDoubt(HistorySteps(h, NotSeen))
<1> TAKE h
<1>1. NotSeen.coverage = "unavailable"
  BY DEF NotSeen
<1>2. Step("BLOCKED", "HISTORY_COVERAGE_INCOMPLETE", HardFields) \in HistorySteps(h, NotSeen)
  BY <1>1, Zenon DEF HistorySteps
<1> QED BY <1>2, StepIs DEF InDoubt

LEMMA DuplicatesStand ==
  ASSUME NEW o, NEW n, AllKept(o, n), NEW p, FieldsKept(ExecFields(n), ExecFields(o))
  PROVE  Stands(Duplicates(p, ExecFields(n), Observations(n), Captured(n)),
                Duplicates(p, ExecFields(o), Observations(o), Captured(o)))
<1> DEFINE now == ExecFields(n)
           was == ExecFields(o)
           hs  == {"processed"} \union Captured(o)
           erp(fields) == IF p["require_erp_pending"] THEN ErpPending(fields) ELSE {}
           told(seen)  == UNION {HistorySteps(h, seen[h]) : h \in hs}
<1>1. /\ Duplicates(p, now, Observations(n), Captured(n)) = erp(now) \union told(Observations(n))
      /\ Duplicates(p, was, Observations(o), Captured(o)) = erp(was) \union told(Observations(o))
  <2>1. Captured(n) = Captured(o)
    BY WorldKept
  <2>2. \A fields, seen : Duplicates(p, fields, seen, Captured(o)) = erp(fields) \union told(seen)
    BY Zenon DEF Duplicates
  <2> QED BY <2>1, <2>2
<1>2. Stands(erp(now), erp(was))
  BY ErpPendingStands, StandsIs
<1>3. hs \subseteq Histories
  BY DEF Captured, Histories
<1>4. \A h \in hs : Observations(n)[h] = Observations(o)[h] \/ Observations(n)[h] = NotSeen
  BY <1>3, ObservationsKept
<1> HIDE DEF hs
<1>5. Stands(told(Observations(n)), told(Observations(o)))
  <2>1. CASE \A h \in hs : Observations(n)[h] = Observations(o)[h]
    <3>1. told(Observations(n)) = told(Observations(o))
      BY <2>1
    <3> QED BY <3>1, StandsIs
  <2>2. CASE \E h \in hs : Observations(n)[h] = NotSeen
    <3>1. PICK h \in hs : Observations(n)[h] = NotSeen
      BY <2>2
    <3>2. InDoubt(HistorySteps(h, Observations(n)[h]))
      BY <3>1, NotSeenIsDoubt
    <3>3. HistorySteps(h, Observations(n)[h]) \subseteq told(Observations(n))
      OBVIOUS
    <3> HIDE DEF told
    <3>4. InDoubt(told(Observations(n)))
      BY <3>2, <3>3 DEF InDoubt
    <3> QED BY <3>4, StandsIs
  <2> QED BY <1>4, <2>1, <2>2
<1> HIDE DEF erp, told
<1> QED BY <1>1, <1>2, <1>5, StandsIs

LEMMA MonetaryIs ==
  \A p, fields, uses, difference, code :
    \E all : /\ uses \subseteq all
             /\ \/ InDoubt(Monetary(p, fields, uses, difference, code))
                   /\ ~Fails(Monetary(p, fields, uses, difference, code))
                \/ /\ \A f \in all : Usable(fields[f])
                   /\ Monetary(p, fields, uses, difference, code) =
                        {Step(IF Abs(difference) <= p["tolerance_eur"] THEN "PASS" ELSE "FAIL", code, all)}
<1> TAKE p, fields, uses, difference, code
<1> DEFINE borrowed == /\ "order.total" \in uses
                       /\ p["order_currency_policy"] = "invoice"
                       /\ fields["order.currency"].state \in {"missing", "unavailable"}
           currencies == {CurrencyField(f) : f \in uses} \ (IF borrowed THEN {"order.currency"} ELSE {})
           all == uses \union currencies
           blocked(why) == {Step("BLOCKED", why, all)}
           made == Monetary(p, fields, uses, difference, code)
<1>1. made = IF \E f \in all : ~Usable(fields[f]) THEN blocked("UNUSABLE_AMOUNT_INPUT")
             ELSE IF \E f \in currencies : fields[f].value # "EUR"
             THEN blocked("UNSUPPORTED_CURRENCY_COMPARISON")
             ELSE {Step(IF Abs(difference) <= p["tolerance_eur"] THEN "PASS" ELSE "FAIL", code, all)}
  BY Zenon DEF Monetary
<1>2. \A why : InDoubt(blocked(why)) /\ ~Fails(blocked(why))
  BY StepIs DEF InDoubt, Fails
<1>3. uses \subseteq all
  OBVIOUS
<1> HIDE DEF all, currencies, blocked, made
<1>4. \/ InDoubt(made) /\ ~Fails(made)
      \/ /\ \A f \in all : Usable(fields[f])
         /\ made = {Step(IF Abs(difference) <= p["tolerance_eur"] THEN "PASS" ELSE "FAIL", code, all)}
  BY <1>1, <1>2, Zenon
<1> QED BY <1>3, <1>4 DEF made

LEMMA MonetaryStands ==
  ASSUME NEW now, NEW was, FieldsKept(now, was), NEW uses \in SUBSET Names, NEW new, NEW old,
         (\A f \in uses : now[f] = was[f]) => new = old, NEW p, NEW code
  PROVE  Stands(Monetary(p, now, uses, new, code), Monetary(p, was, uses, old, code))
<1> DEFINE after == Monetary(p, now, uses, new, code)
           first == Monetary(p, was, uses, old, code)
<1>1. PICK a1 : /\ uses \subseteq a1
                /\ \/ InDoubt(after) /\ ~Fails(after)
                   \/ /\ \A f \in a1 : Usable(now[f])
                      /\ after = {Step(IF Abs(new) <= p["tolerance_eur"] THEN "PASS" ELSE "FAIL", code, a1)}
  BY MonetaryIs
<1>2. PICK a0 : /\ uses \subseteq a0
                /\ \/ InDoubt(first) /\ ~Fails(first)
                   \/ /\ \A f \in a0 : Usable(was[f])
                      /\ first = {Step(IF Abs(old) <= p["tolerance_eur"] THEN "PASS" ELSE "FAIL", code, a0)}
  BY MonetaryIs
<1> HIDE DEF after, first
<1>3. CASE InDoubt(after) \/ ~Fails(first)
  BY <1>3 DEF Stands, after, first
<1>4. CASE ~InDoubt(after) /\ Fails(first)
  <2>1. \A f \in uses : now[f] = was[f]
    <3>1. \A f \in uses : Usable(now[f])
      BY <1>1, <1>4
    <3> QED BY <3>1 DEF Usable, Present, FieldsKept, SameOrLost
  <2>2. new = old
    BY <2>1
  <2>3. ~(Abs(old) <= p["tolerance_eur"])
    BY <1>2, <1>4, StepIs DEF Fails
  <2>4. after = {Step("FAIL", code, a1)}
    BY <1>1, <1>4, <2>2, <2>3
  <2>5. InDoubt(after)
    BY <2>4, StepIs DEF InDoubt
  <2> QED BY <1>4, <2>5
<1> QED BY <1>3, <1>4

LEMMA VatStands ==
  ASSUME NEW now, NEW was, FieldsKept(now, was), NEW p, NEW taxes
  PROVE  Vat(p, now, taxes) = Vat(p, was, taxes)
<1> DEFINE uses == {"invoice.taxable_base", "invoice.currency"}
           Lack(fields) == \E f \in uses : ~Usable(fields[f])
           Of(lack, base, currency) ==
             IF Len(taxes) # 1 \/ ~Usable(taxes[1].kind) \/ taxes[1].kind.value # "vat"
             THEN {Step("BLOCKED", "VAT_BASE_ALLOCATION_UNAVAILABLE", {})}
             ELSE IF ~Usable(taxes[1].rate) \/ ~Usable(taxes[1].amount) \/ lack
             THEN {Step("BLOCKED", "VAT_INPUT_UNUSABLE", uses)}
             ELSE IF currency # "EUR"
             THEN {Step("BLOCKED", "UNSUPPORTED_CURRENCY_COMPARISON", uses)}
             ELSE IF taxes[1].rate.value \notin 0 .. 100 THEN {Step("FAIL", "VAT_RATE_INVALID", uses)}
             ELSE {Step(IF Abs(taxes[1].amount.value - RoundHalfUp(base * taxes[1].rate.value, 100))
                             <= p["tolerance_eur"]
                        THEN "PASS" ELSE "FAIL", "VAT_AMOUNT_MISMATCH", uses)}
<1>1. \A fields : Vat(p, fields, taxes) =
                    Of(Lack(fields), fields["invoice.taxable_base"].value, fields["invoice.currency"].value)
  BY Zenon DEF Vat
<1>2. \A f \in uses : now[f] = was[f]
  BY FieldNames DEF FieldsKept
<1>3. Lack(now) = Lack(was)
  BY <1>2
<1>4. /\ now["invoice.taxable_base"].value = was["invoice.taxable_base"].value
      /\ now["invoice.currency"].value = was["invoice.currency"].value
  BY <1>2
<1> HIDE DEF Of, Lack
<1> QED BY <1>1, <1>3, <1>4, Zenon

\* What is owed is compared with the order of the supplier.
OrderSteps(p, fields) ==
    IF ~(/\ \A f \in OrderIdentity : Usable(fields[f])
         /\ fields["supplier.id"].value = fields["order.supplier_id"].value)
    THEN {Step("BLOCKED", "ORDER_IDENTITY_UNUSABLE", OrderIdentity)}
    ELSE Monetary(p, fields, {"invoice.total", "order.total"},
                  fields["invoice.total"].value - fields["order.total"].value, "ORDER_AMOUNT_MISMATCH")

LEMMA OrderStands ==
  ASSUME NEW now, NEW was, FieldsKept(now, was), NEW p
  PROVE  Stands(OrderSteps(p, now), OrderSteps(p, was))
<1> DEFINE owned(fields) == /\ \A f \in OrderIdentity : Usable(fields[f])
                            /\ fields["supplier.id"].value = fields["order.supplier_id"].value
           blocked == {Step("BLOCKED", "ORDER_IDENTITY_UNUSABLE", OrderIdentity)}
           gap(fields) == Monetary(p, fields, {"invoice.total", "order.total"},
                             fields["invoice.total"].value - fields["order.total"].value,
                             "ORDER_AMOUNT_MISMATCH")
<1>1. \A fields : OrderSteps(p, fields) = IF ~owned(fields) THEN blocked ELSE gap(fields)
  BY Zenon DEF OrderSteps
<1>2. InDoubt(blocked)
  BY BlockedIsDoubt
<1>3. owned(now) => owned(was)
  BY FieldNames DEF OrderIdentity, FieldsKept, SameOrLost, Usable, Present
<1>4. Stands(gap(now), gap(was))
  <2> DEFINE uses == {"invoice.total", "order.total"}
  <2>1. PICK new : new = now["invoice.total"].value - now["order.total"].value
    OBVIOUS
  <2>2. PICK old : old = was["invoice.total"].value - was["order.total"].value
    OBVIOUS
  <2>3. uses \in SUBSET Names /\ ((\A f \in uses : now[f] = was[f]) => new = old)
    BY <2>1, <2>2, FieldNames
  <2>4. Stands(Monetary(p, now, uses, new, "ORDER_AMOUNT_MISMATCH"),
               Monetary(p, was, uses, old, "ORDER_AMOUNT_MISMATCH"))
    BY <2>3, MonetaryStands
  <2> QED BY <2>1, <2>2, <2>4
<1> HIDE DEF owned, blocked, gap
<1>5. CASE owned(now)
  <2>1. OrderSteps(p, now) = gap(now) /\ OrderSteps(p, was) = gap(was)
    BY <1>1, <1>3, <1>5
  <2> QED BY <1>4, <2>1
<1>6. CASE ~owned(now)
  <2>1. OrderSteps(p, now) = blocked
    BY <1>1, <1>6
  <2> QED BY <1>2, <2>1, StandsIs
<1> QED BY <1>5, <1>6

LEMMA AmountStands ==
  ASSUME NEW now, NEW was, FieldsKept(now, was), NEW p, NEW taxes
  PROVE  Stands(Amount(p, now, taxes), Amount(p, was, taxes))
<1> DEFINE lines == {"invoice.line_amounts", "invoice.taxable_base"}
           sums  == {"invoice.taxable_base", "invoice.vat_amount", "invoice.total"}
           c1(fields) == Claim(fields, {"invoice.currency"},
                               fields["invoice.currency"].value \in p["allowed_currencies"],
                               "FAIL", "CURRENCY_NOT_ALLOWED")
           c3(fields) == Monetary(p, fields, lines, SumOf(fields["invoice.line_amounts"].value)
                                                      - fields["invoice.taxable_base"].value,
                                  "LINE_SUM_MISMATCH")
           c4(fields) == Monetary(p, fields, sums,
                                  fields["invoice.taxable_base"].value + fields["invoice.vat_amount"].value
                                    - fields["invoice.total"].value,
                                  "TOTAL_MISMATCH")
           s1(fields) == IF p["allowed_currencies"] # {} THEN c1(fields) ELSE {}
           s2(fields) == IF p["check_iva"] THEN Vat(p, fields, taxes) ELSE {}
           s3(fields) == IF p["check_line_items_sum"] THEN c3(fields) ELSE {}
           s4(fields) == IF p["check_total_is_base_plus_iva"] THEN c4(fields) ELSE {}
           s5(fields) == IF ~p["check_matches_pedido"] THEN {} ELSE OrderSteps(p, fields)
<1>1. \A fields : Amount(p, fields, taxes) =
                    s1(fields) \union s2(fields) \union s3(fields) \union s4(fields) \union s5(fields)
  BY Zenon DEF Amount, OrderSteps
<1>2. \A f \in Names : SameOrLost(now[f], was[f])
  BY DEF FieldsKept
<1>3. Stands(s1(now), s1(was))
  <2> DEFINE uses == {"invoice.currency"}
  <2>1. PICK new : new = (now["invoice.currency"].value \in p["allowed_currencies"])
    OBVIOUS
  <2>2. PICK old : old = (was["invoice.currency"].value \in p["allowed_currencies"])
    OBVIOUS
  <2>3. uses \in SUBSET Names /\ ((\A f \in uses : now[f] = was[f]) => new = old)
    BY <2>1, <2>2, FieldNames
  <2>4. Stands(Claim(now, uses, new, "FAIL", "CURRENCY_NOT_ALLOWED"),
               Claim(was, uses, old, "FAIL", "CURRENCY_NOT_ALLOWED"))
    BY <1>2, <2>3, ClaimStands
  <2>5. Stands(c1(now), c1(was))
    BY <2>1, <2>2, <2>4
  <2> HIDE DEF c1
  <2> QED BY <2>5, StandsIs
<1>4. Stands(s2(now), s2(was))
  BY VatStands, StandsIs
<1>5. Stands(s3(now), s3(was))
  <2>1. PICK new : new = SumOf(now["invoice.line_amounts"].value) - now["invoice.taxable_base"].value
    OBVIOUS
  <2>2. PICK old : old = SumOf(was["invoice.line_amounts"].value) - was["invoice.taxable_base"].value
    OBVIOUS
  <2>3. lines \in SUBSET Names /\ ((\A f \in lines : now[f] = was[f]) => new = old)
    BY <2>1, <2>2, FieldNames
  <2>4. Stands(Monetary(p, now, lines, new, "LINE_SUM_MISMATCH"), Monetary(p, was, lines, old, "LINE_SUM_MISMATCH"))
    BY <2>3, MonetaryStands
  <2>5. Stands(c3(now), c3(was))
    BY <2>1, <2>2, <2>4
  <2> HIDE DEF c3
  <2> QED BY <2>5, StandsIs
<1>6. Stands(s4(now), s4(was))
  <2>1. PICK new : new = now["invoice.taxable_base"].value + now["invoice.vat_amount"].value
                           - now["invoice.total"].value
    OBVIOUS
  <2>2. PICK old : old = was["invoice.taxable_base"].value + was["invoice.vat_amount"].value
                           - was["invoice.total"].value
    OBVIOUS
  <2>3. sums \in SUBSET Names /\ ((\A f \in sums : now[f] = was[f]) => new = old)
    BY <2>1, <2>2, FieldNames
  <2>4. Stands(Monetary(p, now, sums, new, "TOTAL_MISMATCH"), Monetary(p, was, sums, old, "TOTAL_MISMATCH"))
    BY <2>3, MonetaryStands
  <2>5. Stands(c4(now), c4(was))
    BY <2>1, <2>2, <2>4
  <2> HIDE DEF c4
  <2> QED BY <2>5, StandsIs
<1>7. Stands(s5(now), s5(was))
  BY OrderStands, StandsIs
<1> HIDE DEF s1, s2, s3, s4, s5
<1>8. Stands(s1(now) \union s2(now) \union s3(now) \union s4(now) \union s5(now),
             s1(was) \union s2(was) \union s3(was) \union s4(was) \union s5(was))
  BY <1>3, <1>4, <1>5, <1>6, <1>7 DEF Stands, Fails, InDoubt
<1> QED BY <1>1, <1>8

LEMMA AuthorizationStands ==
  ASSUME NEW now, NEW was, FieldsKept(now, was), NEW p
  PROVE  Stands(Authorization(p, now), Authorization(p, was))
<1> DEFINE uses == {"invoice.total", "invoice.currency"}
           Of(total, currency, claim) ==
             IF ~Usable(total) \/ ~Usable(currency) \/ currency.value # "EUR"
             THEN {Step("BLOCKED", "AUTHORIZATION_INPUT_UNUSABLE", uses)} ELSE claim
           c(fields) == Claim(fields, uses, fields["invoice.total"].value <= p["escalate_above_eur"],
                              "NEEDS_REVIEW", "AUTHORIZATION_REQUIRED")
<1>1. \A fields : Authorization(p, fields) =
                    Of(fields["invoice.total"], fields["invoice.currency"], c(fields))
  BY Zenon DEF Authorization
<1>2. /\ now["invoice.total"] = was["invoice.total"] /\ now["invoice.currency"] = was["invoice.currency"]
      /\ \A f \in uses : now[f] = was[f]
  BY FieldNames DEF FieldsKept
<1>3. c(now) = c(was)
  <2>1. (\A f \in uses : Usable(now[f])) <=> (\A f \in uses : Usable(was[f]))
    BY <1>2
  <2>2. (now["invoice.total"].value <= p["escalate_above_eur"])
          <=> (was["invoice.total"].value <= p["escalate_above_eur"])
    BY <1>2
  <2> QED BY <2>1, <2>2 DEF Claim
<1> HIDE DEF Of, c
<1>4. Authorization(p, now) = Authorization(p, was)
  BY <1>1, <1>2, <1>3
<1> QED BY <1>4, StandsIs

LEMMA DatesStand ==
  ASSUME NEW now, NEW was, FieldsKept(now, was), NEW p, NEW today
  PROVE  Stands(Dates(p, now, today), Dates(p, was, today))
<1> DEFINE c1(fields) == Claim(fields, {"invoice.issue_date"}, fields["invoice.issue_date"].value <= today,
                               "FAIL", "FUTURE_INVOICE_DATE")
           c2(fields) == Claim(fields, {"invoice.issue_date", "supplier.payment_terms_days"},
                               today - fields["invoice.issue_date"].value
                                 <= fields["supplier.payment_terms_days"].value,
                               "NEEDS_REVIEW", "PAYMENT_TERMS_EXCEEDED")
           s1(fields) == IF p["allow_future"] THEN {} ELSE c1(fields)
           s2(fields) == IF p["enforce_payment_terms"] THEN c2(fields) ELSE {}
<1>1. \A fields : Dates(p, fields, today) = s1(fields) \union s2(fields)
  BY Zenon DEF Dates
<1>2. \A f \in Names : SameOrLost(now[f], was[f])
  BY DEF FieldsKept
<1>3. Stands(s1(now), s1(was))
  <2> DEFINE uses == {"invoice.issue_date"}
  <2>1. PICK new : new = (now["invoice.issue_date"].value <= today)
    OBVIOUS
  <2>2. PICK old : old = (was["invoice.issue_date"].value <= today)
    OBVIOUS
  <2>3. uses \in SUBSET Names /\ ((\A f \in uses : now[f] = was[f]) => new = old)
    BY <2>1, <2>2, FieldNames
  <2>4. Stands(Claim(now, uses, new, "FAIL", "FUTURE_INVOICE_DATE"),
               Claim(was, uses, old, "FAIL", "FUTURE_INVOICE_DATE"))
    BY <1>2, <2>3, ClaimStands
  <2>5. Stands(c1(now), c1(was))
    BY <2>1, <2>2, <2>4
  <2> HIDE DEF c1
  <2> QED BY <2>5, StandsIs
<1>4. Stands(s2(now), s2(was))
  <2> DEFINE uses == {"invoice.issue_date", "supplier.payment_terms_days"}
  <2>1. PICK new : new = (today - now["invoice.issue_date"].value <= now["supplier.payment_terms_days"].value)
    OBVIOUS
  <2>2. PICK old : old = (today - was["invoice.issue_date"].value <= was["supplier.payment_terms_days"].value)
    OBVIOUS
  <2>3. uses \in SUBSET Names /\ ((\A f \in uses : now[f] = was[f]) => new = old)
    BY <2>1, <2>2, FieldNames
  <2>4. Stands(Claim(now, uses, new, "NEEDS_REVIEW", "PAYMENT_TERMS_EXCEEDED"),
               Claim(was, uses, old, "NEEDS_REVIEW", "PAYMENT_TERMS_EXCEEDED"))
    BY <1>2, <2>3, ClaimStands
  <2>5. Stands(c2(now), c2(was))
    BY <2>1, <2>2, <2>4
  <2> HIDE DEF c2
  <2> QED BY <2>5, StandsIs
<1> HIDE DEF s1, s2
<1> QED BY <1>1, <1>3, <1>4, StandsIs

\* A fact of which nothing is known at all is neither usable nor cleanly missing.
LEMMA RequiredStand ==
  ASSUME NEW now, NEW was, FieldsKept(now, was), NEW p,
         \A m \in p["required_fields"] : FieldId(m) \in Names
  PROVE  Stands(RequiredFields(p, now), RequiredFields(p, was))
<1> DEFINE Of(fields, m) == IF Usable(fields[FieldId(m)]) THEN Step("PASS", "REQUIREMENT_SATISFIED", {FieldId(m)})
                            ELSE IF CleanlyMissing(fields[FieldId(m)])
                            THEN Step("FAIL", "REQUIRED_FIELD_MISSING", {FieldId(m)})
                            ELSE Step("BLOCKED", "UNUSABLE_INPUT", {FieldId(m)})
<1>1. \A fields : RequiredFields(p, fields) = {Of(fields, m) : m \in p["required_fields"]}
  BY Zenon DEF RequiredFields
<1>2. ASSUME NEW m \in p["required_fields"], Of(was, m).verdict = "FAIL"
      PROVE  Of(now, m).verdict \in {"FAIL", "BLOCKED"}
  <2>1. CASE now[FieldId(m)] = was[FieldId(m)]
    <3>1. Of(now, m) = Of(was, m)
      BY <2>1
    <3> HIDE DEF Of
    <3> QED BY <1>2, <3>1
  <2>2. CASE now[FieldId(m)].state = "unavailable"
    <3>1. ~Usable(now[FieldId(m)]) /\ ~CleanlyMissing(now[FieldId(m)])
      BY <2>2 DEF Usable, Present, CleanlyMissing
    <3>2. Of(now, m) = Step("BLOCKED", "UNUSABLE_INPUT", {FieldId(m)})
      BY <3>1
    <3> HIDE DEF Of
    <3> QED BY <3>2, StepIs
  <2> QED BY <2>1, <2>2 DEF FieldsKept, SameOrLost
<1> HIDE DEF Of
<1> QED BY <1>1, <1>2 DEF Stands, Fails, InDoubt

LEMMA RequiredNames ==
  ASSUME NEW rule, NEW fields, NEW taxes, rule.kind # "structured", rule.canonical = "MISSING",
         ~Unsupported(rule, fields, taxes)
  PROVE  \A m \in Params(rule)["required_fields"] : FieldId(m) \in DOMAIN fields
<1> DEFINE wanted == Params(rule)["required_fields"]
<1>1. /\ Executable(rule) /\ ~ParameterErrors(rule, taxes)
      /\ \A d \in Dependencies(rule, fields) : FieldId(d.name) \in DOMAIN fields
  BY DEF Unsupported
<1>2. wanted # BAD
  BY <1>1 DEF ParameterErrors
<1>3. wanted \subseteq CanonicalRequests(rule)
  BY <1>2, Zenon DEF CanonicalRequests
<1>4. \A m \in CanonicalRequests(rule) : Dependency(m, "compliance") \in Dependencies(rule, fields)
  <2>1. Dependencies(rule, fields) = {Dependency(m, "unconditional") : m \in rule.inputs} \union
                                     {Dependency(m, "compliance") : m \in CanonicalRequests(rule)}
    BY <1>1, Zenon DEF Dependencies
  <2> QED BY <2>1
<1>5. \A m, phase : Dependency(m, phase).name = m
  BY DEF Dependency
<1> HIDE DEF wanted
<1>6. ASSUME NEW m \in wanted PROVE FieldId(m) \in DOMAIN fields
  <2>1. Dependency(m, "compliance") \in Dependencies(rule, fields)
    BY <1>3, <1>4
  <2> QED BY <1>1, <1>5, <2>1
<1> QED BY <1>6 DEF wanted

LEMMA KeptFields ==
  ASSUME NEW o, NEW n, AllKept(o, n)
  PROVE  FieldsKept(ExecFields(n), ExecFields(o))
  BY ExecKept DEF FieldsKept

LEMMA CanonicalStands ==
  ASSUME NEW o, NEW n, AllKept(o, n), NEW rule, rule.kind # "structured",
         ~Unsupported(rule, ExecFields(o), ExecutionTaxes(o))
  PROVE  Stands(CanonicalCheck(rule, ExecFields(n), ExecutionTaxes(n), Observations(n),
                               Captured(n), n["today"]),
                CanonicalCheck(rule, ExecFields(o), ExecutionTaxes(o), Observations(o),
                               Captured(o), o["today"]))
<1> DEFINE was == ExecFields(o)
           now == ExecFields(n)
           taxes == ExecutionTaxes(o)
           today == o["today"]
           old == CanonicalCheck(rule, was, taxes, Observations(o), Captured(o), today)
           new == CanonicalCheck(rule, now, taxes, Observations(n), Captured(n), today)
           p == Params(rule)
<1>1. FieldsKept(now, was)
  BY KeptFields
<1>2. ExecutionTaxes(n) = taxes /\ n["today"] = today
  BY WorldKept
<1>3. rule.canonical \in Canonicals
  BY DEF Unsupported, Executable
<1>4. CASE rule.canonical = "VENDOR"
  <2>1. old = Vendor(p, was) /\ new = Vendor(p, now)
    BY <1>4, Zenon DEF CanonicalCheck
  <2>2. Stands(new, old)
    BY <1>1, <2>1, VendorStands
  <2> QED BY <1>2, <2>2
<1>5. CASE rule.canonical = "DUPLICATES"
  <2>1. /\ old = Duplicates(p, was, Observations(o), Captured(o))
        /\ new = Duplicates(p, now, Observations(n), Captured(n))
    BY <1>5, Zenon DEF CanonicalCheck
  <2>2. Stands(new, old)
    BY <1>1, <2>1, DuplicatesStand
  <2> QED BY <1>2, <2>2
<1>6. CASE rule.canonical = "AMOUNT"
  <2>1. old = Amount(p, was, taxes) /\ new = Amount(p, now, taxes)
    BY <1>6, Zenon DEF CanonicalCheck
  <2>2. Stands(new, old)
    BY <1>1, <2>1, AmountStands
  <2> QED BY <1>2, <2>2
<1>7. CASE rule.canonical = "AUTHORIZATION"
  <2>1. old = Authorization(p, was) /\ new = Authorization(p, now)
    BY <1>7, Zenon DEF CanonicalCheck
  <2>2. Stands(new, old)
    BY <1>1, <2>1, AuthorizationStands
  <2> QED BY <1>2, <2>2
<1>8. CASE rule.canonical = "DATES"
  <2>1. old = Dates(p, was, today) /\ new = Dates(p, now, today)
    BY <1>8, Zenon DEF CanonicalCheck
  <2>2. Stands(new, old)
    BY <1>1, <2>1, DatesStand
  <2> QED BY <1>2, <2>2
<1>9. CASE rule.canonical = "MISSING"
  <2>1. old = RequiredFields(p, was) /\ new = RequiredFields(p, now)
    BY <1>9, Zenon DEF CanonicalCheck
  <2>2. \A m \in p["required_fields"] : FieldId(m) \in Names
    BY <1>9, RequiredNames, ExecKept
  <2>3. Stands(new, old)
    BY <1>1, <2>1, <2>2, RequiredStand
  <2> QED BY <1>2, <2>3
<1> QED BY <1>3, <1>4, <1>5, <1>6, <1>7, <1>8, <1>9 DEF Canonicals

----------------------------------------------------------------------------
(* A condition that is false when more is known is false, or not known to be   *)
(* true, when less is.                                                         *)

LEMMA ClauseNames ==
  ASSUME NEW fields, DOMAIN fields = Names, NEW clause, ValidClause(clause, fields)
  PROVE  ClauseFields(clause) \subseteq Names
<1>1. /\ FieldId(clause.field) \in Names
      /\ clause.op \notin Presence /\ clause.other # NULL => FieldId(clause.other) \in Names
  BY DEF ValidClause
<1>2. \A f \in Names : WithCurrency(f) \subseteq Names
  BY FieldNames DEF WithCurrency, CurrencyField
<1> QED BY <1>1, <1>2 DEF ClauseFields

\* A clause, of the facts that it reads.
ClauseOf(clause, fact, ours, theirs, ready, value) ==
    IF clause.op \in Presence
    THEN IF /\ fact.quality \notin {"uncertain", "unlinked"}
            /\ fact.state \in {"present", "missing"}
         THEN Truth(Present(fact) = (clause.op = "exists")) ELSE "UNKNOWN"
    ELSE IF ~ready \/ ours # theirs THEN "UNKNOWN"
    ELSE Truth(Compare(clause.op, fact.value, value))

LEMMA ClauseKept ==
  ASSUME NEW now, NEW was, FieldsKept(now, was), NEW clause, ClauseFields(clause) \subseteq Names
  PROVE  ClauseTruth(clause, now) \in {ClauseTruth(clause, was), "UNKNOWN"}
<1> DEFINE f == FieldId(clause.field)
           g == FieldId(clause.other)
           Unit(fields, x) == IF x \in MoneyFields THEN fields[CurrencyField(x)].value ELSE NULL
           Ready(fields) == \A x \in ClauseFields(clause) : Usable(fields[x])
           Theirs(fields) == IF clause.other # NULL THEN Unit(fields, g) ELSE clause.literal.currency
           Value(fields) == IF clause.other # NULL THEN fields[g].value ELSE clause.literal.value
<1>1. \A fields : ClauseTruth(clause, fields) =
                    ClauseOf(clause, fields[f], Unit(fields, f), Theirs(fields), Ready(fields), Value(fields))
  BY Zenon DEF ClauseTruth, ClauseOf
<1>2. f \in ClauseFields(clause)
  BY DEF ClauseFields, WithCurrency
<1>3. CASE \A x \in ClauseFields(clause) : now[x] = was[x]
  <2>1. CASE clause.op \in Presence
    <3> DEFINE There(fact) == IF /\ fact.quality \notin {"uncertain", "unlinked"}
                                 /\ fact.state \in {"present", "missing"}
                              THEN Truth(Present(fact) = (clause.op = "exists")) ELSE "UNKNOWN"
    <3>1. \A fields : ClauseTruth(clause, fields) = There(fields[f])
      BY <2>1, Zenon DEF ClauseTruth
    <3>2. now[f] = was[f]
      BY <1>2, <1>3
    <3> HIDE DEF There
    <3> QED BY <3>1, <3>2
  <2>2. CASE clause.op \notin Presence
    <3>1. /\ WithCurrency(f) \subseteq ClauseFields(clause)
          /\ clause.other # NULL => WithCurrency(g) \subseteq ClauseFields(clause)
      BY <2>2 DEF ClauseFields
    <3>2. \A x : WithCurrency(x) \subseteq ClauseFields(clause)
                   => Unit(now, x) = Unit(was, x) /\ now[x] = was[x]
      BY <1>3 DEF WithCurrency
    <3>3. /\ now[f] = was[f] /\ Unit(now, f) = Unit(was, f)
          /\ Theirs(now) = Theirs(was) /\ Value(now) = Value(was)
      BY <3>1, <3>2
    <3>4. Ready(now) = Ready(was)
      BY <1>3
    <3> HIDE DEF Unit, Ready, Theirs, Value
    <3> QED BY <1>1, <3>3, <3>4
  <2> QED BY <2>1, <2>2
<1>4. CASE \E x \in ClauseFields(clause) : now[x].state = "unavailable"
  <2>1. ~Ready(now)
    BY <1>4 DEF Usable, Present
  <2>2. clause.op \in Presence => now[f].state = "unavailable"
    BY <1>4 DEF ClauseFields
  <2> HIDE DEF Unit, Ready, Theirs, Value
  <2>3. ClauseTruth(clause, now) = "UNKNOWN"
    BY <1>1, <2>1, <2>2 DEF ClauseOf
  <2> QED BY <2>3
<1> QED BY <1>3, <1>4 DEF FieldsKept, SameOrLost

LEMMA GroupKept ==
  ASSUME NEW now, NEW was, FieldsKept(now, was), NEW group, DOMAIN was = Names, ValidGroup(group, was)
  PROVE  EvaluateGroup(group, now).truth \in {EvaluateGroup(group, was).truth, "UNKNOWN"}
<1> DEFINE truths(fields) == [i \in DOMAIN group.clauses |-> ClauseTruth(group.clauses[i], fields)]
           values(fields) == {truths(fields)[i] : i \in DOMAIN truths(fields)}
           decisive == IF group.logic = "AND" THEN "FALSE" ELSE "TRUE"
           other    == IF group.logic = "AND" THEN "TRUE" ELSE "FALSE"
<1>1. \A fields : EvaluateGroup(group, fields).truth =
                    IF decisive \in values(fields) THEN decisive
                    ELSE IF "UNKNOWN" \in values(fields) THEN "UNKNOWN" ELSE other
  BY DEF EvaluateGroup, GroupTruth
<1>2. \A fields : values(fields) = {ClauseTruth(group.clauses[i], fields) : i \in DOMAIN group.clauses}
  OBVIOUS
<1>3. \A i \in DOMAIN group.clauses :
         ClauseTruth(group.clauses[i], now) \in {ClauseTruth(group.clauses[i], was), "UNKNOWN"}
  BY ClauseKept, ClauseNames DEF ValidGroup
<1>4. decisive # "UNKNOWN"
  OBVIOUS
<1> HIDE DEF values, decisive, other
<1>5. CASE decisive \in values(now)
  <2>1. decisive \in values(was)
    BY <1>2, <1>3, <1>4, <1>5
  <2> QED BY <1>1, <1>5, <2>1
<1>6. CASE decisive \notin values(now) /\ "UNKNOWN" \notin values(now)
  <2>1. \A i \in DOMAIN group.clauses : ClauseTruth(group.clauses[i], now) = ClauseTruth(group.clauses[i], was)
    BY <1>2, <1>3, <1>6
  <2>2. values(now) = values(was)
    BY <1>2, <2>1
  <2> QED BY <1>1, <2>2
<1>7. CASE decisive \notin values(now) /\ "UNKNOWN" \in values(now)
  BY <1>1, <1>7
<1> QED BY <1>5, <1>6, <1>7

LEMMA DeclaredPasses == \A rule, fields : ~Fails(Declared(rule, fields))
  BY DeclaredBlocks DEF Fails

LEMMA FinishInDoubt ==
  ASSUME NEW rule, NEW steps, InDoubt(steps)
  PROVE  Finish(rule, steps).status \in {"VIOLATED", "BLOCKED"}
<1> DEFINE verdicts == {s.verdict : s \in steps}
           status == IF "FAIL" \in verdicts THEN "VIOLATED"
                     ELSE IF "BLOCKED" \in verdicts \/ verdicts = {} THEN "BLOCKED"
                     ELSE IF "NEEDS_REVIEW" \in verdicts THEN "NEEDS_REVIEW" ELSE "PASS"
           left == IF steps = {} THEN {Step("BLOCKED", "NO_EXECUTABLE_ASSERTIONS", {})} ELSE steps
<1>1. Finish(rule, steps) = Result(rule, status, left)
  BY Zenon DEF Finish
<1>2. "FAIL" \in verdicts \/ "BLOCKED" \in verdicts
  BY DEF InDoubt
<1>3. status \in {"VIOLATED", "BLOCKED"}
  BY <1>2
<1> HIDE DEF status, left
<1> QED BY <1>1, <1>3, ResultFields

LEMMA FinishFails ==
  ASSUME NEW rule, NEW steps, Finish(rule, steps).status = "VIOLATED"
  PROVE  Fails(steps)
<1>1. PICK status : /\ status = "VIOLATED" <=> \E s \in steps : s.verdict = "FAIL"
                    /\ \/ steps # {} /\ Finish(rule, steps) = Result(rule, status, steps)
                       \/ /\ steps = {} /\ status = "BLOCKED"
                          /\ Finish(rule, steps) =
                               Result(rule, status, {Step("BLOCKED", "NO_EXECUTABLE_ASSERTIONS", {})})
  BY FinishIs
<1>2. status = "VIOLATED"
  BY <1>1, ResultFields
<1> QED BY <1>1, <1>2 DEF Fails

LEMMA StructuredStands ==
  ASSUME NEW now, NEW was, FieldsKept(now, was), DOMAIN was = Names, NEW rule, NEW taxes,
         rule.kind = "structured", ~Unsupported(rule, was, taxes),
         ExecuteStructured(rule, was).status = "VIOLATED"
  PROVE  ExecuteStructured(rule, now).status \in {"VIOLATED", "BLOCKED"}
<1> DEFINE Made(fields)   == Declared(rule, fields)
           App(fields)    == EvaluateGroup(rule.applies, fields)
           Main(fields)   == EvaluateGroup(rule.group, fields)
           Steps(fields)  == Made(fields) \union
                             {Step(Verdict(rule, Main(fields)), "CONDITION", Main(fields).required)}
           Unsure(fields) == Made(fields) \union
                             {Step("BLOCKED", "APPLICABILITY_UNKNOWN", App(fields).required)}
<1>1. \A fields : ExecuteStructured(rule, fields) =
        IF rule.applies # NULL /\ App(fields).truth = "FALSE"
        THEN Result(rule, IF Made(fields) # {} THEN "BLOCKED" ELSE "NOT_APPLICABLE", Made(fields))
        ELSE IF rule.applies # NULL /\ App(fields).truth = "UNKNOWN"
        THEN Result(rule, "BLOCKED", Unsure(fields))
        ELSE Finish(rule, Steps(fields))
  BY StructuredIs, Zenon
<1>2. /\ ValidGroup(rule.group, was)
      /\ rule.applies # NULL => ValidGroup(rule.applies, was)
  BY DEF Unsupported
<1>3. /\ Main(now).truth \in {Main(was).truth, "UNKNOWN"}
      /\ rule.applies # NULL => App(now).truth \in {App(was).truth, "UNKNOWN"}
  BY <1>2, GroupKept
<1>4. \A fields : ~Fails(Made(fields))
  BY DeclaredPasses
<1> HIDE DEF Made, App, Main, Unsure
<1>5. /\ ~(rule.applies # NULL /\ App(was).truth \in {"FALSE", "UNKNOWN"})
      /\ Finish(rule, Steps(was)).status = "VIOLATED"
  <2> HIDE DEF Steps
  <2> QED BY <1>1, ResultFields
<1>6. Verdict(rule, Main(was)) = "FAIL"
  <2>1. Fails(Steps(was))
    BY <1>5, FinishFails
  <2> QED BY <1>4, <2>1, StepIs DEF Fails
<1>7. CASE rule.applies # NULL /\ App(now).truth = "UNKNOWN"
  <2> HIDE DEF Steps
  <2> QED BY <1>1, <1>7, ResultFields
<1>8. CASE ~(rule.applies # NULL /\ App(now).truth = "UNKNOWN")
  <2>1. ExecuteStructured(rule, now) = Finish(rule, Steps(now))
    BY <1>1, <1>3, <1>5, <1>8
  <2>2. Verdict(rule, Main(now)) \in {"FAIL", "BLOCKED"}
    <3>1. CASE Main(now).truth = Main(was).truth
      BY <1>6, <3>1 DEF Verdict
    <3>2. CASE Main(now).truth = "UNKNOWN"
      BY <3>2 DEF Verdict
    <3> QED BY <1>3, <3>1, <3>2
  <2>3. InDoubt(Steps(now))
    BY <2>2, StepIs DEF InDoubt
  <2> HIDE DEF Steps
  <2> QED BY <2>1, <2>3, FinishInDoubt
<1> QED BY <1>7, <1>8

\* A rule that was violated does not pass, and does not cease to apply.
LEMMA ViolationStands ==
  ASSUME NEW o, NEW n, AllKept(o, n), NEW rule, NEW c, NEW d, Outcome(o, rule, c).status = "VIOLATED"
  PROVE  Outcome(n, rule, d).status \notin {"PASS", "NOT_APPLICABLE"}
<1> DEFINE was == ExecFields(o)
           now == ExecFields(n)
           old == CanonicalCheck(rule, was, ExecutionTaxes(o), Observations(o), Captured(o), o["today"])
           new == CanonicalCheck(rule, now, ExecutionTaxes(n), Observations(n), Captured(n), n["today"])
<1>1. /\ Raised(rule).status = "ERROR" /\ Refused(rule).status = "UNSUPPORTED"
  BY ResultFields DEF Raised, Refused
<1>2. /\ ~Unsupported(rule, was, ExecutionTaxes(o))
      /\ \/ rule.kind = "structured" /\ Outcome(o, rule, c) = ExecuteStructured(rule, was)
         \/ rule.kind # "structured" /\ Outcome(o, rule, c) = Finish(rule, Declared(rule, was) \union old)
  BY <1>1, OutcomeCases
<1>3. \/ Outcome(n, rule, d).status \in {"ERROR", "UNSUPPORTED"}
      \/ rule.kind = "structured" /\ Outcome(n, rule, d) = ExecuteStructured(rule, now)
      \/ rule.kind # "structured" /\ Outcome(n, rule, d) = Finish(rule, Declared(rule, now) \union new)
  BY <1>1, OutcomeCases
<1>4. FieldsKept(now, was) /\ DOMAIN was = Names
  BY KeptFields, ExecKept
<1>5. CASE rule.kind = "structured"
  <2> HIDE DEF was, now
  <2>1. ExecuteStructured(rule, now).status \in {"VIOLATED", "BLOCKED"}
    BY <1>2, <1>4, <1>5, StructuredStands
  <2> QED BY <1>3, <1>5, <2>1
<1>6. CASE rule.kind # "structured"
  <2>1. Stands(new, old)
    BY <1>2, <1>6, CanonicalStands
  <2> HIDE DEF was, now, new, old
  <2>2. Fails(Declared(rule, was) \union old)
    BY <1>2, <1>6, FinishFails
  <2>3. InDoubt(Declared(rule, now) \union new)
    BY <2>1, <2>2, DeclaredPasses DEF Stands, Fails, InDoubt
  <2>4. Finish(rule, Declared(rule, now) \union new).status \in {"VIOLATED", "BLOCKED"}
    BY <2>3, FinishInDoubt
  <2> QED BY <1>3, <1>6, <2>4
<1> QED BY <1>5, <1>6

(* Whatever authority was lost, what may be paid of the weaker input had not   *)
(* been rejected on the stronger one.                                          *)
LEMMA PayableWasNotRejected ==
  ASSUME NEW o, NEW n, AllKept(o, n), NEW c, NEW d, Advice(n, d) = "PAGAR"
  PROVE  Advice(o, c) # "NO_PAGAR"
<1> SUFFICES ASSUME Advice(o, c) = "NO_PAGAR" PROVE FALSE
  OBVIOUS
<1> DEFINE rules == EnabledRules(o)
           was == Executed(o, c)
           now == Executed(n, d)
<1>1. EnabledRules(n) = rules
  BY WorldKept
<1>2. /\ was = [i \in DOMAIN rules |-> Outcome(o, rules[i], c)]
      /\ now = [i \in DOMAIN rules |-> Outcome(n, rules[i], d)]
  BY <1>1, ExecutedIs
<1>3. /\ \A i \in DOMAIN now : now[i].status \in {"PASS", "NOT_APPLICABLE"}
      /\ \E i \in DOMAIN was : was[i].status = "VIOLATED"
  BY AdviceIs
<1> HIDE DEF was, now, rules
<1>4. PICK i \in DOMAIN rules : Outcome(o, rules[i], c).status = "VIOLATED"
  BY <1>2, <1>3
<1>5. Outcome(n, rules[i], d).status \in {"PASS", "NOT_APPLICABLE"}
  BY <1>2, <1>3
<1> QED BY <1>4, <1>5, ViolationStands

----------------------------------------------------------------------------
(* An input about which nothing is outstanding.                               *)

Quiet(in) == \A f \in Findings(in) : f.code = "HISTORY_RECORDS_MALFORMED"

LEMMA PaidIsQuiet ==
  ASSUME NEW in, NEW crash, Advice(in, crash) = "PAGAR"
  PROVE  Quiet(in)
<1> DEFINE res == Executed(in, crash)
<1>1. Outstanding(in, Findings(in), res) = {}
  BY AdviceIs
<1> HIDE DEF res
<1>2. The({{f \in Findings(in) : ~Retired(f, seen)} : seen \in {Observations(in)}}) = {}
  BY <1>1, Zenon DEF Outstanding
<1>3. {{f \in Findings(in) : ~Retired(f, seen)} : seen \in {Observations(in)}}
        = {{f \in Findings(in) : ~Retired(f, Observations(in))}}
  OBVIOUS
<1>4. {f \in Findings(in) : ~Retired(f, Observations(in))} = {}
  BY <1>2, <1>3, TheOnly
<1> QED BY <1>4 DEF Quiet, Retired

LEMMA QuietIs ==
  ASSUME NEW in, Quiet(in)
  PROVE  /\ Plain(in) \subseteq {"HISTORY_RECORDS_MALFORMED"}
         /\ \A h \in Histories :
               HistoryFindings(in, h, ResolvedFacts(in)) \subseteq {"HISTORY_RECORDS_MALFORMED"}
<1>1. \A c, source : Finding(c, source).code = c
  BY DEF Finding
<1>2. \A c \in Plain(in) : Finding(c, NULL) \in Findings(in)
  BY FindingsAre
<1>3. \A h \in Histories : \A c \in HistoryFindings(in, h, ResolvedFacts(in)) : Finding(c, h) \in Findings(in)
  BY FindingsAre
<1> QED BY <1>1, <1>2, <1>3 DEF Quiet

LEMMA QuietPaper ==
  ASSUME NEW in, Quiet(in)
  PROVE  /\ in["reading"] /\ in["evidence"] /\ in["issues"] = <<>>
         /\ PrintedLinks(in) \intersect {"none", "broken", "background", "uncertain"} = {}
<1>1. AcquisitionFindings(in) \subseteq {"HISTORY_RECORDS_MALFORMED"}
  BY QuietIs DEF Plain
<1>2. in["reading"] /\ in["evidence"] /\ FailedChecks(in) \subseteq {"HISTORY_RECORDS_MALFORMED"}
  BY <1>1 DEF AcquisitionFindings
<1>3. in["issues"] = <<>>
  BY <1>2 DEF FailedChecks
<1> DEFINE links == PrintedLinks(in)
<1> HIDE DEF links
<1>4. /\ (IF "broken" \in links THEN {"evidence_references"} ELSE {}) \subseteq FailedChecks(in)
      /\ (IF links \intersect {"none", "broken"} # {} THEN {"factual_leaves_linked"} ELSE {})
           \subseteq FailedChecks(in)
      /\ (IF "background" \in links THEN {"foreground_evidence_only"} ELSE {}) \subseteq FailedChecks(in)
      /\ (IF "uncertain" \in links THEN {"source_uncertainty_clear", "coverage_accounted"} ELSE {})
           \subseteq FailedChecks(in)
  BY DEF FailedChecks, links
<1>5. links \intersect {"none", "broken", "background", "uncertain"} = {}
  BY <1>2, <1>4
<1> QED BY <1>2, <1>3, <1>5 DEF links

LEMMA QuietSnapshots ==
  ASSUME NEW in, Quiet(in), NEW s \in Snapshots, Formed(s, in[s]), in[s].avail # "absent"
  PROVE  /\ in[s].avail = "available"
         /\ s \in {"suppliers", "orders"} => ScopeOf(s) \in in[s].auth
         /\ s \notin {"suppliers", "orders"} /\ ScopeOf(s) \in in[s].auth => Complete(in[s])
<1> DEFINE facts == ResolvedFacts(in)
<1>1. /\ SupplierFindings(in, facts) \subseteq {"HISTORY_RECORDS_MALFORMED"}
      /\ OrderFindings(in, facts) \subseteq {"HISTORY_RECORDS_MALFORMED"}
      /\ ErpFindings(in, facts["erp.order_payment_status"]) \subseteq {"HISTORY_RECORDS_MALFORMED"}
      /\ \A h \in Histories : HistoryFindings(in, h, facts) \subseteq {"HISTORY_RECORDS_MALFORMED"}
  BY QuietIs DEF Plain
<1> HIDE DEF facts
<1>2. in[s].avail \in Availability
  BY DEF Formed
<1>3. CASE s = "suppliers"
  <2>1. SupplierBlock(in) \notin {"SUPPLIER_MASTER_UNAVAILABLE", "SUPPLIER_MASTER_MALFORMED",
                                  "AUTHORITY_NOT_GRANTED", "INSUFFICIENT_COVERAGE"}
    BY <1>1, <1>3, FindingsOfParts DEF SupplierFindingsOf
  <2> QED BY <1>2, <1>3, <2>1 DEF SupplierBlock, MasterBlock, Missing, Availability, ScopeOf
<1>4. CASE s = "orders"
  <2>1. OrderBlock(in) \notin {"ORDER_MASTER_UNAVAILABLE", "ORDER_MASTER_MALFORMED",
                               "AUTHORITY_NOT_GRANTED", "INSUFFICIENT_COVERAGE"}
    BY <1>1, <1>4, FindingsOfParts DEF OrderFindingsOf
  <2> QED BY <1>2, <1>4, <2>1 DEF OrderBlock, MasterBlock, Missing, Availability, ScopeOf
<1>5. CASE s = "erp"
  BY <1>1, <1>5 DEF ErpFindings, ScopeOf
<1>6. CASE s \in Histories
  <2>1. ScopeOf(s) = "history." \o s /\ s \notin {"suppliers", "orders"}
    BY <1>6 DEF ScopeOf, Histories
  <2>2. HistoryFindings(in, s, facts) \subseteq {"HISTORY_RECORDS_MALFORMED"}
    BY <1>1, <1>6
  <2>3. HistoryFindings(in, s, facts) =
          HistoryFindingsOf(in[s].avail, ScopeOf(s) \in in[s].auth, Complete(in[s]), in[s].kind = s,
                            Doubtful(facts), \A f \in HistoryKeys : Present(facts[f]), HistoryMalformed(in, s))
    BY <2>1, FindingsOfParts, Zenon
  <2> QED BY <2>1, <2>2, <2>3 DEF HistoryFindingsOf
<1> QED BY <1>3, <1>4, <1>5, <1>6 DEF Snapshots

----------------------------------------------------------------------------
(* What is weaker, and leaves nothing outstanding, is kept.                   *)

\* The whole input, but for one part.
Past(in, part, was) == [in EXCEPT ![part] = was]

LEMMA SnapshotKept ==
  ASSUME NEW n, Quiet(n), NEW s \in Snapshots, NEW was, Formed(s, was), Formed(s, n[s]),
         Weaker(s, was, n[s])
  PROVE  Kept(s, was, n[s])
<1> DEFINE now == n[s]
<1>1. /\ s \notin {"reading", "evidence", "issues"} /\ s \notin InvoiceScalars
  BY DEF Snapshots, Histories, InvoiceScalars, TextFields
<1>2. /\ \A k \in DOMAIN was \ {"avail", "auth", "complete"} : now[k] = was[k]
      /\ "complete" \in DOMAIN was => (now.complete => was.complete)
      /\ now.auth \subseteq was.auth
      /\ now.avail # "absent"
      /\ was.avail \in {"available", now.avail}
  BY <1>1 DEF Weaker
<1>3. /\ {"avail", "auth", "rows"} \subseteq DOMAIN was
      /\ s \in Histories \union {"erp"} => "complete" \in DOMAIN was
      /\ s \in Histories => {"kind", "include"} \subseteq DOMAIN was
  BY DEF Formed
<1>4. /\ now.avail = "available"
      /\ s \in {"suppliers", "orders"} => ScopeOf(s) \in now.auth
      /\ s \notin {"suppliers", "orders"} /\ ScopeOf(s) \in now.auth => Complete(now)
  BY <1>2, QuietSnapshots
<1>5. now.rows = was.rows /\ was.avail = "available"
  BY <1>2, <1>3, <1>4
<1>6. s \in Histories => now.kind = was.kind /\ now.include = was.include
  BY <1>2, <1>3
<1>7. s \notin {"suppliers", "orders"} => s \in Histories \union {"erp"}
  BY DEF Snapshots
<1>8. s \notin {"suppliers", "orders"} /\ Complete(now) => Complete(was)
  BY <1>2, <1>3, <1>5, <1>7 DEF Complete
<1> QED BY <1>2, <1>4, <1>5, <1>6, <1>8 DEF Kept

LEMMA ScalarKept ==
  ASSUME NEW n, Quiet(n), NEW f \in InvoiceScalars, NEW was, Formed(f, n[f]), Weaker(f, was, n[f])
  PROVE  n[f].raw = was.raw /\ (was.raw = NULL \/ n[f].link = was.link)
<1>1. f \notin {"reading", "evidence", "issues"} /\ f \notin Snapshots
  BY DEF Snapshots, Histories, InvoiceScalars, TextFields
<1>2. n[f].raw = was.raw /\ was.link = "good"
  BY <1>1 DEF Weaker
<1>3. ASSUME was.raw # NULL PROVE n[f].link = "good"
  <2>1. n[f].link \in PrintedLinks(n)
    <3>1. LinkOf(n[f]) = {n[f].link}
      BY <1>2, <1>3 DEF LinkOf
    <3>2. LinkOf(n[f]) \subseteq UNION {LinkOf(n[g]) : g \in InvoiceScalars \union {"document_type"}}
      OBVIOUS
    <3>3. UNION {LinkOf(n[g]) : g \in InvoiceScalars \union {"document_type"}} \subseteq PrintedLinks(n)
      BY DEF PrintedLinks
    <3> QED BY <3>1, <3>2, <3>3
  <2>2. n[f].link \notin {"none", "broken", "background", "uncertain"}
    BY <2>1, QuietPaper
  <2> QED BY <2>2 DEF Formed, Linked, LinkKinds
<1> QED BY <1>2, <1>3

LEMMA QuietKept ==
  ASSUME NEW n, Quiet(n), n = [k \in DOMAIN n |-> n[k]], Parts \subseteq DOMAIN n,
         NEW part \in DOMAIN n, NEW was,
         Formed(part, was), Formed(part, n[part]), Weaker(part, was, n[part])
  PROVE  /\ AllKept(Past(n, part, was), n)
         /\ ~(part \in Snapshots /\ n[part].auth # was.auth) => SameAuthority(Past(n, part, was), n)
<1> DEFINE o == Past(n, part, was)
<1>1. /\ \A k \in DOMAIN n \ {part} : o[k] = n[k]
      /\ o[part] = was
  BY DEF Past
<1> HIDE DEF o
<1>2. PrintParts \subseteq DOMAIN n /\ InvoiceScalars \subseteq DOMAIN n /\ Snapshots \subseteq DOMAIN n
  BY DEF Parts, PrintParts
<1>3. ~(part \in {"reading", "evidence"} /\ ~n[part])
  BY QuietPaper
<1>4. part = "issues" /\ was = <<>> => n[part] = was
  BY QuietPaper
<1>5. part \in {"issues"} \union InvoiceScalars \union Snapshots
  BY <1>3 DEF Weaker
<1>6. \A k \in PrintParts : n[k] = o[k]
  <2>1. part \in InvoiceScalars \union Snapshots => part \notin PrintParts
    BY DEF PrintParts, InvoiceScalars, TextFields, Snapshots, Histories
  <2>2. part = "issues" => n[part] = was
    <3>1. "issues" \notin InvoiceScalars \union Snapshots \union {"reading", "evidence"}
      BY DEF InvoiceScalars, TextFields, Snapshots, Histories
    <3> QED BY <1>4, <3>1 DEF Weaker
  <2> QED BY <1>1, <1>2, <1>5, <2>1, <2>2
<1>7. \A f \in InvoiceScalars : n[f].raw = o[f].raw /\ (o[f].raw = NULL \/ n[f].link = o[f].link)
  BY <1>1, <1>2, ScalarKept
<1>8. \A s \in Snapshots : Kept(s, o[s], n[s])
  <2>1. \A s, x : Kept(s, x, x)
    BY DEF Kept
  <2> QED BY <1>1, <1>2, <2>1, SnapshotKept
<1>9. ASSUME ~(part \in Snapshots /\ n[part].auth # was.auth) PROVE SameAuthority(o, n)
  BY <1>1, <1>2, <1>9 DEF SameAuthority
<1> QED BY <1>6, <1>7, <1>8, <1>9 DEF AllKept, PrintedAlike, o

----------------------------------------------------------------------------
(* What is remembered of the recommendation before the last change is what     *)
(* would be recommended on the input as it was.                                *)

InputFormed ==
    /\ input = [k \in DOMAIN input |-> input[k]] /\ DOMAIN input = DOMAIN Baseline
    /\ \A k \in DOMAIN input : Formed(k, input[k])
Remembered ==
    LET past == Past(input, before.part, before.was)
    IN  /\ before.part \in DOMAIN input /\ Formed(before.part, before.was)
        /\ \E crash : before.decision = Advice(past, crash) /\ (before.raised <=> Raises(past, crash))
MemoryInv == EvaluationInv /\ InputFormed /\ (before # NULL => Remembered)

LEMMA MemoryInit == Init => MemoryInv
<1> SUFFICES ASSUME Init PROVE MemoryInv
  OBVIOUS
<1>1. EvaluationInv
  BY EvaluationInit
<1> QED BY <1>1, InputAssumption DEF Init, MemoryInv, InputFormed

LEMMA MemoryStays == InputFormed /\ Remembered /\ UNCHANGED <<input, before>> => InputFormed' /\ Remembered'
<1> SUFFICES ASSUME InputFormed, Remembered, input' = input, before' = before
             PROVE  InputFormed' /\ Remembered'
  OBVIOUS
<1> DEFINE past == Past(input, before.part, before.was)
<1>1. PICK crash : before.decision = Advice(past, crash) /\ (before.raised <=> Raises(past, crash))
  BY DEF Remembered
<1> QED BY <1>1 DEF InputFormed, Remembered

LEMMA ChangeIsRemembered ==
  ASSUME EvaluationInv, InputFormed, NEW part \in DOMAIN Alternatives, NEW value \in Alternatives[part],
         Change(part, value)
  PROVE  InputFormed' /\ Remembered'
<1> DEFINE past == Past(input', part, input[part])
<1>1. /\ stage = "decided" /\ input' = [input EXCEPT ![part] = value]
      /\ before' = [part |-> part, was |-> input[part], decision |-> decision,
                    raised |-> \E i \in DOMAIN results : results[i].status = "ERROR"]
  BY DEF Change
<1>2. part \in DOMAIN input /\ Formed(part, value)
  BY InputAssumption DEF InputFormed
<1>3. InputFormed'
  BY <1>1, <1>2 DEF InputFormed
<1>4. past = input
  BY <1>1, <1>2 DEF Past, InputFormed
<1>5. /\ before'.part = part /\ before'.was = input[part] /\ before'.decision = decision
      /\ before'.raised <=> \E i \in DOMAIN results : results[i].status = "ERROR"
  BY <1>1
<1>6. PICK crash \in Crashes : results = Executed(input, crash)
  BY <1>1 DEF EvaluationInv
<1>7. decision = Advice(input, crash)
  BY <1>1, <1>6 DEF EvaluationInv, Advice
<1>8. before'.raised <=> Raises(input, crash)
  BY <1>5, <1>6 DEF Raises
<1>9. Formed(part, input[part])
  BY <1>2 DEF InputFormed
<1>10. DOMAIN input' = DOMAIN input
  BY <1>1
<1> HIDE DEF past
<1>11. Remembered'
  <2>1. Past(input', before'.part, before'.was) = input
    BY <1>4, <1>5 DEF past
  <2>2. before'.part \in DOMAIN input' /\ Formed(before'.part, before'.was)
    BY <1>2, <1>5, <1>9, <1>10
  <2>3. before'.decision = Advice(Past(input', before'.part, before'.was), crash)
    BY <1>5, <1>7, <2>1
  <2>4. before'.raised <=> Raises(Past(input', before'.part, before'.was), crash)
    BY <1>8, <2>1
  <2> QED BY <2>2, <2>3, <2>4 DEF Remembered
<1> QED BY <1>3, <1>11

LEMMA MemoryStep == MemoryInv /\ [Next]_vars => MemoryInv'
<1> SUFFICES ASSUME MemoryInv, [Next]_vars PROVE MemoryInv'
  OBVIOUS
<1>1. EvaluationInv /\ InputFormed /\ (before # NULL => Remembered)
  BY DEF MemoryInv
<1>2. EvaluationInv'
  BY <1>1, EvaluationStep
<1>3. CASE UNCHANGED <<input, before>>
  <2>1. InputFormed'
    BY <1>1, <1>3 DEF InputFormed
  <2>2. CASE before = NULL
    BY <1>2, <1>3, <2>1, <2>2 DEF MemoryInv
  <2>3. CASE before # NULL
    BY <1>1, <1>2, <1>3, <2>3, MemoryStays DEF MemoryInv
  <2> QED BY <2>2, <2>3
<1>4. CASE \E part \in DOMAIN Alternatives : \E value \in Alternatives[part] : Change(part, value)
  <2>1. InputFormed' /\ Remembered'
    BY <1>1, <1>4, ChangeIsRemembered
  <2> QED BY <1>2, <2>1 DEF MemoryInv
<1>5. Align \/ Prepare \/ (\E crash \in Crashes : Evaluate(crash)) \/ UNCHANGED vars
        => UNCHANGED <<input, before>>
  BY DEF Align, Prepare, Evaluate, vars
<1> QED BY <1>3, <1>4, <1>5 DEF Next

LEMMA MemoryInvariant == Spec => []MemoryInv
  BY MemoryInit, MemoryStep, PTL DEF Spec

LEMMA WeakerFollows == MemoryInv => WeakerNeverPays
<1> SUFFICES ASSUME MemoryInv, decision = "PAGAR", before # NULL, before.decision # "PAGAR",
                    ~before.raised, Weaker(before.part, before.was, input[before.part])
             PROVE  /\ before.decision = "ESCALAR"
                    /\ before.part \in Snapshots /\ input[before.part].auth # before.was.auth
  BY DEF WeakerNeverPays
<1> DEFINE part == before.part
           past == Past(input, part, before.was)
<1>1. /\ EvaluationInv /\ InputFormed /\ part \in DOMAIN input /\ Formed(part, before.was)
      /\ \E crash : before.decision = Advice(past, crash) /\ (before.raised <=> Raises(past, crash))
  BY DEF MemoryInv, Remembered
<1>2. PICK c : before.decision = Advice(past, c) /\ ~Raises(past, c)
  BY <1>1
<1>3. PICK d \in Crashes : Advice(input, d) = "PAGAR"
  <2>1. stage = "decided"
    BY <1>1, EvaluationAssumption DEF EvaluationInv, Decisions
  <2> QED BY <1>1, <2>1 DEF EvaluationInv, Advice
<1>4. Quiet(input)
  BY <1>3, PaidIsQuiet
<1>5. /\ input = [k \in DOMAIN input |-> input[k]] /\ Parts \subseteq DOMAIN input
      /\ Formed(part, input[part])
  BY <1>1, InputAssumption DEF InputFormed
<1>6. /\ AllKept(past, input)
      /\ ~(part \in Snapshots /\ input[part].auth # before.was.auth) => SameAuthority(past, input)
  BY <1>1, <1>4, <1>5, QuietKept
<1> HIDE DEF past
<1>7. part \in Snapshots /\ input[part].auth # before.was.auth
  BY <1>2, <1>3, <1>6, SameAuthoritySamePay
<1>8. before.decision # "NO_PAGAR"
  BY <1>2, <1>3, <1>6, PayableWasNotRejected
<1>9. before.decision \in Decisions
  BY <1>2, AdviceIs
<1> QED BY <1>7, <1>8, <1>9 DEF Decisions

(* For every rule book, every master and every history: knowing less of an     *)
(* input never turns a rejection into a payment, and turns no other            *)
(* recommendation into one except by the loss of a source's authority          *)
(* (build_context, prepare_context, evaluate).                                 *)
THEOREM WeakerInputsNeverPay == SpecReviewed => []WeakerNeverPays
  BY ReviewFrame, MemoryInvariant, WeakerFollows, PTL

----------------------------------------------------------------------------
(* What the values say that a payment rests on. A printed value that is known  *)
(* is the raw one, normalised when it is text.                                 *)

LEMMA PrintedScalar ==
  ASSUME NEW in, NEW f \in InvoiceScalars, PrintedFacts(in)[f].state = "present"
  PROVE  /\ in[f].raw \notin {NULL, BAD}
         /\ PrintedFacts(in)[f].value = IF f \in TextFields THEN Normal(in[f].raw) ELSE in[f].raw
<1>1. PICK text : text = (f \in TextFields)
  OBVIOUS
<1>2. PrintedFacts(in)[f] = InvoiceScalar(in, PointerOf[f], in[f], text)
  <2>1. f \notin {"invoice.document_type", "invoice.line_amounts", "invoice.vat_amount"}
    BY DEF InvoiceScalars, TextFields
  <2> QED BY <1>1, <2>1, Zenon DEF PrintedFacts
<1> DEFINE raw     == in[f].raw
           issue   == IssueState(in, PointerOf[f])
           quality == LinkedQuality(in, PointerOf[f], in[f].link)
           good    == GoodLink(in, in[f].link)
<1>3. PrintedFacts(in)[f] = ScalarOf(issue, quality, good, raw, text)
  BY <1>2, ScalarOfIs
<1>4. issue \in {NULL, "missing", "ambiguous"}
  BY DEF IssueState
<1> HIDE DEF raw, issue, quality, good
<1>5. /\ issue # NULL => ScalarOf(issue, quality, good, raw, text)
                           = Told(NULL, issue, "uncertain", {}, raw # NULL /\ ~good)
      /\ issue = NULL /\ raw = NULL
           => ScalarOf(issue, quality, good, raw, text)
                = Told(NULL, "missing", "no_reported_issue", {}, raw # NULL /\ ~good)
      /\ issue = NULL /\ raw # NULL /\ raw = BAD
           => ScalarOf(issue, quality, good, raw, text)
                = Told(NULL, "invalid", quality, {}, raw # NULL /\ ~good)
      /\ issue = NULL /\ raw # NULL /\ raw # BAD
           => ScalarOf(issue, quality, good, raw, text)
                = Told(IF text THEN Normal(raw) ELSE raw, "present", quality, {}, raw # NULL /\ ~good)
  BY Zenon DEF ScalarOf, Told
<1>6. issue = NULL /\ raw # NULL /\ raw # BAD
  <2>1. ScalarOf(issue, quality, good, raw, text).state = "present"
    BY <1>3
  <2>2. CASE issue # NULL
    BY <1>4, <1>5, <2>1, <2>2, ToldIs
  <2>3. CASE issue = NULL /\ raw = NULL
    BY <1>5, <2>1, <2>3, ToldIs
  <2>4. CASE issue = NULL /\ raw # NULL /\ raw = BAD
    BY <1>5, <2>1, <2>4, ToldIs
  <2> QED BY <2>2, <2>3, <2>4
<1>7. PrintedFacts(in)[f].value = IF text THEN Normal(raw) ELSE raw
  BY <1>3, <1>5, <1>6, ToldIs
<1> QED BY <1>1, <1>6, <1>7 DEF raw

LEMMA ResolvedMasters ==
  ASSUME NEW in
  PROVE  LET facts   == ResolvedFacts(in)
             printed == PrintedFacts(in)
         IN  /\ \A f \in SupplierFields : facts[f] = SupplierFacts(in, printed)[f]
             /\ \A f \in OrderFields : facts[f] = OrderFacts(in, printed)[f]
             /\ facts["erp.order_payment_status"] = ErpFact(in, printed)
             /\ \A f \in InvoiceScalars : facts[f] = printed[f]
             /\ SupplierFields \union OrderFields \union InvoiceScalars \union {"erp.order_payment_status"}
                  \subseteq Names
<1> DEFINE facts == ResolvedFacts(in)
           masters == WithMasters(in, PrintedFacts(in))
<1>1. /\ DOMAIN masters = MasterNames
      /\ \A f \in SupplierFields : masters[f] = SupplierFacts(in, PrintedFacts(in))[f]
      /\ \A f \in OrderFields : masters[f] = OrderFacts(in, PrintedFacts(in))[f]
      /\ masters["erp.order_payment_status"] = ErpFact(in, PrintedFacts(in))
      /\ \A f \in PrintedNames : masters[f] = PrintedFacts(in)[f]
  BY PrintedIs, MastersAre
<1> HIDE DEF masters
<1>2. facts = [f \in DOMAIN masters \union {HistoryField[h] : h \in Histories} |->
                 IF f \in DOMAIN masters THEN masters[f]
                 ELSE HistoryFact(in, CHOOSE h \in Histories : HistoryField[h] = f, masters)]
  BY ResolvedIs DEF masters
<1> HIDE DEF facts
<1>3. \A f \in MasterNames : facts[f] = masters[f]
  BY <1>1, <1>2
<1> QED BY <1>1, <1>3 DEF facts, MasterNames, PrintedNames, Names

\* What the rules read is what was resolved; only its quality is settled since.
LEMMA ReadIs ==
  ASSUME NEW in, NEW f \in Names, Usable(ExecFields(in)[f])
  PROVE  /\ ResolvedFacts(in)[f].state = "present"
         /\ ExecFields(in)[f].value = ResolvedFacts(in)[f].value
  BY LineageIs DEF Usable, Present

\* A printed value as the rules read it.
LEMMA ReadScalar ==
  ASSUME NEW in, NEW f \in InvoiceScalars, Usable(ExecFields(in)[f])
  PROVE  /\ in[f].raw \notin {NULL, BAD}
         /\ ExecFields(in)[f].value = IF f \in TextFields THEN Normal(in[f].raw) ELSE in[f].raw
<1>1. /\ f \in Names /\ ResolvedFacts(in)[f] = PrintedFacts(in)[f]
  BY ResolvedMasters
<1>2. PrintedFacts(in)[f].state = "present" /\ ExecFields(in)[f].value = PrintedFacts(in)[f].value
  BY <1>1, ReadIs
<1> QED BY <1>2, PrintedScalar

LEMMA DerivedValue ==
  \A value, state, from :
    Derived(value, state, from).value = value /\ Derived(value, state, from).state = state
  BY FactIs DEF Derived

LEMMA RowFound ==
  \A block, key, found, none :
    RowState(block, key, found, none) = "present" => block = "NONE" /\ Present(key) /\ found
  BY DEF RowState, BlockState, Present

LEMMA ColumnRead ==
  \A auth, scope, raw, value, parent :
    MasterFieldOf(auth, scope, raw, value, parent).state = "present" =>
      /\ scope \in auth /\ raw \notin {NULL, BAD}
      /\ MasterFieldOf(auth, scope, raw, value, parent).value = value
<1> TAKE auth, scope, raw, value, parent
<1> DEFINE state == IF scope \notin auth THEN "unavailable"
                    ELSE IF raw = NULL THEN "missing" ELSE IF raw = BAD THEN "invalid" ELSE "present"
           said  == IF scope \in auth /\ raw \notin {NULL, BAD} THEN value ELSE NULL
<1>1. MasterFieldOf(auth, scope, raw, value, parent) = Derived(said, state, {parent})
  BY DEF MasterFieldOf
<1>2. state = "present" => scope \in auth /\ raw \notin {NULL, BAD} /\ said = value
  OBVIOUS
<1> HIDE DEF state, said
<1> QED BY <1>1, <1>2, DerivedValue

LEMMA NoBlock ==
  ASSUME NEW snap, NEW scope, NEW unavailable, NEW malformed,
         "NONE" \notin {unavailable, malformed},
         MasterBlock(snap, scope, unavailable, malformed) = "NONE"
  PROVE  ~Missing(snap) /\ snap.rows # NULL /\ scope \in snap.auth
  BY DEF MasterBlock

\* The row of the supplier master that a payment is made by.
LEMMA SupplierRead ==
  ASSUME NEW in, Usable(ExecFields(in)["supplier.id"])
  PROVE  LET snap  == in["suppliers"]
             tax   == in["invoice.supplier_tax_id"].raw
             found == SupplierRowsOf(snap.rows, Normal(tax))
             row   == snap.rows[CHOOSE i \in found : TRUE]
         IN  /\ ~Missing(snap) /\ "supplier.identity" \in snap.auth
             /\ tax # NULL /\ found # {} /\ \A i, j \in found : snap.rows[i] = snap.rows[j]
             /\ ExecFields(in)["supplier.id"].value = row.id
             /\ Usable(ExecFields(in)["supplier.iban"]) =>
                  /\ "supplier.bank_details" \in snap.auth
                  /\ row.iban # NULL /\ ExecFields(in)["supplier.iban"].value = Normal(row.iban)
<1> DEFINE printed == PrintedFacts(in)
           tax     == printed["invoice.supplier_tax_id"]
           snap    == in["suppliers"]
           found   == SupplierRowsOf(snap.rows, tax.value)
           row     == snap.rows[CHOOSE i \in found : TRUE]
           state   == RowState(SupplierBlock(in), tax, SupplierFoundOf(snap.rows, tax.value), found = {})
           read(f) == SupplierOf(state, snap.auth, row, f)
<1>1. /\ "supplier.id" \in SupplierFields /\ "supplier.iban" \in SupplierFields
      /\ "invoice.supplier_tax_id" \in InvoiceScalars /\ "invoice.supplier_tax_id" \in TextFields
      /\ SupplierFields \subseteq Names
  BY ResolvedMasters DEF SupplierFields, InvoiceScalars, TextFields
<1>2. \A f \in SupplierFields : ResolvedFacts(in)[f] = read(f)
  <2>1. \A f \in SupplierFields : ResolvedFacts(in)[f] = SupplierFacts(in, printed)[f]
    BY ResolvedMasters
  <2>2. SupplierFacts(in, printed) =
          SupplierFactsOf(snap.rows, snap.auth, SupplierBlock(in), tax, found, SupplierFoundOf(snap.rows, tax.value))
    BY SupplierFactsAre
  <2> HIDE DEF found, tax, snap
  <2> QED BY <2>1, <2>2 DEF SupplierFactsOf, state, row
<1> HIDE DEF state
<1>3. ASSUME NEW f \in SupplierFields, Usable(ExecFields(in)[f])
      PROVE  read(f).state = "present" /\ ExecFields(in)[f].value = read(f).value
  BY <1>1, <1>2, <1>3, ReadIs
<1>4. read("supplier.id")
        = Derived(IF state = "present" THEN row.id ELSE NULL, state, {"invoice.supplier_tax_id"})
  BY Zenon DEF SupplierOf
<1>5. state = "present" /\ ExecFields(in)["supplier.id"].value = row.id
  <2> HIDE DEF read, row
  <2> QED BY <1>1, <1>3, <1>4, DerivedValue
<1>6. SupplierBlock(in) = "NONE" /\ Present(tax) /\ SupplierFoundOf(snap.rows, tax.value)
  BY <1>5, RowFound DEF state
<1>7. ~Missing(snap) /\ "supplier.identity" \in snap.auth
  BY <1>6, NoBlock DEF SupplierBlock
<1>8. found # {} /\ \A i, j \in found : snap.rows[i] = snap.rows[j]
  BY <1>6 DEF SupplierFoundOf
<1>9. in["invoice.supplier_tax_id"].raw # NULL /\ tax.value = Normal(in["invoice.supplier_tax_id"].raw)
  BY <1>1, <1>6, PrintedScalar DEF Present
<1>10. ASSUME Usable(ExecFields(in)["supplier.iban"])
       PROVE  /\ "supplier.bank_details" \in snap.auth
              /\ row.iban # NULL /\ ExecFields(in)["supplier.iban"].value = Normal(row.iban)
  <2>1. read("supplier.iban")
          = MasterFieldOf(snap.auth, "supplier.bank_details", row.iban, Normal(row.iban), "supplier.id")
    BY <1>5, Zenon DEF SupplierOf
  <2> HIDE DEF read, row
  <2> QED BY <1>1, <1>3, <1>10, <2>1, ColumnRead
<1> QED BY <1>5, <1>7, <1>8, <1>9, <1>10

\* The order that a payment is made for.
LEMMA OrderRead ==
  ASSUME NEW in, Usable(ExecFields(in)["order.supplier_id"])
  PROVE  LET snap  == in["orders"]
             ref   == in["invoice.order_reference"].raw
             found == OrderRowsOf(snap.rows, Normal(ref))
             row   == snap.rows[CHOOSE i \in found : TRUE]
         IN  /\ ~Missing(snap) /\ snap.rows # NULL /\ "order.identity" \in snap.auth
             /\ ref # NULL /\ found # {} /\ \A i, j \in found : snap.rows[i] = snap.rows[j]
             /\ ExecFields(in)["order.supplier_id"].value = Normal(row.owner)
             /\ Usable(ExecFields(in)["order.total"]) =>
                  /\ "order.amount" \in snap.auth /\ row.total \notin {NULL, BAD}
                  /\ ExecFields(in)["order.total"].value = row.total
             /\ Usable(ExecFields(in)["order.currency"]) => "order.currency" \in snap.auth
<1> DEFINE printed == PrintedFacts(in)
           ref     == printed["invoice.order_reference"]
           snap    == in["orders"]
           found   == OrderRowsOf(snap.rows, ref.value)
           row     == snap.rows[CHOOSE i \in found : TRUE]
           state   == RowState(OrderBlock(in), ref, OrderFoundOf(snap.rows, ref.value), found = {})
           read(f) == OrderOf(state, snap.auth, row, ref.value, f)
<1>1. /\ {"order.supplier_id", "order.total", "order.currency"} \subseteq OrderFields
      /\ "invoice.order_reference" \in InvoiceScalars /\ "invoice.order_reference" \in TextFields
      /\ OrderFields \subseteq Names
  BY ResolvedMasters DEF OrderFields, InvoiceScalars, TextFields
<1>2. \A f \in OrderFields : ResolvedFacts(in)[f] = read(f)
  <2>1. \A f \in OrderFields : ResolvedFacts(in)[f] = OrderFacts(in, printed)[f]
    BY ResolvedMasters
  <2>2. OrderFacts(in, printed) =
          OrderFactsOf(snap.rows, snap.auth, OrderBlock(in), ref, found, OrderFoundOf(snap.rows, ref.value))
    BY OrderFactsAre
  <2> HIDE DEF found, ref, snap
  <2> QED BY <2>1, <2>2 DEF OrderFactsOf, state, row
<1> HIDE DEF state
<1>3. ASSUME NEW f \in OrderFields, Usable(ExecFields(in)[f])
      PROVE  read(f).state = "present" /\ ExecFields(in)[f].value = read(f).value
  BY <1>1, <1>2, <1>3, ReadIs
<1>4. state = "present"
  <2>1. CASE state # "present"
    <3>1. read("order.supplier_id") = Derived(NULL, "unavailable", {"order.id"})
      BY <2>1, Zenon DEF OrderOf
    <3> HIDE DEF read
    <3> QED BY <1>1, <1>3, <3>1, DerivedValue
  <2> QED BY <2>1
<1>5. /\ read("order.supplier_id") = MasterFieldOf(snap.auth, "order.identity", row.owner, Normal(row.owner), "order.id")
      /\ read("order.total") = MasterFieldOf(snap.auth, "order.amount", row.total, row.total, "order.id")
      /\ read("order.currency") = MasterFieldOf(snap.auth, "order.currency", row.currency, row.currency, "order.id")
  BY <1>4, Zenon DEF OrderOf
<1>6. OrderBlock(in) = "NONE" /\ Present(ref) /\ OrderFoundOf(snap.rows, ref.value)
  BY <1>4, RowFound DEF state
<1>7. ~Missing(snap) /\ snap.rows # NULL /\ "order.identity" \in snap.auth
  BY <1>6, NoBlock DEF OrderBlock
<1>8. found # {} /\ \A i, j \in found : snap.rows[i] = snap.rows[j]
  BY <1>6 DEF OrderFoundOf
<1>9. in["invoice.order_reference"].raw # NULL /\ ref.value = Normal(in["invoice.order_reference"].raw)
  BY <1>1, <1>6, PrintedScalar DEF Present
<1> HIDE DEF read, row
<1>10. /\ ExecFields(in)["order.supplier_id"].value = Normal(row.owner)
       /\ Usable(ExecFields(in)["order.total"]) =>
            /\ "order.amount" \in snap.auth /\ row.total \notin {NULL, BAD}
            /\ ExecFields(in)["order.total"].value = row.total
       /\ Usable(ExecFields(in)["order.currency"]) => "order.currency" \in snap.auth
  BY <1>1, <1>3, <1>5, ColumnRead
<1> QED BY <1>7, <1>8, <1>9, <1>10 DEF row

\* What the ERP says of that order.
LEMMA OnlyIs == \A S : Cardinality(S) = 1 /\ S \subseteq {"PENDIENTE", "PAGADA"} => \E e : S = {e}
<1> TAKE S
<1>1. SUFFICES ASSUME Cardinality(S) = 1, S \subseteq {"PENDIENTE", "PAGADA"} PROVE \E e : S = {e}
  OBVIOUS
<1>2. S # {}
  BY <1>1, FS_EmptySet
<1>3. S # {"PENDIENTE", "PAGADA"}
  <2>1. Cardinality({"PAGADA"}) = 1 /\ IsFiniteSet({"PAGADA"})
    BY FS_Singleton
  <2>2. Cardinality({"PAGADA"} \union {"PENDIENTE"}) = 2
    BY <2>1, FS_AddElement
  <2>3. {"PAGADA"} \union {"PENDIENTE"} = {"PENDIENTE", "PAGADA"}
    OBVIOUS
  <2> QED BY <1>1, <2>2, <2>3
<1> QED BY <1>1, <1>2, <1>3

LEMMA ErpSaysOne ==
  ASSUME NEW states, ErpSays(states).state = "present"
  PROVE  ErpSays(states).value \in {"PENDIENTE", "PAGADA"} /\ states = {ErpSays(states).value}
<1> DEFINE known == states \intersect {"PENDIENTE", "PAGADA"}
           ref   == {"invoice.order_reference"}
           one   == CHOOSE s \in known : TRUE
<1>1. \/ ErpSays(states) = Derived(NULL, "missing", ref)
      \/ ErpSays(states) = Derived(NULL, "ambiguous", ref)
      \/ /\ states # {} /\ Cardinality(known) = 1 /\ states = known
         /\ ErpSays(states) = Derived(one, "present", ref)
  BY Zenon DEF ErpSays
<1> HIDE DEF one, known
<1>2. /\ Cardinality(known) = 1 /\ states = known /\ ErpSays(states).value = one
  BY <1>1, DerivedValue
<1>3. PICK e : known = {e}
  BY <1>2, OnlyIs DEF known
<1>4. one = e
  BY <1>3 DEF one
<1> QED BY <1>2, <1>3, <1>4 DEF known

LEMMA ErpRead ==
  ASSUME NEW in, Usable(ExecFields(in)["erp.order_payment_status"]),
         Usable(ExecFields(in)["invoice.order_reference"]),
         ExecFields(in)["erp.order_payment_status"].value # "PAGADA"
  PROVE  LET snap == in["erp"]
         IN  /\ ~Missing(snap) /\ "order.payment_status" \in snap.auth
             /\ ErpStatesOf(snap.rows, Normal(in["invoice.order_reference"].raw)) = {"PENDIENTE"}
<1> DEFINE snap   == in["erp"]
           printed == PrintedFacts(in)
           states == ErpStatesOf(snap.rows, printed["invoice.order_reference"].value)
           fact   == ErpFact(in, printed)
<1>1. /\ {"erp.order_payment_status", "invoice.order_reference"} \subseteq Names
      /\ "invoice.order_reference" \in InvoiceScalars /\ "invoice.order_reference" \in TextFields
      /\ ResolvedFacts(in)["erp.order_payment_status"] = fact
      /\ ResolvedFacts(in)["invoice.order_reference"] = printed["invoice.order_reference"]
  BY ResolvedMasters DEF InvoiceScalars, TextFields
<1>2. fact.state = "present" /\ fact.value = ExecFields(in)["erp.order_payment_status"].value
  BY <1>1, ReadIs
<1>3. printed["invoice.order_reference"].value = Normal(in["invoice.order_reference"].raw)
  BY <1>1, ReadIs, PrintedScalar
<1>4. Complete(snap) /\ "order.payment_status" \in snap.auth
  BY <1>2, ErpFactIs, DerivedValue
<1>5. fact = ErpSays(states)
  BY <1>4, ErpFactIs
<1> HIDE DEF fact, states
<1>6. states = {fact.value} /\ fact.value \in {"PENDIENTE", "PAGADA"}
  BY <1>2, <1>5, ErpSaysOne
<1>7. ~Missing(snap)
  BY <1>4 DEF Complete, Missing
<1>8. states = {"PENDIENTE"}
  BY <1>2, <1>6
<1> QED BY <1>3, <1>4, <1>7, <1>8 DEF states

----------------------------------------------------------------------------
(* What a payment shows of the checks: each assertion of each check passed.    *)

Passed(steps) == \A s \in steps : s.verdict \notin {"FAIL", "BLOCKED", "NEEDS_REVIEW"}

LEMMA FinishPasses ==
  ASSUME NEW rule, NEW steps, Finish(rule, steps).status \in {"PASS", "NOT_APPLICABLE"}
  PROVE  Passed(steps)
<1> DEFINE verdicts == {s.verdict : s \in steps}
           status   == IF "FAIL" \in verdicts THEN "VIOLATED"
                       ELSE IF "BLOCKED" \in verdicts \/ verdicts = {} THEN "BLOCKED"
                       ELSE IF "NEEDS_REVIEW" \in verdicts THEN "NEEDS_REVIEW" ELSE "PASS"
           shown    == IF steps = {} THEN {Step("BLOCKED", "NO_EXECUTABLE_ASSERTIONS", {})} ELSE steps
<1>1. Finish(rule, steps) = Result(rule, status, shown)
  BY DEF Finish
<1>2. \A s \in steps : s.verdict \in verdicts
  OBVIOUS
<1> HIDE DEF verdicts, shown
<1>3. status \in {"PASS", "NOT_APPLICABLE"}
  BY <1>1, ResultFields
<1>4. "FAIL" \notin verdicts /\ "BLOCKED" \notin verdicts /\ "NEEDS_REVIEW" \notin verdicts
  BY <1>3
<1> QED BY <1>2, <1>4 DEF Passed

LEMMA PaidPasses ==
  ASSUME NEW in, NEW crash, Advice(in, crash) = "PAGAR", NEW i \in DOMAIN EnabledRules(in),
         EnabledRules(in)[i].kind = "python_check"
  PROVE  Passed(CanonicalCheck(EnabledRules(in)[i], ExecFields(in), ExecutionTaxes(in), Observations(in),
                               Captured(in), in["today"]))
<1> DEFINE rule  == EnabledRules(in)[i]
           check == CanonicalCheck(rule, ExecFields(in), ExecutionTaxes(in), Observations(in),
                                   Captured(in), in["today"])
           declared == Declared(rule, ExecFields(in))
<1>1. Outcome(in, rule, crash).status \in {"PASS", "NOT_APPLICABLE"}
  BY AdviceIs, ExecutedIs
<1>2. /\ Outcome(in, rule, crash) # Raised(rule) /\ Outcome(in, rule, crash) # Refused(rule)
  BY <1>1, ResultFields DEF Raised, Refused
<1>3. Outcome(in, rule, crash) = Finish(rule, declared \union check)
  BY <1>2, OutcomeCases
<1> HIDE DEF declared, check, rule
<1>4. Passed(declared \union check)
  BY <1>1, <1>3, FinishPasses
<1> QED BY <1>4 DEF Passed, check, rule

LEMMA ClaimPasses ==
  \A fields, uses, holds, failure, code :
    failure \in {"FAIL", "NEEDS_REVIEW"} /\ Passed(Claim(fields, uses, holds, failure, code))
      => (\A f \in uses : Usable(fields[f])) /\ holds
<1> SUFFICES ASSUME NEW fields, NEW uses, NEW holds, NEW failure \in {"FAIL", "NEEDS_REVIEW"}, NEW code,
                    Passed(Claim(fields, uses, holds, failure, code))
             PROVE  (\A f \in uses : Usable(fields[f])) /\ holds
  OBVIOUS
<1>1. CASE ~ \A f \in uses : Usable(fields[f])
  <2>1. Claim(fields, uses, holds, failure, code) = {Step("BLOCKED", "UNUSABLE_INPUT", uses)}
    BY <1>1, Zenon DEF Claim
  <2> QED BY <2>1, StepIs DEF Passed
<1>2. CASE (\A f \in uses : Usable(fields[f])) /\ ~holds
  <2>1. Claim(fields, uses, holds, failure, code) = {Step(failure, code, uses)}
    BY <1>2, Zenon DEF Claim
  <2> QED BY <2>1, StepIs DEF Passed
<1> QED BY <1>1, <1>2

LEMMA VendorPasses ==
  ASSUME NEW p, NEW fields, p["require_iban_match"] = TRUE, Passed(Vendor(p, fields))
  PROVE  /\ Usable(fields["supplier.id"]) /\ Usable(fields["invoice.iban"]) /\ Usable(fields["supplier.iban"])
         /\ fields["invoice.iban"].value = fields["supplier.iban"].value
<1> DEFINE c1 == Claim(fields, {"supplier.id"}, TRUE, "FAIL", "SUPPLIER_UNRESOLVED")
           c4 == Claim(fields, {"invoice.iban", "supplier.iban"},
                       fields["invoice.iban"].value = fields["supplier.iban"].value,
                       "FAIL", "IBAN_MISMATCH")
<1>1. \E a, b, c : Vendor(p, fields) = c1 \union a \union b \union c4 \union c
  BY Zenon DEF Vendor
<1>2. Passed(c1) /\ Passed(c4)
  <2> HIDE DEF c1, c4
  <2> QED BY <1>1 DEF Passed
<1>3. Usable(fields["supplier.id"])
  <2>1. PICK yes : yes = TRUE
    OBVIOUS
  <2>2. Passed(Claim(fields, {"supplier.id"}, yes, "FAIL", "SUPPLIER_UNRESOLVED"))
    BY <1>2, <2>1
  <2> QED BY <2>2, ClaimPasses
<1>4. /\ Usable(fields["invoice.iban"]) /\ Usable(fields["supplier.iban"])
      /\ fields["invoice.iban"].value = fields["supplier.iban"].value
  <2>1. PICK same : same = (fields["invoice.iban"].value = fields["supplier.iban"].value)
    OBVIOUS
  <2>2. Passed(Claim(fields, {"invoice.iban", "supplier.iban"}, same, "FAIL", "IBAN_MISMATCH"))
    BY <1>2, <2>1
  <2>3. (\A f \in {"invoice.iban", "supplier.iban"} : Usable(fields[f])) /\ same
    BY <2>2, ClaimPasses
  <2> QED BY <2>1, <2>3
<1> QED BY <1>3, <1>4

LEMMA DatesPasses ==
  ASSUME NEW p, NEW fields, NEW today, p["allow_future"] = FALSE, Passed(Dates(p, fields, today))
  PROVE  Usable(fields["invoice.issue_date"]) /\ fields["invoice.issue_date"].value <= today
<1>1. PICK early : early = (fields["invoice.issue_date"].value <= today)
  OBVIOUS
<1>0. PICK uses : uses = {"invoice.issue_date"}
  OBVIOUS
<1> DEFINE c1 == Claim(fields, uses, early, "FAIL", "FUTURE_INVOICE_DATE")
<1>2. \E a : Dates(p, fields, today) = c1 \union a
  BY <1>0, <1>1, Zenon DEF Dates
<1>3. Passed(c1)
  <2> HIDE DEF c1
  <2> QED BY <1>2 DEF Passed
<1>4. (\A f \in uses : Usable(fields[f])) /\ early
  BY <1>3, ClaimPasses
<1> QED BY <1>0, <1>1, <1>4

LEMMA MonetaryPasses ==
  ASSUME NEW p, NEW fields, NEW uses, NEW difference, NEW code, p["order_currency_policy"] = "explicit",
         Passed(Monetary(p, fields, uses, difference, code))
  PROVE  /\ \A f \in uses : Usable(fields[f]) /\ Usable(fields[CurrencyField(f)])
         /\ Abs(difference) <= p["tolerance_eur"]
<1> DEFINE borrowed == /\ "order.total" \in uses
                       /\ p["order_currency_policy"] = "invoice"
                       /\ fields["order.currency"].state \in {"missing", "unavailable"}
           currencies == {CurrencyField(f) : f \in uses} \ (IF borrowed THEN {"order.currency"} ELSE {})
           all == uses \union currencies
           blocked(why) == {Step("BLOCKED", why, all)}
           made == Monetary(p, fields, uses, difference, code)
           close == Abs(difference) <= p["tolerance_eur"]
<1>1. made = IF \E f \in all : ~Usable(fields[f]) THEN blocked("UNUSABLE_AMOUNT_INPUT")
             ELSE IF \E f \in currencies : fields[f].value # "EUR"
             THEN blocked("UNSUPPORTED_CURRENCY_COMPARISON")
             ELSE {Step(IF close THEN "PASS" ELSE "FAIL", code, all)}
  BY Zenon DEF Monetary
<1>2. \A f \in uses : f \in all /\ CurrencyField(f) \in all
  OBVIOUS
<1>3. \A why : ~Passed(blocked(why))
  BY StepIs DEF Passed
<1>4. ~close => ~Passed({Step(IF close THEN "PASS" ELSE "FAIL", code, all)})
  BY StepIs DEF Passed
<1> HIDE DEF all, currencies, blocked, made, close
<1>5. (\A f \in all : Usable(fields[f])) /\ close
  <2>1. Passed(made)
    BY DEF made
  <2> QED BY <1>1, <1>3, <1>4, <2>1, Zenon
<1> QED BY <1>2, <1>5 DEF close

LEMMA AmountPasses ==
  ASSUME NEW p, NEW fields, NEW taxes, p["check_matches_pedido"] = TRUE,
         p["order_currency_policy"] = "explicit", Passed(Amount(p, fields, taxes))
  PROVE  /\ \A f \in OrderIdentity \union {"invoice.total", "order.total", "order.currency"} : Usable(fields[f])
         /\ fields["supplier.id"].value = fields["order.supplier_id"].value
         /\ Abs(fields["invoice.total"].value - fields["order.total"].value) <= p["tolerance_eur"]
<1> DEFINE owned == /\ \A f \in OrderIdentity : Usable(fields[f])
                    /\ fields["supplier.id"].value = fields["order.supplier_id"].value
           money == Monetary(p, fields, {"invoice.total", "order.total"},
                             fields["invoice.total"].value - fields["order.total"].value,
                             "ORDER_AMOUNT_MISMATCH")
           blocked == {Step("BLOCKED", "ORDER_IDENTITY_UNUSABLE", OrderIdentity)}
           c5 == IF ~p["check_matches_pedido"] THEN {} ELSE IF ~owned THEN blocked ELSE money
<1>1. \E rest : Amount(p, fields, taxes) = rest \union c5
  BY Zenon DEF Amount
<1>2. ~Passed(blocked)
  BY StepIs DEF Passed
<1>3. Passed(c5)
  <2> HIDE DEF c5
  <2> QED BY <1>1 DEF Passed
<1> HIDE DEF owned, blocked, money
<1>4. owned /\ Passed(money)
  BY <1>2, <1>3
<1>5. PICK gap : gap = fields["invoice.total"].value - fields["order.total"].value
  OBVIOUS
<1>6. Passed(Monetary(p, fields, {"invoice.total", "order.total"}, gap, "ORDER_AMOUNT_MISMATCH"))
  BY <1>4, <1>5 DEF money
<1>7. /\ \A f \in {"invoice.total", "order.total"} : Usable(fields[f]) /\ Usable(fields[CurrencyField(f)])
      /\ Abs(gap) <= p["tolerance_eur"]
  BY <1>6, MonetaryPasses
<1>8. CurrencyField("order.total") = "order.currency"
  BY DEF CurrencyField
<1> QED BY <1>4, <1>5, <1>7, <1>8 DEF owned

LEMMA ErpPasses ==
  ASSUME NEW fields, Passed(ErpPending(fields))
  PROVE  /\ Usable(fields["invoice.order_reference"]) /\ Usable(fields["erp.order_payment_status"])
         /\ fields["erp.order_payment_status"].value # "PAGADA"
<1> DEFINE uses == {"invoice.order_reference", "order.id", "order.supplier_id", "supplier.id",
                    "erp.order_payment_status"}
           paid == fields["erp.order_payment_status"].value = "PAGADA"
<1>1. \/ /\ \A f \in uses : Usable(fields[f])
         /\ ErpPending(fields) = {Step(IF paid THEN "FAIL" ELSE "PASS", "ERP_ALREADY_PAID", uses)}
      \/ ErpPending(fields) = {Step("BLOCKED", "ERP_PAYMENT_STATE_UNUSABLE", uses)}
  BY Zenon DEF ErpPending
<1>2. {"invoice.order_reference", "erp.order_payment_status"} \subseteq uses
  OBVIOUS
<1> HIDE DEF uses, paid
<1>3. (\A f \in uses : Usable(fields[f])) /\ ~paid
  BY <1>1, StepIs DEF Passed
<1> QED BY <1>2, <1>3 DEF paid

LEMMA HistoryPasses ==
  ASSUME NEW h, NEW seen, Passed(HistorySteps(h, seen))
  PROVE  seen.hard = {} /\ seen.coverage = "complete"
<1>0. PICK code : code = "DUPLICATE " \o h
  OBVIOUS
<1>1. /\ seen.hard # {} => Step("FAIL", code, HardFields) \in HistorySteps(h, seen)
      /\ seen.coverage # "complete"
           => Step("BLOCKED", "HISTORY_COVERAGE_INCOMPLETE", HardFields) \in HistorySteps(h, seen)
  BY <1>0, Zenon DEF HistorySteps
<1> QED BY <1>1, StepIs DEF Passed

LEMMA DuplicatesPasses ==
  ASSUME NEW p, NEW fields, NEW seen, NEW captured, p["require_erp_pending"] = TRUE,
         Passed(Duplicates(p, fields, seen, captured))
  PROVE  /\ Passed(ErpPending(fields))
         /\ \A h \in {"processed"} \union captured : seen[h].hard = {} /\ seen[h].coverage = "complete"
<1> DEFINE told == UNION {HistorySteps(h, seen[h]) : h \in {"processed"} \union captured}
           erp  == IF p["require_erp_pending"] THEN ErpPending(fields) ELSE {}
<1>0. Duplicates(p, fields, seen, captured) = erp \union told
  BY Zenon DEF Duplicates
<1>1. Duplicates(p, fields, seen, captured) = ErpPending(fields) \union told
  <2>1. erp = ErpPending(fields)
    OBVIOUS
  <2> QED BY <1>0, <2>1
<1>2. \A h \in {"processed"} \union captured : HistorySteps(h, seen[h]) \subseteq told
  OBVIOUS
<1> HIDE DEF told
<1>3. Passed(ErpPending(fields)) /\ \A h \in {"processed"} \union captured : Passed(HistorySteps(h, seen[h]))
  BY <1>1, <1>2 DEF Passed
<1> QED BY <1>3, HistoryPasses

----------------------------------------------------------------------------
(* What is paid is payable.                                                   *)

HistoryScope(h) == "history." \o h

\* A history that was looked at in full and holds no hard match of the invoice.
LEMMA HistoryRead ==
  ASSUME NEW in, NEW h \in Histories, Observations(in)[h].hard = {}, Observations(in)[h].coverage = "complete",
         NEW number, number = ExecFields(in)["invoice.number"].value,
         NEW supplier, supplier = ExecFields(in)["supplier.id"].value
  PROVE  /\ Usable(ExecFields(in)["invoice.number"])
         /\ in[h].avail = "available" /\ in[h].complete /\ HistoryScope(h) \in in[h].auth
         /\ \A i \in DOMAIN in[h].rows :
               ~(/\ in[h].rows[i] # BAD /\ ~OwnSubmission(in, h, in[h].rows[i])
                 /\ in[h].rows[i].number = number /\ in[h].rows[i].supplier = supplier)
<1> DEFINE fields == ExecFields(in)
           snap   == in[h]
           theirs == TheirRows(h, in["file_id"], snap.include, snap.rows)
           seen   == SeenOf(Entire(snap), snap.rows, theirs, fields["invoice.number"], fields["supplier.id"],
                            fields["invoice.total"], fields["invoice.issue_date"], fields["invoice.currency"])
           whole  == WholeRows(theirs, snap.rows, fields["invoice.number"], fields["supplier.id"],
                               fields["invoice.total"], fields["invoice.issue_date"])
           hard   == HardRows(theirs, snap.rows, fields["invoice.number"], fields["supplier.id"])
<1>1. Observations(in)[h] = IF ~MayBeRead(snap, h) THEN NotSeen ELSE seen
  <2>1. Observations(in)[h] = HistoryObservation(in, h, fields)
    BY ObservationsAre
  <2> QED BY <2>1, ObservationIs, Zenon
<1>2. /\ seen.hard = hard
      /\ seen.coverage = "complete" => Entire(snap) /\ whole
      /\ NotSeen.coverage = "unavailable"
  BY DEF SeenOf, NotSeen
<1> HIDE DEF seen, whole, hard
<1>3. MayBeRead(snap, h) /\ Entire(snap) /\ whole /\ hard = {}
  <2>1. MayBeRead(snap, h)
    BY <1>1, <1>2
  <2> QED BY <1>1, <1>2, <2>1
<1>4. HistoryScope(h) \in snap.auth
  BY <1>3, Zenon DEF MayBeRead, HistoryScope
<1>5. ASSUME NEW i \in DOMAIN snap.rows, snap.rows[i] # BAD, ~OwnSubmission(in, h, snap.rows[i]),
             snap.rows[i].number = number, snap.rows[i].supplier = supplier
      PROVE  FALSE
  <2> DEFINE row == snap.rows[i]
  <2>1. i \in theirs
    BY <1>5 DEF TheirRows, OwnSubmission, OwnOf
  <2> HIDE DEF theirs
  <2>2. /\ UsableTwo(fields["invoice.number"], fields["supplier.id"])
        /\ AccountedOf(fields["invoice.number"], fields["supplier.id"], fields["invoice.total"],
                       fields["invoice.issue_date"], row)
    BY <1>3, <2>1 DEF whole, WholeRows
  <2>3. Known(row.number) /\ Known(row.supplier)
    BY <1>5, <2>2 DEF AccountedOf, OffOf
  <2>4. HardOf(fields["invoice.number"], fields["supplier.id"], row)
    BY <1>5, <2>2, <2>3 DEF HardOf
  <2> QED BY <1>3, <2>1, <2>4 DEF hard, HardRows
<1>6. Usable(fields["invoice.number"])
  BY <1>3 DEF whole, WholeRows, UsableTwo
<1> QED BY <1>3, <1>4, <1>5, <1>6 DEF Entire

LEMMA QuietIsDoubtless ==
  ASSUME NEW in, Quiet(in), \A part \in Parts : Formed(part, in[part]), in["invoice.number"].raw # NULL
  PROVE  AllDoubtless(in) /\ in["document_type"].raw = "invoice" /\ ~in["annotations"]
<1>1. AcquisitionFindings(in) \subseteq {"HISTORY_RECORDS_MALFORMED"}
  BY QuietIs DEF Plain
<1>2. in["document_type"].raw = "invoice" /\ ~in["annotations"]
  BY <1>1 DEF AcquisitionFindings
<1>3. /\ in["reading"] /\ in["evidence"] /\ in["issues"] = <<>>
      /\ PrintedLinks(in) \intersect {"none", "broken", "background", "uncertain"} = {}
  BY QuietPaper
<1>4. PrintedLinks(in) \subseteq LinkKinds
  <2>1. \A f \in InvoiceScalars \union {"document_type"} : in[f].link \in LinkKinds
    BY DEF Formed, Linked, Parts
  <2>2. \A i \in DOMAIN in["lines"] : in["lines"][i].link \in LinkKinds
    <3>1. Formed("lines", in["lines"])
      BY DEF Parts
    <3> QED BY <3>1 DEF Formed, Linked
  <2>3. \A i \in DOMAIN in["taxes"], k \in {"label", "amount", "rate"} : in["taxes"][i][k].link \in LinkKinds
    <3>1. Formed("taxes", in["taxes"])
      BY DEF Parts
    <3> QED BY <3>1 DEF Formed, Linked
  <2>4. \A scalar : scalar.link \in LinkKinds => LinkOf(scalar) \subseteq LinkKinds
    BY DEF LinkOf
  <2> QED BY <2>1, <2>2, <2>3, <2>4 DEF PrintedLinks
<1>5. "good" \in PrintedLinks(in)
  <2>1. "invoice.number" \in InvoiceScalars
    BY DEF InvoiceScalars, TextFields
  <2>2. in["invoice.number"].link \in PrintedLinks(in)
    BY <2>1 DEF PrintedLinks, LinkOf
  <2> QED BY <1>3, <1>4, <2>2 DEF LinkKinds
<1>6. PrintedLinks(in) = {"good"}
  BY <1>3, <1>4, <1>5 DEF LinkKinds
<1> QED BY <1>2, <1>3, <1>6 DEF AllDoubtless

\* What each of the four checks has shown.
LEMMA AskedPasses ==
  ASSUME NEW in, NEW crash, Advice(in, crash) = "PAGAR", AsksEnough(in)
  PROVE  LET fields == ExecFields(in)
             V(f)   == fields[f].value
         IN  /\ \A f \in OrderIdentity \union
                   {"invoice.iban", "supplier.iban", "invoice.total", "order.total", "order.currency",
                    "erp.order_payment_status", "invoice.issue_date"} : Usable(fields[f])
             /\ V("invoice.iban") = V("supplier.iban")
             /\ V("supplier.id") = V("order.supplier_id")
             /\ \E tolerance \in 0 .. 1 : Abs(V("invoice.total") - V("order.total")) <= tolerance
             /\ V("erp.order_payment_status") # "PAGADA"
             /\ V("invoice.issue_date") <= in["today"]
             /\ \A h \in {"processed"} \union Captured(in) :
                   Observations(in)[h].hard = {} /\ Observations(in)[h].coverage = "complete"
<1> DEFINE fields == ExecFields(in)
           rules  == EnabledRules(in)
           check(rule) == CanonicalCheck(rule, fields, ExecutionTaxes(in), Observations(in),
                                         Captured(in), in["today"])
<1>0. \A i \in DOMAIN rules : rules[i].kind = "python_check" => Passed(check(rules[i]))
  BY PaidPasses
<1>1. /\ Usable(fields["supplier.id"]) /\ Usable(fields["invoice.iban"]) /\ Usable(fields["supplier.iban"])
      /\ fields["invoice.iban"].value = fields["supplier.iban"].value
  <2>1. PICK i \in DOMAIN rules : /\ rules[i].kind = "python_check" /\ rules[i].canonical = "VENDOR"
                                  /\ Params(rules[i])["require_iban_match"] = TRUE
    BY DEF AsksEnough, Asks
  <2>2. check(rules[i]) = Vendor(Params(rules[i]), fields)
    BY <2>1, Zenon DEF CanonicalCheck
  <2> HIDE DEF check
  <2> QED BY <1>0, <2>1, <2>2, VendorPasses
<1>2. /\ Passed(ErpPending(fields))
      /\ \A h \in {"processed"} \union Captured(in) :
            Observations(in)[h].hard = {} /\ Observations(in)[h].coverage = "complete"
  <2>1. PICK i \in DOMAIN rules : /\ rules[i].kind = "python_check" /\ rules[i].canonical = "DUPLICATES"
                                  /\ Params(rules[i])["require_erp_pending"] = TRUE
    BY DEF AsksEnough, Asks
  <2>2. check(rules[i]) = Duplicates(Params(rules[i]), fields, Observations(in), Captured(in))
    BY <2>1, Zenon DEF CanonicalCheck
  <2>3. PICK p : p = Params(rules[i])
    OBVIOUS
  <2>4. PICK seen : seen = Observations(in)
    OBVIOUS
  <2>5. Passed(Duplicates(p, fields, seen, Captured(in)))
    <3> HIDE DEF check
    <3> QED BY <1>0, <2>1, <2>2, <2>3, <2>4
  <2>6. p["require_erp_pending"] = TRUE
    BY <2>1, <2>3
  <2> HIDE DEF check, fields, rules
  <2>7. /\ Passed(ErpPending(fields))
        /\ \A h \in {"processed"} \union Captured(in) : seen[h].hard = {} /\ seen[h].coverage = "complete"
    BY <2>5, <2>6, DuplicatesPasses
  <2> QED BY <2>4, <2>7
<1>3. /\ \A f \in OrderIdentity \union {"invoice.total", "order.total", "order.currency"} : Usable(fields[f])
      /\ fields["supplier.id"].value = fields["order.supplier_id"].value
      /\ \E tolerance \in 0 .. 1 : Abs(fields["invoice.total"].value - fields["order.total"].value) <= tolerance
  <2>1. PICK i \in DOMAIN rules : /\ rules[i].kind = "python_check" /\ rules[i].canonical = "AMOUNT"
                                  /\ Params(rules[i])["check_matches_pedido"] = TRUE
                                  /\ Params(rules[i])["order_currency_policy"] = "explicit"
                                  /\ Params(rules[i])["tolerance_eur"] \in 0 .. 1
    BY DEF AsksEnough, Asks
  <2>2. check(rules[i]) = Amount(Params(rules[i]), fields, ExecutionTaxes(in))
    BY <2>1, Zenon DEF CanonicalCheck
  <2>3. PICK p : p = Params(rules[i])
    OBVIOUS
  <2>4. Passed(Amount(p, fields, ExecutionTaxes(in)))
    <3> HIDE DEF check
    <3> QED BY <1>0, <2>1, <2>2, <2>3
  <2>5. p["check_matches_pedido"] = TRUE /\ p["order_currency_policy"] = "explicit" /\ p["tolerance_eur"] \in 0 .. 1
    BY <2>1, <2>3
  <2> HIDE DEF check, fields, rules
  <2>6. /\ \A f \in OrderIdentity \union {"invoice.total", "order.total", "order.currency"} : Usable(fields[f])
        /\ fields["supplier.id"].value = fields["order.supplier_id"].value
        /\ Abs(fields["invoice.total"].value - fields["order.total"].value) <= p["tolerance_eur"]
    BY <2>4, <2>5, AmountPasses
  <2> QED BY <2>5, <2>6
<1>4. Usable(fields["invoice.issue_date"]) /\ fields["invoice.issue_date"].value <= in["today"]
  <2>1. PICK i \in DOMAIN rules : /\ rules[i].kind = "python_check" /\ rules[i].canonical = "DATES"
                                  /\ Params(rules[i])["allow_future"] = FALSE
    BY DEF AsksEnough, Asks
  <2>2. check(rules[i]) = Dates(Params(rules[i]), fields, in["today"])
    BY <2>1, Zenon DEF CanonicalCheck
  <2> HIDE DEF check
  <2> QED BY <1>0, <2>1, <2>2, DatesPasses
<1>5. /\ Usable(fields["erp.order_payment_status"]) /\ fields["erp.order_payment_status"].value # "PAGADA"
  BY <1>2, ErpPasses
<1> HIDE DEF fields
<1> QED BY <1>1, <1>2, <1>3, <1>4, <1>5 DEF fields

\* The rows that may settle a payment, read off the input.
ErpRowsOf(rows, ref) ==
    {i \in DOMAIN rows : rows[i] # BAD /\ (rows[i].pedido # NULL /\ Normal(rows[i].pedido) = ref)}

LEMMA RowsSettle ==
  ASSUME NEW in, NEW raw, raw # NULL
  PROVE  /\ RowsWhere(in["suppliers"], LAMBDA r : Same(r.nif, raw)) = SupplierRowsOf(in["suppliers"].rows, Normal(raw))
         /\ RowsWhere(in["orders"], LAMBDA r : Same(r.pedido, raw)) = OrderRowsOf(in["orders"].rows, Normal(raw))
         /\ RowsWhere(in["erp"], LAMBDA r : Same(r.pedido, raw)) = ErpRowsOf(in["erp"].rows, Normal(raw))
<1>1. RowsWhere(in["suppliers"], LAMBDA r : Same(r.nif, raw)) = SupplierRowsOf(in["suppliers"].rows, Normal(raw))
  BY DEF RowsWhere, SupplierRowsOf, Same
<1>2. RowsWhere(in["orders"], LAMBDA r : Same(r.pedido, raw)) = OrderRowsOf(in["orders"].rows, Normal(raw))
  BY DEF RowsWhere, OrderRowsOf, Same
<1>3. RowsWhere(in["erp"], LAMBDA r : Same(r.pedido, raw)) = ErpRowsOf(in["erp"].rows, Normal(raw))
  BY DEF RowsWhere, ErpRowsOf, Same
<1> QED BY <1>1, <1>2, <1>3

(* What the advice pays is payable by the raw input: every conjunct of what    *)
(* payable means is what some check has shown of the facts it used.            *)
LEMMA PaidPayable ==
  ASSUME NEW in, NEW crash, Advice(in, crash) = "PAGAR", AsksEnough(in),
         \A part \in Parts : Formed(part, in[part])
  PROVE  PayableInvoice(in)
<1> DEFINE fields  == ExecFields(in)
           V(f)    == fields[f].value
           Raw(f)  == in[f].raw
           tax     == Raw("invoice.supplier_tax_id")
           ref     == Raw("invoice.order_reference")
           vendors == RowsWhere(in["suppliers"], LAMBDA r : Same(r.nif, Raw("invoice.supplier_tax_id")))
           orders  == RowsWhere(in["orders"], LAMBDA r : Same(r.pedido, Raw("invoice.order_reference")))
           ledger  == RowsWhere(in["erp"], LAMBDA r : Same(r.pedido, Raw("invoice.order_reference")))
           Vendor1 == in["suppliers"].rows[CHOOSE i \in vendors : TRUE]
           Order1  == in["orders"].rows[CHOOSE i \in orders : TRUE]
           Earlier(h) == RowsWhere(in[h], LAMBDA r :
                            /\ ~OwnSubmission(in, h, r)
                            /\ r.number = Normal(Raw("invoice.number"))
                            /\ r.supplier = Vendor1.id)
<1>1. /\ \A f \in OrderIdentity \union
            {"invoice.iban", "supplier.iban", "invoice.total", "order.total", "order.currency",
             "erp.order_payment_status", "invoice.issue_date"} : Usable(fields[f])
      /\ V("invoice.iban") = V("supplier.iban")
      /\ V("supplier.id") = V("order.supplier_id")
      /\ \E tolerance \in 0 .. 1 : Abs(V("invoice.total") - V("order.total")) <= tolerance
      /\ V("erp.order_payment_status") # "PAGADA"
      /\ V("invoice.issue_date") <= in["today"]
      /\ \A h \in {"processed"} \union Captured(in) :
            Observations(in)[h].hard = {} /\ Observations(in)[h].coverage = "complete"
  BY AskedPasses
<1>2. {"supplier.id", "order.supplier_id", "invoice.order_reference"} \subseteq OrderIdentity
  BY DEF OrderIdentity
<1>3. {"invoice.number", "invoice.iban"} \subseteq TextFields /\ TextFields \subseteq InvoiceScalars
      /\ {"invoice.issue_date", "invoice.total"} \subseteq InvoiceScalars \ TextFields
  BY DEF InvoiceScalars, TextFields
<1>4. {"processed"} \union Captured(in) \subseteq Histories
  BY DEF Captured, Histories
<1>5. /\ ~Missing(in["suppliers"]) /\ "supplier.identity" \in in["suppliers"].auth
      /\ "supplier.bank_details" \in in["suppliers"].auth
      /\ vendors # {} /\ \A i \in vendors : in["suppliers"].rows[i] = Vendor1
      /\ V("supplier.id") = Vendor1.id
      /\ Vendor1.iban # NULL /\ V("supplier.iban") = Normal(Vendor1.iban)
  <2>1. Usable(fields["supplier.id"]) /\ Usable(fields["supplier.iban"])
    BY <1>1, <1>2
  <2>2. tax # NULL
    BY <2>1, SupplierRead
  <2>3. vendors = SupplierRowsOf(in["suppliers"].rows, Normal(tax))
    BY <2>2, RowsSettle
  <2>4. PICK found : found = SupplierRowsOf(in["suppliers"].rows, Normal(tax))
    OBVIOUS
  <2>5. PICK row : row = in["suppliers"].rows[CHOOSE i \in found : TRUE]
    OBVIOUS
  <2>6. /\ ~Missing(in["suppliers"]) /\ "supplier.identity" \in in["suppliers"].auth
        /\ found # {} /\ \A i, j \in found : in["suppliers"].rows[i] = in["suppliers"].rows[j]
        /\ V("supplier.id") = row.id
        /\ "supplier.bank_details" \in in["suppliers"].auth
        /\ row.iban # NULL /\ V("supplier.iban") = Normal(row.iban)
    BY <2>1, <2>4, <2>5, SupplierRead
  <2>7. vendors = found /\ Vendor1 = row
    BY <2>3, <2>4, <2>5
  <2>8. \A i \in found : in["suppliers"].rows[i] = row
    BY <2>5, <2>6
  <2> HIDE DEF vendors, Vendor1, fields
  <2> QED BY <2>6, <2>7, <2>8
<1>6. /\ ~Missing(in["orders"]) /\ in["orders"].rows # NULL
      /\ {"order.identity", "order.amount", "order.currency"} \subseteq in["orders"].auth
      /\ ref # NULL /\ orders # {} /\ \A i \in orders : in["orders"].rows[i] = Order1
      /\ V("order.supplier_id") = Normal(Order1.owner)
      /\ Order1.total \notin {NULL, BAD} /\ V("order.total") = Order1.total
  <2>1. Usable(fields["order.supplier_id"]) /\ Usable(fields["order.total"]) /\ Usable(fields["order.currency"])
    BY <1>1, <1>2
  <2>2. ref # NULL
    BY <2>1, OrderRead
  <2>3. orders = OrderRowsOf(in["orders"].rows, Normal(ref))
    BY <2>2, RowsSettle
  <2>4. PICK found : found = OrderRowsOf(in["orders"].rows, Normal(ref))
    OBVIOUS
  <2>5. PICK row : row = in["orders"].rows[CHOOSE i \in found : TRUE]
    OBVIOUS
  <2>6. /\ ~Missing(in["orders"]) /\ in["orders"].rows # NULL /\ "order.identity" \in in["orders"].auth
        /\ found # {} /\ \A i, j \in found : in["orders"].rows[i] = in["orders"].rows[j]
        /\ V("order.supplier_id") = Normal(row.owner)
        /\ "order.amount" \in in["orders"].auth /\ row.total \notin {NULL, BAD}
        /\ V("order.total") = row.total /\ "order.currency" \in in["orders"].auth
    BY <2>1, <2>4, <2>5, OrderRead
  <2>7. orders = found /\ Order1 = row
    BY <2>3, <2>4, <2>5
  <2>8. \A i \in found : in["orders"].rows[i] = row
    BY <2>5, <2>6
  <2> HIDE DEF orders, Order1, fields, ref
  <2> QED BY <2>2, <2>6, <2>7, <2>8
<1>7. /\ ~Missing(in["erp"]) /\ "order.payment_status" \in in["erp"].auth
      /\ ledger # {} /\ \A i \in ledger : in["erp"].rows[i].estado = "PENDIENTE"
  <2>1. /\ ~Missing(in["erp"]) /\ "order.payment_status" \in in["erp"].auth
        /\ ErpStatesOf(in["erp"].rows, Normal(ref)) = {"PENDIENTE"}
    BY <1>1, <1>2, ErpRead
  <2>2. ledger = ErpRowsOf(in["erp"].rows, Normal(ref))
    BY <1>6, RowsSettle
  <2>3. ErpStatesOf(in["erp"].rows, Normal(ref))
          = {in["erp"].rows[i].estado : i \in ErpRowsOf(in["erp"].rows, Normal(ref))}
    BY DEF ErpStatesOf, ErpRowsOf
  <2>4. PICK rows : rows = ErpRowsOf(in["erp"].rows, Normal(ref))
    OBVIOUS
  <2> HIDE DEF ledger, ref
  <2>5. {in["erp"].rows[i].estado : i \in rows} = {"PENDIENTE"}
    BY <2>1, <2>3, <2>4
  <2> QED BY <2>1, <2>2, <2>4, <2>5
<1>8. /\ \A h \in {"processed"} \union Captured(in) :
            /\ in[h].avail = "available" /\ in[h].complete /\ HistoryScope(h) \in in[h].auth
            /\ \A i \in DOMAIN in[h].rows :
                  ~(/\ in[h].rows[i] # BAD /\ ~OwnSubmission(in, h, in[h].rows[i])
                    /\ in[h].rows[i].number = V("invoice.number")
                    /\ in[h].rows[i].supplier = V("supplier.id"))
      /\ Usable(fields["invoice.number"])
  <2>1. PICK number, supplier : number = V("invoice.number") /\ supplier = V("supplier.id")
    OBVIOUS
  <2>2. \A h \in {"processed"} \union Captured(in) :
          /\ Usable(fields["invoice.number"])
          /\ in[h].avail = "available" /\ in[h].complete /\ HistoryScope(h) \in in[h].auth
          /\ \A i \in DOMAIN in[h].rows :
                ~(/\ in[h].rows[i] # BAD /\ ~OwnSubmission(in, h, in[h].rows[i])
                  /\ in[h].rows[i].number = number /\ in[h].rows[i].supplier = supplier)
    <3> TAKE h \in {"processed"} \union Captured(in)
    <3>1. Observations(in)[h].hard = {} /\ Observations(in)[h].coverage = "complete" /\ h \in Histories
      BY <1>1, <1>4
    <3> QED BY <2>1, <3>1, HistoryRead
  <2> HIDE DEF fields
  <2> QED BY <2>1, <2>2
<1>9. /\ Raw("invoice.number") # NULL /\ V("invoice.number") = Normal(Raw("invoice.number"))
      /\ Raw("invoice.iban") # NULL /\ V("invoice.iban") = Normal(Raw("invoice.iban"))
      /\ V("invoice.issue_date") = Raw("invoice.issue_date")
      /\ Raw("invoice.total") \notin {NULL, BAD} /\ V("invoice.total") = Raw("invoice.total")
  BY <1>1, <1>3, <1>8, ReadScalar
<1>10. Abs(Raw("invoice.total") - Order1.total) <= 1
  <2>1. Raw("invoice.total") \in Int
    <3>1. "invoice.total" \in Parts
      BY <1>3 DEF Parts
    <3>2. Raw("invoice.total") \in Amounts
      BY <3>1 DEF Formed
    <3> QED BY <1>9, <3>2 DEF Amounts
  <2>2. Order1.total \in Int
    <3>1. Formed("orders", in["orders"])
      BY DEF Parts, Snapshots
    <3>2. \A i \in DOMAIN in["orders"].rows :
             in["orders"].rows[i] # BAD => in["orders"].rows[i].total \in Amounts
      BY <1>6, <3>1 DEF Formed
    <3>3. \A i \in orders : i \in DOMAIN in["orders"].rows /\ in["orders"].rows[i] # BAD
      BY DEF RowsWhere
    <3>4. Order1.total \in Amounts
      <4> HIDE DEF orders
      <4> QED BY <1>6, <3>2, <3>3
    <3> QED BY <1>6, <3>4 DEF Amounts
  <2>3. PICK tolerance \in 0 .. 1 : Abs(Raw("invoice.total") - Order1.total) <= tolerance
    BY <1>1, <1>6, <1>9
  <2> QED BY <2>1, <2>2, <2>3 DEF Abs
<1>11. AllDoubtless(in) /\ in["document_type"].raw = "invoice" /\ ~in["annotations"]
  BY <1>9, PaidIsQuiet, QuietIsDoubtless
<1>12. Trusted(in)
  <2>1. \A h \in {"processed"} \union Captured(in) : ("history." \o h) \in in[h].auth
    BY <1>8, Zenon DEF HistoryScope
  <2> QED BY <1>5, <1>6, <1>7, <2>1, Zenon DEF Trusted
<1>13. \A i \in vendors : /\ in["suppliers"].rows[i].id = Vendor1.id
                          /\ Same(in["suppliers"].rows[i].iban, Raw("invoice.iban"))
  <2> HIDE DEF vendors, Vendor1
  <2> QED BY <1>1, <1>5, <1>9 DEF Same
<1>14. \A i \in orders : /\ Normal(in["orders"].rows[i].owner) = Vendor1.id
                         /\ Abs(Raw("invoice.total") - in["orders"].rows[i].total) <= 1
  <2> HIDE DEF vendors, Vendor1, orders, Order1, fields
  <2> QED BY <1>1, <1>5, <1>6, <1>10
<1>15. \A h \in {"processed"} \union Captured(in) :
          in[h].avail = "available" /\ in[h].complete /\ Earlier(h) = {}
  <2>1. \A h \in {"processed"} \union Captured(in) : \A i \in DOMAIN in[h].rows :
           ~(/\ in[h].rows[i] # BAD
             /\ ~OwnSubmission(in, h, in[h].rows[i])
             /\ in[h].rows[i].number = Normal(Raw("invoice.number"))
             /\ in[h].rows[i].supplier = Vendor1.id)
    BY <1>5, <1>8, <1>9
  <2> HIDE DEF Vendor1
  <2>2. \A h \in {"processed"} \union Captured(in) : Earlier(h) = {}
    BY <2>1 DEF RowsWhere
  <2> QED BY <1>8, <2>2
<1>16. Raw("invoice.issue_date") <= in["today"]
  BY <1>1, <1>9
<1> QED BY <1>5, <1>6, <1>7, <1>11, <1>12, <1>13, <1>14, <1>15, <1>16, Zenon DEF PayableInvoice

LEMMA PaidFollows == MemoryInv => PaidIsPayable
<1> SUFFICES ASSUME MemoryInv, decision = "PAGAR", AsksEnough(input) PROVE PayableInvoice(input)
  BY DEF PaidIsPayable
<1>1. EvaluationInv /\ InputFormed
  BY DEF MemoryInv
<1>2. PICK d \in Crashes : Advice(input, d) = "PAGAR"
  <2>1. stage = "decided"
    BY <1>1, EvaluationAssumption DEF EvaluationInv, Decisions
  <2> QED BY <1>1, <2>1 DEF EvaluationInv, Advice
<1>3. \A part \in Parts : Formed(part, input[part])
  BY <1>1, InputAssumption DEF InputFormed
<1> QED BY <1>2, <1>3, PaidPayable

(* Under a rule book with the four checks, whatever else is in it, no invoice  *)
(* is recommended for payment unless the raw input makes it payable            *)
(* (decision_context, execution_context, evaluator).                           *)
THEOREM OnlyPayableIsPaid == SpecReviewed => []PaidIsPayable
  BY ReviewFrame, MemoryInvariant, PaidFollows, PTL

(* An approval that asks for nobody's attention is of an invoice that is       *)
(* payable by the raw input, and leaves nothing to look at: no source was cut,  *)
(* missing, unreadable or left unread, every rule is supported and nothing      *)
(* blocking was said, whatever the model answered (review_evaluation).         *)
THEOREM UnattendedLeavesNothing == SpecReviewed => []UnattendedIsPayable
  BY ReviewInvariant, UnattendedFollows, ReviewFrame, MemoryInvariant, PaidFollows, PTL

=============================================================================
