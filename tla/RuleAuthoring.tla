------------------------------ MODULE RuleAuthoring ------------------------------
(***************************************************************************)
(* How a revision gets the rules it decides with: backend/rules_cache.py    *)
(* generates them once for each exact workbook, profile and pinned run, by  *)
(* rules_ingestion/build_rules.py (build_frozen_rules), store.py, merge.py  *)
(* and codegen.py, and reuses them afterwards.                              *)
(*                                                                         *)
(* A revision is a process of backend/run_revision.py, one for each request *)
(* key; what it does with its rules is module EngineRuns. One that brings   *)
(* its ruleset in a file asks for no generation, nor does a correction: they *)
(* are in EngineRuns (pinned) and not here. The answers of the paid          *)
(* classifiers and of the drafting model are arbitrary members of small      *)
(* sets, and NULL is a model that cannot be reached.                         *)
(***************************************************************************)
EXTENDS NormReading

CONSTANTS
    Revisions,     \* request keys of the revisions
    Books,         \* the successive contents of the norm sheet: sequences of lines
    Profiles,      \* policy |-> [enabled, onFail, params, sheetParams, enableNew]
    JevAnswers,    \* [label, sure, isRule], or NULL
    DeepAnswers,   \* [label, sure, isRule, evidence], or NULL
    Drafts,        \* drafts of the model for a line of no family, or NULL
    MaxFaults      \* bound: exceptions while rules are generated, and deaths

ASSUME AuthoringAssumption ==
    /\ NULL \notin Revisions /\ MaxFaults \in Nat
    /\ \A p \in DOMAIN Profiles : DOMAIN Profiles[p].params = Canonicals
    /\ DOMAIN Books = 1 .. Len(Books) /\ Len(Books) \in Nat \ {0}
    /\ \A b \in DOMAIN Books :
         /\ Len(Books[b]) \in Nat /\ DOMAIN Books[b] = 1 .. Len(Books[b])
         /\ \A i \in DOMAIN Books[b] : Books[b][i].hits \in [Canonicals -> Nat]
    /\ \A answer \in (JevAnswers \union DeepAnswers) \ {NULL} : answer.label \in Labels

VARIABLES
    book,      \* which content the norm sheet has now
    runs,      \* engine_runs of the generations: signature |-> [state, rules]
    work,      \* what each revision is doing
    faults     \* exceptions and deaths so far

vars == <<book, runs, work, faults>>

Signatures == [book : DOMAIN Books, policy : DOMAIN Profiles, pinned : Revisions \union {NULL}]
Idle == [pc |-> "idle", sig |-> NULL, classes |-> <<>>, todo |-> {}, rules |-> NULL]

Init ==
    /\ book = 1
    /\ runs = [s \in {} |-> NULL]
    /\ work = [r \in Revisions |-> Idle]
    /\ faults = 0

----------------------------------------------------------------------------
(* The rule set of a classified sheet.                                        *)

InputFields == [f \in Canonicals |->
    CASE f = "VENDOR"     -> {"supplier.id", "nif", "iban"}
      [] f = "DUPLICATES" -> {"invoice.number", "supplier.id", "invoice.total", "fecha", "pedido"}
      [] f = "AMOUNT"     -> {"invoice.line_amounts", "invoice.taxable_base", "iva", "invoice.total",
                              "invoice.currency", "pedido"}
      [] f = "AUTHORIZATION" -> {"invoice.total"}
      [] f = "DATES"      -> {"fecha", "supplier.id"}
      [] f = "MISSING"    -> {"nif", "iban", "pedido", "importe", "iva", "fecha"}]

Lines(sig) == Books[sig.book]
Backing(classes, f) == {i \in DOMAIN classes : classes[i].route = "ACTIVATE" /\ classes[i].label = f}

\* What the executor reads of a setting: the amount, whatever way it was written.
Executed(p, value) == IF p \in {"tolerance_eur", "escalate_above_eur"} THEN value.cents ELSE value

\* build_ruleset and _canonical_entry: the profile's rule, with what its lines set.
CanonicalRule(f, sig, classes) ==
    LET profile == Profiles[sig.policy]
        own     == profile.params[f]
        backing == Backing(classes, f)
        set     == IF profile.sheetParams THEN Settings(f, {Lines(sig)[i] : i \in backing}) ELSE <<>>
    IN  [id |-> f, canonical |-> f, kind |-> "python_check", declared |-> TRUE,
         enabled |-> profile.enabled[f] \/ DOMAIN set # {},
         onFail  |-> profile.onFail[f],
         params  |-> [p \in DOMAIN set \union DOMAIN own |->
                        IF p \in DOMAIN set THEN Executed(p, set[p]) ELSE own[p]],
         inputs  |-> InputFields[f], applies |-> NULL, group |-> NULL, otherwise |-> NULL,
         lines   |-> backing]

\* _new_rule_entry: disabled until its text compiles.
NewRule(i) ==
    [id |-> <<"NEW", i>>, canonical |-> NULL, kind |-> "pending", declared |-> TRUE,
     enabled |-> FALSE, onFail |-> "ESCALAR", params |-> <<>>, inputs |-> {},
     applies |-> NULL, group |-> NULL, otherwise |-> NULL, lines |-> {i}]

\* Mutant: a line with a label is taken for a member of that family.
FiledWithoutLabel(classes, route) ==
    {i \in DOMAIN classes : classes[i].route = route /\ classes[i].label = "NONE"}

\* declared_new_rules and build_merged: where the lines of no family go.
Filed(classes, route) == {i \in DOMAIN classes : classes[i].route = route}

Ruleset(sig, classes) ==
    [rules    |-> {CanonicalRule(f, sig, classes) : f \in Canonicals}
                  \union {NewRule(i) : i \in Filed(classes, "NEW_RULE")},
     rejected |-> Filed(classes, "NOT_A_RULE"),
     of       |-> [book |-> sig.book, policy |-> sig.policy]]

\* enrich_new_rules, for one rule.
Enriched(rule, compiled, enableNew) ==
    IF compiled = BAD THEN rule
    ELSE [rule EXCEPT !.kind = "structured", !.group = compiled.group, !.onFail = compiled.onFail,
                      !.otherwise = IF compiled.onFail = "NO_PAGAR" THEN "FAIL" ELSE "NEEDS_REVIEW",
                      !.enabled = enableNew]

----------------------------------------------------------------------------
(* A revision asks for its rules.                                             *)

Doing(r, pc)  == work[r].pc = pc
Become(r, w)  == work' = [work EXCEPT ![r] = w]
Goto(r, pc)   == Become(r, [work[r] EXCEPT !.pc = pc])
State(sig)    == IF sig \in DOMAIN runs THEN runs[sig].state ELSE "absent"
Record(sig, state, rules) ==
    runs' = [g \in DOMAIN runs \union {sig} |->
               IF g = sig THEN [state |-> state, rules |-> rules] ELSE runs[g]]
Serve(r, rules) == Become(r, [work[r] EXCEPT !.pc = "served", !.rules = rules])

\* generation_signature, over the workbook and the profile as they are read now.
Begin(r, policy, pinned) ==
    /\ Doing(r, "idle")
    /\ Become(r, [Idle EXCEPT !.pc = "asking",
                              !.sig = [book |-> book, policy |-> policy, pinned |-> pinned]])
    /\ UNCHANGED <<book, runs, faults>>

\* Mutant: what an interrupted generation left is generated again.
ClaimableIfNotCompleted(sig) == State(sig) # "completed"

\* The INSERT of claim_run.
Claimable(sig) == State(sig) = "absent"

ClaimRun(r) ==
    /\ Doing(r, "asking") /\ Claimable(work[r].sig)
    /\ Record(work[r].sig, "running", NULL)
    /\ Goto(r, IF work[r].sig.pinned # NULL THEN "pinning" ELSE "classifying")
    /\ UNCHANGED <<book, faults>>

\* A completed generation is reused; any other stops the revision.
Reuse(r) ==
    LET sig == work[r].sig
    IN  /\ Doing(r, "asking") /\ ~Claimable(sig)
        /\ IF State(sig) = "completed" THEN Serve(r, runs[sig].rules) ELSE Goto(r, "failed")
        /\ UNCHANGED <<book, runs, faults>>

ClassifyLine(r, jev, deep) ==
    LET w == work[r]
        i == Len(w.classes) + 1
        class == Classify(Lines(w.sig)[i], jev, deep)
        done  == Append(w.classes, class)
    IN  /\ Doing(r, "classifying") /\ i \in DOMAIN Lines(w.sig)
        /\ Become(r, IF Len(done) < Len(Lines(w.sig)) THEN [w EXCEPT !.classes = done]
                     ELSE [w EXCEPT !.pc = "compiling", !.classes = <<>>,
                                    !.todo = Filed(done, "NEW_RULE"),
                                    !.rules = Ruleset(w.sig, done)])
        /\ UNCHANGED <<book, runs, faults>>

\* The rules of no family, in the order of their lines.
CompileRule(r, drafted) ==
    LET w == work[r]
        i == Min(w.todo)
        compiled == CompileNewRule(Lines(w.sig)[i], drafted)
        new  == NewRule(i)
        rule == Enriched(new, compiled, Profiles[w.sig.policy].enableNew)
    IN  /\ Doing(r, "compiling") /\ w.todo # {}
        /\ Become(r, [w EXCEPT !.todo = @ \ {i}, !.rules.rules = (@ \ {new}) \union {rule}])
        /\ UNCHANGED <<book, runs, faults>>

\* finish_run, and the rules go to the revision.
Publish(r) ==
    /\ Doing(r, "compiling") /\ work[r].todo = {}
    /\ Record(work[r].sig, "completed", work[r].rules)
    /\ Serve(r, work[r].rules)
    /\ UNCHANGED <<book, faults>>

\* Mutant: a completed run is pinned whatever its sources were.
PinnableIfCompleted(s, sig) == work[s].pc = "completed"

\* The pinned revision completed, over the very workbook and profile of this one. That
\* it has the audit of a generation holds of every revision here: only those decided by
\* a file, and corrections, lack one.
Pinnable(s, sig) ==
    /\ work[s].pc = "completed"
    /\ work[s].sig.book = sig.book /\ work[s].sig.policy = sig.policy

Pin(r) ==
    LET sig == work[r].sig
    IN  /\ Doing(r, "pinning") /\ Pinnable(sig.pinned, sig)
        /\ Record(sig, "completed", work[sig.pinned].rules)
        /\ Serve(r, work[sig.pinned].rules)
        /\ UNCHANGED <<book, faults>>

\* unknown_run, after any exception: a pin that does not hold, a broken answer, a store.
Abort(r) ==
    LET refused == Doing(r, "pinning") /\ ~Pinnable(work[r].sig.pinned, work[r].sig)
    IN  /\ work[r].pc \in {"pinning", "classifying", "compiling"}
        /\ refused \/ faults < MaxFaults
        /\ faults' = IF refused THEN faults ELSE faults + 1
        /\ Record(work[r].sig, "unknown", NULL)
        /\ Become(r, [Idle EXCEPT !.pc = "failed"])
        /\ UNCHANGED book

\* The process dies: its generation stays "running".
Die(r) ==
    /\ work[r].pc \in {"pinning", "classifying", "compiling"} /\ faults < MaxFaults
    /\ faults' = faults + 1
    /\ Become(r, [Idle EXCEPT !.pc = "failed"])
    /\ UNCHANGED <<book, runs>>

\* The rest of the revision: EngineRuns.
EndRevision(r) == Doing(r, "served") /\ Goto(r, "completed") /\ UNCHANGED <<book, runs, faults>>

Edit == book < Len(Books) /\ book' = book + 1 /\ UNCHANGED <<runs, work, faults>>

Next ==
    \/ Edit
    \/ \E r \in Revisions :
        \/ \E p \in DOMAIN Profiles, s \in (Revisions \ {r}) \union {NULL} : Begin(r, p, s)
        \/ ClaimRun(r) \/ Reuse(r) \/ Publish(r) \/ Pin(r) \/ Abort(r) \/ Die(r) \/ EndRevision(r)
        \/ \E jev \in JevAnswers, deep \in DeepAnswers : ClassifyLine(r, jev, deep)
        \/ \E d \in Drafts : CompileRule(r, d)

Spec == Init /\ [][Next]_vars
----------------------------------------------------------------------------
(* Properties                                                                 *)

Served == {r \in Revisions : work[r].pc \in {"served", "completed"}}
RulesOf(r) == work[r].rules.rules

\* An enabled rule of a rule set that a revision decides with is one the executor can
\* run: neither what the sheet sets nor what a model drafts makes it UNSUPPORTED
\* (codegen.py: "never a condition the evaluator would reject later").
EnabledIsExecutable ==
    \A r \in Served : \A rule \in RulesOf(r) :
        rule.enabled => ~Unsupported(rule, AuthoringFields, <<>>)

\* Every line of the sheet ends up backing exactly one rule or rejected with its
\* reason, whatever the classifiers answered: none is dropped and none counts twice.
NormIsKept ==
    \A r \in Served : \A i \in DOMAIN Books[work[r].rules.of.book] :
        Cardinality({rule \in RulesOf(r) : i \in rule.lines})
            + (IF i \in work[r].rules.rejected THEN 1 ELSE 0) = 1

\* A parameter leaves the profile's value only under a policy that lets the sheet set
\* it, and only for the value that every line backing the rule and naming the
\* parameter states: a contradictory sheet moves no threshold.
ParametersAreStated ==
    \A r \in Served : \A rule \in {x \in RulesOf(r) : x.kind = "python_check"} :
        LET profile == Profiles[work[r].rules.of.policy]
            own     == profile.params[rule.canonical]
            stating(p) == {l \in {Books[work[r].rules.of.book][i] : i \in rule.lines} :
                             p \in DOMAIN Stated(rule.canonical, l)}
        IN  \A p \in DOMAIN rule.params :
              \/ p \in DOMAIN own /\ rule.params[p] = own[p]
              \/ /\ profile.sheetParams /\ stating(p) # {}
                 /\ \A l \in stating(p) : Executed(p, Stated(rule.canonical, l)[p]) = rule.params[p]

\* Two revisions of the same workbook and profile decide with the same rules, though
\* the models answer differently each time: one generation is shared, and a pinned
\* revision has the very rules of the run it pins.
SameInputsSameRules ==
    \A r, s \in Served :
        \/ work[r].sig = work[s].sig
        \/ work[r].sig.pinned = s
        => work[r].rules = work[s].rules

\* The rules a revision decides with were generated from the workbook and the profile
\* it read, also when they come from a pinned run and the sheet was edited since.
ServedFromItsSources ==
    \A r \in Served : work[r].rules.of = [book |-> work[r].sig.book, policy |-> work[r].sig.policy]

\* Amounts as the norm writes them: points between thousands, a decimal comma.
Spanish(n) ==
    LET comma == SelectInSeq(n.seps, LAMBDA sep : sep = ",")
    IN  IF comma = 0 THEN Joined(n.parts) * 100 ELSE Joined(n.parts)

\* What profiles/balanced.yaml:35 promises of a limit: lines filed under AUTHORIZATION
\* that ask for approval above one amount move the threshold there and switch the
\* rule on. They do not when they write it as 5.000 and 5.000,00, or before a full stop.
StatedLimitApplies ==
    \A r \in Served : \A rule \in {x \in RulesOf(r) : x.id = "AUTHORIZATION"} :
        LET limits == {Spanish(l.above) : l \in
                         {m \in {Books[work[r].rules.of.book][i] : i \in rule.lines} :
                            m.above # NULL /\ Has(m, Approval)}}
        IN  Profiles[work[r].rules.of.policy].sheetParams /\ Cardinality(limits) = 1
              => rule.enabled /\ rule.params["escalate_above_eur"] \in limits
==================================================================================
