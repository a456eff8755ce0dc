----------------------------- MODULE DeskLedger -----------------------------
(***************************************************************************)
(* The money and the rules of Alberto's desk: the append-only SQLite       *)
(* ledger of desk/ledger.py with the transactions that write verdicts      *)
(* (desk/ingest.py), payments (register_payment, called by agents.approve) *)
(* and rule versions (desk/rules.py).  A projection is a fold over the     *)
(* events, so the state here is what the folds return: the last verdict of *)
(* a file, its payment, the claimed keys, the rule versions in order.      *)
(* The ingest thread, the HTTP threads and the chat threads interleave     *)
(* between transactions; BEGIN IMMEDIATE makes each of those one step.     *)
(***************************************************************************)
EXTENDS Naturals, Sequences, FiniteSets

CONSTANTS Files,       \* file names in facturas/
          Contents,    \* what the bytes of a file may say
          Carries,     \* the contents each file may hold over time
          HardKey,     \* (invoice number, vendor) of a content
          SoftKey,     \* (total, date) of a content
          Vendor,      \* vendor of a content
          WithoutOrder,\* contents that name no purchase order
          ErpPaid,     \* contents whose order the ERP snapshot shows PAGADA
          Payable,     \* contents with an amount, an IBAN and euros
          Approvals,   \* approval_ids
          Chats,       \* chat requests served at the same time
          None,        \* JSON null
          MaxVerdicts, \* bound: verdicts of a file after which it is not ingested again
          MaxProposals \* bound: RULE_PROPOSED events

Keys == {HardKey[c] : c \in Contents}
Vendors == {Vendor[c] : c \in Contents}

ASSUME LedgerAssumption ==
    /\ Carries \in [Files -> SUBSET Contents]
    /\ DOMAIN HardKey = Contents /\ DOMAIN SoftKey = Contents /\ DOMAIN Vendor = Contents
    /\ WithoutOrder \subseteq Contents /\ ErpPaid \subseteq Contents /\ Payable \subseteq Contents
    /\ MaxVerdicts \in Nat /\ MaxProposals \in Nat
    /\ None \notin Approvals

VARIABLES
    verdict,    \* last VERDICT of each file
    payment,    \* PAYMENT_REGISTERED of each file
    claims,     \* the idempotency table
    rules,      \* BASE, then what each RULE_APPLIED put in force and what it promised
    draft,      \* parameters a chat has parsed and not proposed yet
    proposals   \* RULE_PROPOSED events, in order

vars == <<verdict, payment, claims, rules, draft, proposals>>

-----------------------------------------------------------------------------
(* Policies and decisions *)

Decisions == {"PAGAR", "ESCALAR", "NO_PAGAR"}
SoftVerdicts == {"PASS", "FAIL", "NEEDS_REVIEW"}
Policies == [soft: SoftVerdicts, exempt: SUBSET Vendors]
Params == [soft: SoftVerdicts] \cup [exempt: SUBSET Vendors]

Base == [soft |-> "NEEDS_REVIEW", exempt |-> {}]

(* Position in the sequence is the version: v3.1, v3.2, ... *)
Version == Len(rules)
Current == rules[Version].policy

(* {**policy, **params} *)
Merge(policy, params) ==
    [k \in DOMAIN policy |-> IF k \in DOMAIN params THEN params[k] ELSE policy[k]]

SoftEffect == [PASS |-> "PAGAR", FAIL |-> "NO_PAGAR", NEEDS_REVIEW |-> "ESCALAR"]

DuplicatesEffect(e, policy) ==
    IF e.content \in ErpPaid \/ e.hard THEN "NO_PAGAR"
    ELSE IF e.soft THEN SoftEffect[policy.soft] ELSE "PAGAR"

MissingEffect(e, policy) ==
    IF e.content \in WithoutOrder /\ Vendor[e.content] \notin policy.exempt THEN "ESCALAR" ELSE "PAGAR"

(* engine.evaluate: the first of NO_PAGAR, ESCALAR, PAGAR among the effects *)
Decide(e, policy) ==
    LET effects == {DuplicatesEffect(e, policy), MissingEffect(e, policy)}
    IN IF "NO_PAGAR" \in effects THEN "NO_PAGAR"
       ELSE IF "ESCALAR" \in effects THEN "ESCALAR" ELSE "PAGAR"

-----------------------------------------------------------------------------
(* Projections *)

NoVerdict == [seq |-> 0, decision |-> None, version |-> 0, evidence |-> None]

Known == {f \in Files : verdict[f] # NoVerdict}
ContentOf(f) == verdict[f].evidence.content

(* Wrong variants of a definition, each the kind of slip a property is      *)
(* there to catch, precede the definition they replace in a mutation run.   *)
HardMatchUnpaid(f, c) ==
    \E g \in Known \ {f} : HardKey[ContentOf(g)] = HardKey[c] /\ payment[g] = None

HardMatch(f, c) == \E g \in Known \ {f} : HardKey[ContentOf(g)] = HardKey[c]
SoftMatch(f, c) == \E g \in Known \ {f} : SoftKey[ContentOf(g)] = SoftKey[c]

BasisOfVerdicts == [f \in Known |-> [seq |-> verdict[f].seq, paid |-> FALSE]]

(* _basis: every file with the seq of its last verdict and of its payment *)
Basis == [f \in Known |-> [seq |-> verdict[f].seq, paid |-> payment[f] # None]]

(* backtest: what each known file is, would become, and whether it is paid *)
Backtest(policy) ==
    [f \in Known |-> [from |-> verdict[f].decision,
                      to |-> Decide(verdict[f].evidence, policy),
                      already_paid |-> payment[f] # None]]

-----------------------------------------------------------------------------
Init ==
    /\ verdict = [f \in Files |-> NoVerdict]
    /\ payment = [f \in Files |-> None]
    /\ claims = {}
    /\ rules = <<[policy |-> Base, backtest |-> None, reprocessed |-> FALSE]>>
    /\ draft = [t \in Chats |-> None]
    /\ proposals = <<>>

(* record_outcome of a file whose bytes are not those of its last verdict *)
Ingest(f, c) ==
    /\ c \in Carries[f]
    /\ f \in Known => ContentOf(f) # c
    /\ verdict[f].seq < MaxVerdicts
    /\ LET evidence == [content |-> c, hard |-> HardMatch(f, c), soft |-> SoftMatch(f, c)]
       IN verdict' = [verdict EXCEPT ![f] = [seq |-> @.seq + 1, version |-> Version,
                                             decision |-> Decide(evidence, Current),
                                             evidence |-> evidence]]
    /\ UNCHANGED <<payment, claims, rules, draft, proposals>>

(* The refusals and blocks of register_payment, in its order *)
Refused(f) == f \in Known => verdict[f].decision = "NO_PAGAR" \/ ContentOf(f) \notin Payable

AlreadyPaid(f) == payment[f] # None

ClaimKey(f, a) == [file |-> f, version |-> verdict[f].version, approval |-> a]

Pay(f, a) ==
    /\ ~Refused(f)
    /\ ~AlreadyPaid(f)
    /\ ClaimKey(f, a) \notin claims
    /\ claims' = claims \cup {ClaimKey(f, a)}
    /\ payment' = [payment EXCEPT ![f] = [key |-> HardKey[ContentOf(f)], approval |-> a,
                                          version |-> verdict[f].version]]
    /\ UNCHANGED <<verdict, rules, draft, proposals>>

(* PAYMENT_REFUSED or PAYMENT_BLOCKED is recorded and nothing else changes *)
DoNotPay(f, a) ==
    /\ Refused(f) \/ AlreadyPaid(f) \/ ClaimKey(f, a) \in claims
    /\ UNCHANGED vars

(* parse runs outside any transaction; an exemption extends the list in force *)
Parse(t) ==
    /\ draft[t] = None
    /\ Len(proposals) < MaxProposals
    /\ \/ \E v \in {"PASS", "FAIL"} : draft' = [draft EXCEPT ![t] = [soft |-> v]]
       \/ \E v \in {Vendor[ContentOf(f)] : f \in Known} :
             draft' = [draft EXCEPT ![t] = [exempt |-> Current.exempt \cup {v}]]
    /\ UNCHANGED <<verdict, payment, claims, rules, proposals>>

(* The transaction of propose *)
Propose(t) ==
    /\ draft[t] # None
    /\ proposals' = Append(proposals, [params |-> draft[t], from |-> Version, basis |-> Basis,
                                       backtest |-> Backtest(Merge(Current, draft[t]))])
    /\ draft' = [draft EXCEPT ![t] = None]
    /\ UNCHANGED <<verdict, payment, claims, rules>>

Stale(p) == p.from # Version \/ p.basis # Basis

(* reprocess: the frozen evidence of every known file under the new policy *)
Reevaluated(policy) ==
    [f \in Files |-> IF f \notin Known THEN verdict[f]
                     ELSE [verdict[f] EXCEPT !.seq = @ + 1, !.version = Version + 1,
                                             !.decision = Decide(verdict[f].evidence, policy)]]

Apply(p, reprocess) ==
    /\ ~Stale(p)
    /\ LET policy == Merge(Current, p.params)
       IN /\ rules' = Append(rules, [policy |-> policy, backtest |-> p.backtest,
                                     reprocessed |-> reprocess])
          /\ verdict' = IF reprocess THEN Reevaluated(policy) ELSE verdict
    /\ UNCHANGED <<payment, claims, draft, proposals>>

(* "La propuesta esta desactualizada": the request changes nothing *)
ApplyRefused(p) == Stale(p) /\ UNCHANGED vars

Next ==
    \/ \E f \in Files, c \in Contents : Ingest(f, c)
    \/ \E f \in Files, a \in Approvals : Pay(f, a) \/ DoNotPay(f, a)
    \/ \E t \in Chats : Parse(t) \/ Propose(t)
    \/ \E i \in DOMAIN proposals : \/ \E r \in BOOLEAN : Apply(proposals[i], r)
                                   \/ ApplyRefused(proposals[i])

Spec == Init /\ [][Next]_vars

-----------------------------------------------------------------------------
(* Properties *)

(* One invoice (number and vendor) is paid at most once, whatever the order *)
(* of ingestions, approvals and rule changes: the guard of register_payment *)
(* is per file, so it leans on the duplicate rule to stop the other files   *)
(* of the same invoice, under every policy that can be in force.            *)
InvoicePaidOnce ==
    \A f, g \in Files : payment[f] # None /\ payment[g] # None /\ payment[f].key = payment[g].key => f = g

(* What is applied is what was shown: the diff, backtest and paid marks     *)
(* that were approved are those of the moment of application, and           *)
(* reprocessing gives every file the decision its backtest announced.       *)
AppliedAsBacktested ==
    [][\A n \in {Len(rules')} \ {Len(rules)} :
          /\ DOMAIN rules'[n].backtest = Known
          /\ \A f \in Known :
                LET shown == rules'[n].backtest[f]
                IN /\ shown.from = verdict[f].decision
                   /\ shown.already_paid = (payment[f] # None)
                   /\ verdict'[f].decision = IF rules'[n].reprocessed THEN shown.to ELSE shown.from]_vars

(* rules.parse calls its result an added exception to the rule MISSING, so  *)
(* no applied rule should take away an exemption that is in force.          *)
ExemptionsOnlyAdded == [][rules[Len(rules)].policy.exempt \subseteq rules'[Len(rules')].policy.exempt]_vars
=============================================================================
