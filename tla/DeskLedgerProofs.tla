-------------------------- MODULE DeskLedgerProofs --------------------------
(***************************************************************************)
(* Proofs about the desk's ledger, for any number of files, contents,      *)
(* approvals, chats, verdicts and proposals.                               *)
(***************************************************************************)
EXTENDS DeskLedger, SequenceTheorems, TLAPS

-----------------------------------------------------------------------------
(* Types *)

Evidence == [content : Contents, hard : BOOLEAN, soft : BOOLEAN]

Verdict == [seq : Nat \ {0}, decision : Decisions, version : Nat, evidence : Evidence]

Payment == [key : Keys, approval : Approvals, version : Nat]

Bases == UNION {[K -> [seq : Nat, paid : BOOLEAN]] : K \in SUBSET Files}

Backtests ==
    UNION {[K -> [from : Decisions, to : Decisions, already_paid : BOOLEAN]] : K \in SUBSET Files}

Proposal == [params : Params, from : Nat, basis : Bases, backtest : Backtests]

Rule == [policy : Policies, backtest : Backtests \cup {None}, reprocessed : BOOLEAN]

TypeOK ==
    /\ verdict \in [Files -> Verdict \cup {NoVerdict}]
    /\ payment \in [Files -> Payment \cup {None}]
    /\ claims \subseteq [file : Files, version : Nat, approval : Approvals]
    /\ rules \in Seq(Rule)
    /\ draft \in [Chats -> Params \cup {None}]
    /\ proposals \in Seq(Proposal)

-----------------------------------------------------------------------------
(* The inductive invariant *)

Marked(f) == verdict[f].evidence.hard = TRUE

SameInvoice(f, g) == HardKey[ContentOf(f)] = HardKey[ContentOf(g)]

(* What a verdict was decided on is what its file held, and a file marked   *)
(* as a copy is not to be paid, whatever the policy was.                    *)
VerdictsInv ==
    \A f \in Known : /\ ContentOf(f) \in Carries[f]
                     /\ Marked(f) => verdict[f].decision = "NO_PAGAR"

(* Of two files of one invoice at least one is marked. *)
CopiesInv == \A f, g \in Known : f # g /\ SameInvoice(f, g) => Marked(f) \/ Marked(g)

(* The verdict on f that a proposal was computed from is still the last one *)
SameVerdict(i, f) == proposals[i].basis[f].seq = verdict[f].seq

(* A proposal shows the files it was based on, and of those with no later   *)
(* verdict, the decision in force and the one its policy would give.        *)
ProposalsInv ==
    \A i \in 1..Len(proposals) :
        /\ proposals[i].from \in 1..Len(rules)
        /\ DOMAIN proposals[i].basis \subseteq Known
        /\ DOMAIN proposals[i].backtest = DOMAIN proposals[i].basis
        /\ \A f \in DOMAIN proposals[i].basis :
              /\ proposals[i].basis[f].seq <= verdict[f].seq
              /\ proposals[i].backtest[f].already_paid = proposals[i].basis[f].paid
              /\ SameVerdict(i, f) =>
                    /\ proposals[i].backtest[f].from = verdict[f].decision
                    /\ proposals[i].backtest[f].to =
                          Decide(verdict[f].evidence,
                                 Merge(rules[proposals[i].from].policy, proposals[i].params))

RulesInv == Len(rules) # 0

LedgerInv == TypeOK /\ RulesInv /\ VerdictsInv /\ CopiesInv /\ ProposalsInv

(* Once one file of an invoice is paid, every other one is marked. *)
PaidInv ==
    \A f \in Files : payment[f] # None =>
        /\ f \in Known
        /\ payment[f].key = HardKey[ContentOf(f)]
        /\ \A g \in Known : g # f /\ SameInvoice(f, g) => Marked(g)

PaymentsInv == LedgerInv /\ PaidInv /\ InvoicePaidOnce

(* The contents a file may hold over time are scans of one invoice. *)
FilesKeepInvoices == \A f \in Files : \A c, d \in Carries[f] : HardKey[c] = HardKey[d]

-----------------------------------------------------------------------------
(* Lemmas about policies and decisions *)

(* A policy with some parameters replaced is a policy. *)
LEMMA MergeType == ASSUME NEW p \in Policies, NEW q \in Params PROVE Merge(p, q) \in Policies
<1> DEFINE m == Merge(p, q)
<1>1. DOMAIN p = {"soft", "exempt"} /\ p.soft \in SoftVerdicts /\ p.exempt \in SUBSET Vendors
  BY DEF Policies
<1>2. CASE q \in [soft : SoftVerdicts]
  <2>1. DOMAIN q = {"soft"} /\ q.soft \in SoftVerdicts
    BY <1>2
  <2>2. m = [k \in {"soft", "exempt"} |-> IF k = "soft" THEN q.soft ELSE p.exempt]
    BY <1>1, <2>1 DEF Merge
  <2> QED BY <1>1, <2>1, <2>2 DEF Policies
<1>3. CASE q \in [exempt : SUBSET Vendors]
  <2>1. DOMAIN q = {"exempt"} /\ q.exempt \in SUBSET Vendors
    BY <1>3
  <2>2. m = [k \in {"soft", "exempt"} |-> IF k = "soft" THEN p.soft ELSE q.exempt]
    BY <1>1, <2>1 DEF Merge
  <2> QED BY <1>1, <2>1, <2>2 DEF Policies
<1> QED BY <1>2, <1>3 DEF Params

(* The evaluator always decides, and never to pay for a marked copy. *)
LEMMA DecideType == \A e, policy : Decide(e, policy) \in Decisions
BY DEF Decide, Decisions

LEMMA MarkedIsNotPaid ==
    ASSUME NEW e, NEW policy, e.hard = TRUE PROVE Decide(e, policy) = "NO_PAGAR"
BY DEF Decide, DuplicatesEffect

-----------------------------------------------------------------------------
(* What the steps do to the verdicts *)

LEMMA KnownFiles ==
    ASSUME TypeOK
    PROVE  /\ Known = {f \in Files : verdict[f] \in Verdict}
           /\ \A f \in Files : verdict[f].seq \in Nat
           /\ \A f \in Known : verdict[f].seq # 0
BY DEF TypeOK, Known, Verdict, NoVerdict

(* An ingestion writes the next verdict of one file. *)
LEMMA IngestEffect ==
    ASSUME TypeOK, RulesInv, NEW f \in Files, NEW c \in Contents, Ingest(f, c)
    PROVE  /\ verdict' \in [Files -> Verdict \cup {NoVerdict}]
           /\ verdict'[f] \in Verdict
           /\ verdict'[f].seq = verdict[f].seq + 1
           /\ verdict'[f].evidence.content = c
           /\ verdict'[f].evidence.hard = HardMatch(f, c)
           /\ verdict'[f].decision = Decide(verdict'[f].evidence, Current)
           /\ \A g \in Files : g # f => verdict'[g] = verdict[g]
           /\ Known' = Known \cup {f}
<1> DEFINE e == [content |-> c, hard |-> HardMatch(f, c), soft |-> SoftMatch(f, c)]
           row == [seq |-> verdict[f].seq + 1, version |-> Version,
                   decision |-> Decide(e, Current), evidence |-> e]
<1>1. HardMatch(f, c) \in BOOLEAN /\ SoftMatch(f, c) \in BOOLEAN
  BY DEF HardMatch, SoftMatch
<1>2. e \in Evidence
  BY <1>1 DEF Evidence
<1>3. Version \in Nat
  BY DEF TypeOK, Version
<1>4. Decide(e, Current) \in Decisions
  BY DecideType
<1>5. verdict[f].seq + 1 \in Nat \ {0}
  BY KnownFiles
<1>6. row \in Verdict
  <2> HIDE DEF e
  <2> QED BY <1>2, <1>3, <1>4, <1>5 DEF Verdict
<1>7. verdict' = [verdict EXCEPT ![f] = row]
  BY DEF Ingest
<1>8. verdict'[f] = row /\ \A g \in Files : g # f => verdict'[g] = verdict[g]
  BY <1>7 DEF TypeOK
<1>9. verdict' \in [Files -> Verdict \cup {NoVerdict}]
  <2> HIDE DEF row
  <2> QED BY <1>6, <1>7 DEF TypeOK
<1>10. Known' = Known \cup {f}
  <2>1. row # NoVerdict
    BY <1>5 DEF NoVerdict
  <2> HIDE DEF row
  <2> QED BY <1>8, <2>1 DEF Known
<1> QED BY <1>6, <1>8, <1>9, <1>10

Renewed(v, n, d) == [v EXCEPT !.seq = @ + 1, !.version = n, !.decision = d]

LEMMA NextVerdict ==
    ASSUME NEW v \in Verdict, NEW n \in Nat, NEW d \in Decisions, NEW w, w = Renewed(v, n, d)
    PROVE  w \in Verdict /\ w.seq = v.seq + 1 /\ w.evidence = v.evidence /\ w.decision = d
<1>1. v.seq \in Nat \ {0}
  BY DEF Verdict
<1>2. PICK u : u = [v EXCEPT !.seq = v.seq + 1]
  OBVIOUS
<1>3. u \in Verdict /\ u.seq = v.seq + 1 /\ u.evidence = v.evidence
  BY <1>1, <1>2 DEF Verdict
<1>4. PICK x : x = [u EXCEPT !.version = n]
  OBVIOUS
<1>5. x \in Verdict /\ x.seq = u.seq /\ x.evidence = u.evidence
  BY <1>3, <1>4 DEF Verdict
<1>6. w = [x EXCEPT !.decision = d]
  BY <1>2, <1>4 DEF Renewed
<1>7. w \in Verdict /\ w.seq = x.seq /\ w.evidence = x.evidence /\ w.decision = d
  BY <1>5, <1>6 DEF Verdict
<1> QED BY <1>3, <1>5, <1>7

(* An applied rule renews the verdicts of all the files or of none. *)
LEMMA ApplyEffect ==
    ASSUME TypeOK, RulesInv, NEW i \in 1..Len(proposals), NEW r \in BOOLEAN, Apply(proposals[i], r)
    PROVE  /\ verdict' \in [Files -> Verdict \cup {NoVerdict}]
           /\ Known' = Known
           /\ \A f \in Known :
                 /\ verdict'[f].evidence = verdict[f].evidence
                 /\ \/ ~r /\ verdict'[f] = verdict[f]
                    \/ /\ r
                       /\ verdict'[f].seq = verdict[f].seq + 1
                       /\ verdict'[f].decision =
                             Decide(verdict[f].evidence, Merge(Current, proposals[i].params))
<1> DEFINE policy == Merge(Current, proposals[i].params)
<1>1. CASE ~r
  <2>1. verdict' = verdict
    BY <1>1 DEF Apply
  <2> QED BY <1>1, <2>1 DEF TypeOK, Known
<1>2. CASE r
  <2>1. verdict' = Reevaluated(policy)
    BY <1>2 DEF Apply
  <2>2. \A f \in Known : /\ f \in Files
                         /\ verdict'[f] = [verdict[f] EXCEPT !.seq = @ + 1, !.version = Version + 1,
                                                 !.decision = Decide(verdict[f].evidence, policy)]
    BY <2>1 DEF Reevaluated, Known
  <2>3. \A f \in Files : f \notin Known => verdict'[f] = verdict[f]
    BY <2>1 DEF Reevaluated
  <2>4. \A f \in Known : /\ verdict'[f] \in Verdict
                         /\ verdict'[f].seq = verdict[f].seq + 1
                         /\ verdict'[f].evidence = verdict[f].evidence
                         /\ verdict'[f].decision = Decide(verdict[f].evidence, policy)
    <3> SUFFICES ASSUME NEW f \in Known
                 PROVE  /\ verdict'[f] \in Verdict
                        /\ verdict'[f].seq = verdict[f].seq + 1
                        /\ verdict'[f].evidence = verdict[f].evidence
                        /\ verdict'[f].decision = Decide(verdict[f].evidence, policy)
      OBVIOUS
    <3>1. verdict[f] \in Verdict
      BY KnownFiles
    <3>2. Decide(verdict[f].evidence, policy) \in Decisions
      BY DecideType
    <3>3. Version + 1 \in Nat
      BY DEF TypeOK, Version
    <3>4. PICK d \in Decisions : d = Decide(verdict[f].evidence, policy)
      BY <3>2
    <3>5. PICK n \in Nat : n = Version + 1
      BY <3>3
    <3>6. verdict'[f] = [verdict[f] EXCEPT !.seq = @ + 1, !.version = n, !.decision = d]
      BY <2>2, <3>4, <3>5
    <3>7. /\ verdict'[f] \in Verdict
          /\ verdict'[f].seq = verdict[f].seq + 1
          /\ verdict'[f].evidence = verdict[f].evidence
          /\ verdict'[f].decision = d
      <4> DEFINE w == verdict'[f]
      <4>1. w = Renewed(verdict[f], n, d)
        BY <3>6 DEF Renewed
      <4> HIDE DEF w
      <4>2. w \in Verdict /\ w.seq = verdict[f].seq + 1 /\ w.evidence = verdict[f].evidence /\ w.decision = d
        BY <3>1, <4>1, NextVerdict
      <4> QED BY <4>2 DEF w
    <3> QED BY <3>4, <3>7
  <2>5. \A f \in Known : verdict'[f] # NoVerdict
    BY <2>4 DEF Verdict, NoVerdict
  <2>6. Known' = Known
    BY <2>3, <2>5 DEF Known
  <2>7. verdict' \in [Files -> Verdict \cup {NoVerdict}]
    <3>1. DOMAIN verdict' = Files /\ verdict' = [f \in Files |-> verdict'[f]]
      BY <2>1 DEF Reevaluated
    <3> QED BY <3>1, <2>3, <2>4 DEF TypeOK
  <2> HIDE DEF policy
  <2>8. QED BY <1>2, <2>4, <2>6, <2>7 DEF policy
<1> QED BY <1>1, <1>2

-----------------------------------------------------------------------------
(* What a proposal takes from the ledger *)

LEMMA BasisType ==
    ASSUME TypeOK, NEW policy
    PROVE  /\ Basis \in Bases
           /\ Backtest(policy) \in Backtests
<1>1. Known \in SUBSET Files
  BY DEF Known
<1>2. \A f \in Known : verdict[f].seq \in Nat /\ verdict[f].decision \in Decisions
  BY KnownFiles DEF Verdict
<1>3. Basis \in [Known -> [seq : Nat, paid : BOOLEAN]]
  BY <1>2 DEF Basis
<1>4. \A f \in Known : Decide(verdict[f].evidence, policy) \in Decisions
  BY DecideType
<1>5. Backtest(policy) \in [Known -> [from : Decisions, to : Decisions, already_paid : BOOLEAN]]
  BY <1>2, <1>4 DEF Backtest
<1> QED BY <1>1, <1>3, <1>5 DEF Bases, Backtests

LEMMA CurrentType == ASSUME TypeOK, RulesInv PROVE Version \in 1..Len(rules) /\ Current \in Policies
<1>1. Version \in 1..Len(rules)
  BY DEF TypeOK, RulesInv, Version
<1>2. rules[Version] \in Rule
  BY <1>1 DEF TypeOK
<1> QED BY <1>1, <1>2 DEF Current, Rule

-----------------------------------------------------------------------------
(* Every step keeps the types *)

LEMMA TypeStep == ASSUME TypeOK, RulesInv, Next PROVE TypeOK' /\ RulesInv'
<1>1. CASE \E f \in Files, c \in Contents : Ingest(f, c)
  <2>1. PICK f \in Files, c \in Contents : Ingest(f, c)
    BY <1>1
  <2>2. verdict' \in [Files -> Verdict \cup {NoVerdict}]
    BY <2>1, IngestEffect
  <2>3. UNCHANGED <<payment, claims, rules, draft, proposals>>
    BY <2>1 DEF Ingest
  <2> QED BY <2>2, <2>3 DEF TypeOK, RulesInv
<1>2. CASE \E f \in Files, a \in Approvals : Pay(f, a)
  <2>1. PICK f \in Files, a \in Approvals : Pay(f, a)
    BY <1>2
  <2>2. f \in Known
    BY <2>1 DEF Pay, Refused
  <2>3. verdict[f] \in Verdict
    BY <2>2, KnownFiles
  <2>4. verdict[f].version \in Nat /\ HardKey[ContentOf(f)] \in Keys
    BY <2>3 DEF Verdict, Evidence, ContentOf, Keys
  <2>5. ClaimKey(f, a) \in [file : Files, version : Nat, approval : Approvals]
    BY <2>4 DEF ClaimKey
  <2>6. PICK row : row = [key |-> HardKey[ContentOf(f)], approval |-> a, version |-> verdict[f].version]
    OBVIOUS
  <2>7. row \in Payment
    BY <2>4, <2>6 DEF Payment
  <2>8. payment' = [payment EXCEPT ![f] = row]
    BY <2>1, <2>6 DEF Pay
  <2>9. payment' \in [Files -> Payment \cup {None}]
    BY <2>7, <2>8 DEF TypeOK
  <2>10. claims' \subseteq [file : Files, version : Nat, approval : Approvals]
    BY <2>1, <2>5 DEF Pay, TypeOK
  <2>11. UNCHANGED <<verdict, rules, draft, proposals>>
    BY <2>1 DEF Pay
  <2> QED BY <2>9, <2>10, <2>11 DEF TypeOK, RulesInv
<1>3. CASE \E t \in Chats : Parse(t)
  <2>1. PICK t \in Chats : Parse(t)
    BY <1>3
  <2>2. PICK d \in Params : draft' = [draft EXCEPT ![t] = d]
    <3>1. CASE \E v \in {"PASS", "FAIL"} : draft' = [draft EXCEPT ![t] = [soft |-> v]]
      <4>1. PICK v \in {"PASS", "FAIL"} : draft' = [draft EXCEPT ![t] = [soft |-> v]]
        BY <3>1
      <4>2. [soft |-> v] \in Params
        BY DEF Params, SoftVerdicts
      <4> QED BY <4>1, <4>2
    <3>2. CASE \E v \in {Vendor[ContentOf(f)] : f \in Known} :
                  draft' = [draft EXCEPT ![t] = [exempt |-> Current.exempt \cup {v}]]
      <4>1. PICK f \in Known :
                draft' = [draft EXCEPT ![t] = [exempt |-> Current.exempt \cup {Vendor[ContentOf(f)]}]]
        BY <3>2
      <4>2. ContentOf(f) \in Contents
        BY KnownFiles DEF Verdict, Evidence, ContentOf
      <4>3. Current.exempt \subseteq Vendors
        BY CurrentType DEF Policies
      <4>4. Current.exempt \cup {Vendor[ContentOf(f)]} \subseteq Vendors
        BY <4>2, <4>3 DEF Vendors
      <4>5. [exempt |-> Current.exempt \cup {Vendor[ContentOf(f)]}] \in Params
        BY <4>4 DEF Params
      <4> QED BY <4>1, <4>5
    <3> QED BY <2>1, <3>1, <3>2 DEF Parse
  <2>3. draft' \in [Chats -> Params \cup {None}]
    BY <2>2 DEF TypeOK
  <2>4. UNCHANGED <<verdict, payment, claims, rules, proposals>>
    BY <2>1 DEF Parse
  <2> QED BY <2>3, <2>4 DEF TypeOK, RulesInv
<1>4. CASE \E t \in Chats : Propose(t)
  <2>1. PICK t \in Chats : Propose(t)
    BY <1>4
  <2>2. draft[t] \in Params
    BY <2>1 DEF Propose, TypeOK
  <2>3. PICK p : p = [params |-> draft[t], from |-> Version, basis |-> Basis,
                      backtest |-> Backtest(Merge(Current, draft[t]))]
    OBVIOUS
  <2>4. Version \in Nat
    BY DEF Version, TypeOK
  <2>5. p \in Proposal
    BY <2>2, <2>3, <2>4, BasisType DEF Proposal
  <2>6. proposals' = Append(proposals, p)
    BY <2>1, <2>3 DEF Propose
  <2>7. proposals' \in Seq(Proposal)
    BY <2>5, <2>6 DEF TypeOK
  <2>8. draft' \in [Chats -> Params \cup {None}]
    BY <2>1 DEF Propose, TypeOK
  <2>9. UNCHANGED <<verdict, payment, claims, rules>>
    BY <2>1 DEF Propose
  <2> QED BY <2>7, <2>8, <2>9 DEF TypeOK, RulesInv
<1>5. CASE \E i \in DOMAIN proposals, r \in BOOLEAN : Apply(proposals[i], r)
  <2>1. PICK i \in 1..Len(proposals), r \in BOOLEAN : Apply(proposals[i], r)
    BY <1>5 DEF TypeOK
  <2>2. verdict' \in [Files -> Verdict \cup {NoVerdict}]
    BY <2>1, ApplyEffect
  <2>3. proposals[i] \in Proposal
    BY DEF TypeOK
  <2>4. PICK q \in Params : q = proposals[i].params
    BY <2>3 DEF Proposal
  <2>5. PICK b \in Backtests : b = proposals[i].backtest
    BY <2>3 DEF Proposal
  <2>6. PICK policy \in Policies : policy = Merge(Current, q)
    BY CurrentType, MergeType
  <2>7. rules' = Append(rules, [policy |-> policy, backtest |-> b, reprocessed |-> r])
    BY <2>1, <2>4, <2>5, <2>6 DEF Apply
  <2>8. [policy |-> policy, backtest |-> b, reprocessed |-> r] \in Rule
    BY DEF Rule
  <2>9. rules' \in Seq(Rule) /\ Len(rules') # 0
    BY <2>7, <2>8 DEF TypeOK
  <2>10. UNCHANGED <<payment, claims, draft, proposals>>
    BY <2>1 DEF Apply
  <2> QED BY <2>2, <2>9, <2>10 DEF TypeOK, RulesInv
<1>6. CASE UNCHANGED vars
  BY <1>6 DEF vars, TypeOK, RulesInv
<1> QED BY <1>1, <1>2, <1>3, <1>4, <1>5, <1>6 DEF Next, DoNotPay, ApplyRefused

-----------------------------------------------------------------------------
(* Copies are marked, and marked files are not to be paid *)

(* All the steps but two leave the verdicts alone. *)
LEMMA VerdictSteps ==
    ASSUME TypeOK, Next
    PROVE  \/ \E f \in Files, c \in Contents : Ingest(f, c)
           \/ \E i \in 1..Len(proposals), r \in BOOLEAN : Apply(proposals[i], r)
           \/ verdict' = verdict /\ rules' = rules
<1>1. CASE \E f \in Files, a \in Approvals : Pay(f, a) \/ DoNotPay(f, a)
  BY <1>1 DEF Pay, DoNotPay, vars
<1>2. CASE \E t \in Chats : Parse(t) \/ Propose(t)
  BY <1>2 DEF Parse, Propose
<1>3. CASE \E i \in DOMAIN proposals : ApplyRefused(proposals[i])
  BY <1>3 DEF ApplyRefused, vars
<1>4. DOMAIN proposals = 1..Len(proposals)
  BY DEF TypeOK
<1> QED BY <1>1, <1>2, <1>3, <1>4 DEF Next

LEMMA VerdictsStep == ASSUME TypeOK, RulesInv, VerdictsInv, Next PROVE VerdictsInv'
<1> SUFFICES ASSUME NEW g \in Known'
             PROVE  /\ verdict'[g].evidence.content \in Carries[g]
                    /\ verdict'[g].evidence.hard = TRUE => verdict'[g].decision = "NO_PAGAR"
  BY DEF VerdictsInv, ContentOf, Marked
<1>1. CASE \E f \in Files, c \in Contents : Ingest(f, c)
  <2>1. PICK f \in Files, c \in Contents : Ingest(f, c)
    BY <1>1
  <2>2. CASE g = f
    <3>1. c \in Carries[f]
      BY <2>1 DEF Ingest
    <3> QED BY <2>1, <2>2, <3>1, IngestEffect, MarkedIsNotPaid
  <2>3. CASE g # f
    <3>1. g \in Known /\ g \in Files
      BY <2>1, <2>3, IngestEffect DEF Known
    <3>2. verdict'[g] = verdict[g]
      BY <2>1, <2>3, <3>1, IngestEffect
    <3> QED BY <3>1, <3>2 DEF VerdictsInv, ContentOf, Marked
  <2> QED BY <2>2, <2>3
<1>2. CASE \E i \in 1..Len(proposals), r \in BOOLEAN : Apply(proposals[i], r)
  <2>1. PICK i \in 1..Len(proposals), r \in BOOLEAN : Apply(proposals[i], r)
    BY <1>2
  <2>2. g \in Known /\ verdict'[g].evidence = verdict[g].evidence
    BY <2>1, ApplyEffect
  <2>3. \/ verdict'[g] = verdict[g]
        \/ verdict'[g].decision = Decide(verdict[g].evidence, Merge(Current, proposals[i].params))
    BY <2>1, <2>2, ApplyEffect
  <2> QED BY <2>2, <2>3, MarkedIsNotPaid DEF VerdictsInv, ContentOf, Marked
<1>3. CASE verdict' = verdict
  BY <1>3 DEF VerdictsInv, ContentOf, Marked, Known
<1> QED BY <1>1, <1>2, <1>3, VerdictSteps

LEMMA CopiesStep == ASSUME TypeOK, RulesInv, CopiesInv, Next PROVE CopiesInv'
<1> SUFFICES ASSUME NEW g \in Known', NEW h \in Known', g # h,
                    HardKey[verdict'[g].evidence.content] = HardKey[verdict'[h].evidence.content]
             PROVE  verdict'[g].evidence.hard = TRUE \/ verdict'[h].evidence.hard = TRUE
  BY DEF CopiesInv, SameInvoice, ContentOf, Marked
<1>1. CASE \E f \in Files, c \in Contents : Ingest(f, c)
  <2>1. PICK f \in Files, c \in Contents : Ingest(f, c)
    BY <1>1
  <2>2. \A k \in Known' : k # f => k \in Known /\ verdict'[k] = verdict[k]
    BY <2>1, IngestEffect DEF Known
  <2>3. verdict'[f].evidence.content = c /\ verdict'[f].evidence.hard = HardMatch(f, c)
    BY <2>1, IngestEffect
  <2>4. CASE g = f
    <3>1. HardMatch(f, c) = TRUE
      BY <2>2, <2>3, <2>4 DEF HardMatch, ContentOf
    <3> QED BY <2>3, <2>4, <3>1
  <2>5. CASE h = f
    <3>1. HardMatch(f, c) = TRUE
      BY <2>2, <2>3, <2>5 DEF HardMatch, ContentOf
    <3> QED BY <2>3, <2>5, <3>1
  <2>6. CASE g # f /\ h # f
    BY <2>2, <2>6 DEF CopiesInv, SameInvoice, ContentOf, Marked
  <2> QED BY <2>4, <2>5, <2>6
<1>2. CASE \E i \in 1..Len(proposals), r \in BOOLEAN : Apply(proposals[i], r)
  <2>1. \A k \in Known' : k \in Known /\ verdict'[k].evidence = verdict[k].evidence
    BY <1>2, ApplyEffect
  <2> QED BY <2>1 DEF CopiesInv, SameInvoice, ContentOf, Marked
<1>3. CASE verdict' = verdict
  BY <1>3 DEF CopiesInv, SameInvoice, ContentOf, Marked, Known
<1> QED BY <1>1, <1>2, <1>3, VerdictSteps

-----------------------------------------------------------------------------
(* Payments *)

(* The guard of register_payment is met by no file whose invoice is paid.   *)
LEMMA PayOnlyOnce ==
    ASSUME LedgerInv, PaidInv, NEW f \in Files, NEW a \in Approvals, Pay(f, a)
    PROVE  /\ f \in Known /\ ~Marked(f)
           /\ \A g \in Files : payment[g] # None => payment[g].key # HardKey[ContentOf(f)]
<1>1. f \in Known /\ verdict[f].decision # "NO_PAGAR" /\ payment[f] = None
  BY DEF Pay, Refused, AlreadyPaid
<1>2. ~Marked(f)
  BY <1>1 DEF LedgerInv, VerdictsInv
<1>3. ASSUME NEW g \in Files, payment[g] # None PROVE payment[g].key # HardKey[ContentOf(f)]
  <2>1. g \in Known /\ payment[g].key = HardKey[ContentOf(g)] /\ g # f
    BY <1>1, <1>3 DEF PaidInv
  <2>2. SameInvoice(g, f) => Marked(f)
    BY <1>1, <1>3, <2>1 DEF PaidInv
  <2> QED BY <1>2, <2>1, <2>2 DEF SameInvoice
<1> QED BY <1>1, <1>2, <1>3

LEMMA PaymentSteps ==
    ASSUME TypeOK, Next
    PROVE  \/ \E f \in Files, a \in Approvals : Pay(f, a)
           \/ payment' = payment
BY DEF Next, TypeOK, Ingest, DoNotPay, Parse, Propose, Apply, ApplyRefused, vars

LEMMA PaidEffect ==
    ASSUME TypeOK, NEW f \in Files, NEW a \in Approvals, Pay(f, a)
    PROVE  /\ payment'[f].key = HardKey[ContentOf(f)]
           /\ \A g \in Files : g # f => payment'[g] = payment[g]
           /\ verdict' = verdict /\ Known' = Known
BY DEF Pay, TypeOK, Known

LEMMA PaidStep ==
    ASSUME FilesKeepInvoices, LedgerInv, PaidInv, Next, LedgerInv'
    PROVE  PaidInv'
<1> USE DEF LedgerInv
<1> SUFFICES ASSUME NEW g \in Files, payment'[g] # None
             PROVE  /\ g \in Known'
                    /\ payment'[g].key = HardKey[verdict'[g].evidence.content]
                    /\ \A h \in Known' :
                          h # g /\ HardKey[verdict'[g].evidence.content] = HardKey[verdict'[h].evidence.content]
                             => verdict'[h].evidence.hard = TRUE
  BY DEF PaidInv, SameInvoice, ContentOf, Marked
<1>1. CASE \E f \in Files, c \in Contents : Ingest(f, c)
  <2>1. PICK f \in Files, c \in Contents : Ingest(f, c)
    BY <1>1
  <2>2. payment' = payment
    BY <2>1 DEF Ingest
  <2>3. g \in Known /\ payment'[g].key = HardKey[ContentOf(g)]
    BY <2>2 DEF PaidInv
  <2>4. Known' = Known \cup {f}
    BY <2>1, IngestEffect
  <2>5. \A k \in Known' : k # f => k \in Known /\ verdict'[k] = verdict[k]
    BY <2>1, IngestEffect DEF Known
  <2>6. verdict'[f].evidence.content = c /\ verdict'[f].evidence.hard = HardMatch(f, c)
    BY <2>1, IngestEffect
  <2>7. HardKey[verdict'[g].evidence.content] = HardKey[ContentOf(g)]
    <3>1. CASE g = f
      <4>1. c \in Carries[f] /\ ContentOf(f) \in Carries[f]
        BY <2>1, <2>3, <3>1 DEF Ingest, VerdictsInv
      <4> QED BY <2>6, <3>1, <4>1 DEF FilesKeepInvoices
    <3>2. CASE g # f
      BY <2>3, <2>4, <2>5, <3>2 DEF ContentOf
    <3> QED BY <3>1, <3>2
  <2>8. ASSUME NEW h \in Known', h # g,
               HardKey[verdict'[g].evidence.content] = HardKey[verdict'[h].evidence.content]
        PROVE  verdict'[h].evidence.hard = TRUE
    <3>1. CASE h = f
      <4>1. HardKey[ContentOf(g)] = HardKey[c]
        BY <2>6, <2>7, <2>8, <3>1
      <4>2. HardMatch(f, c) = TRUE
        BY <2>3, <2>8, <3>1, <4>1 DEF HardMatch
      <4> QED BY <2>6, <3>1, <4>2
    <3>2. CASE h # f
      <4>1. h \in Known /\ verdict'[h] = verdict[h]
        BY <2>5, <3>2
      <4>2. SameInvoice(g, h)
        BY <2>7, <2>8, <4>1 DEF SameInvoice, ContentOf
      <4>3. Marked(h)
        BY <2>2, <2>8, <4>1, <4>2 DEF PaidInv
      <4> QED BY <4>1, <4>3 DEF Marked
    <3> QED BY <3>1, <3>2
  <2> QED BY <2>3, <2>4, <2>7, <2>8
<1>2. CASE \E i \in 1..Len(proposals), r \in BOOLEAN : Apply(proposals[i], r)
  <2>1. Known' = Known /\ \A k \in Known : verdict'[k].evidence = verdict[k].evidence
    BY <1>2, ApplyEffect
  <2>2. payment' = payment
    BY <1>2 DEF Apply
  <2> QED BY <2>1, <2>2 DEF PaidInv, SameInvoice, ContentOf, Marked
<1>3. CASE \E f \in Files, a \in Approvals : Pay(f, a)
  <2>1. PICK f \in Files, a \in Approvals : Pay(f, a)
    BY <1>3
  <2>2. f \in Known /\ ~Marked(f)
    BY <2>1, PayOnlyOnce
  <2>3. /\ payment'[f].key = HardKey[ContentOf(f)]
        /\ \A k \in Files : k # f => payment'[k] = payment[k]
        /\ verdict' = verdict /\ Known' = Known
    BY <2>1, PaidEffect
  <2>4. CASE g = f
    BY <2>2, <2>3, <2>4 DEF CopiesInv, SameInvoice, ContentOf, Marked
  <2>5. CASE g # f
    BY <2>3, <2>5 DEF PaidInv, SameInvoice, ContentOf, Marked
  <2> QED BY <2>4, <2>5
<1>4. CASE payment' = payment /\ verdict' = verdict
  BY <1>4 DEF PaidInv, SameInvoice, ContentOf, Marked, Known
<1> QED BY <1>1, <1>2, <1>3, <1>4, VerdictSteps, PaymentSteps

LEMMA PaidOnceStep ==
    ASSUME LedgerInv, PaidInv, InvoicePaidOnce, Next
    PROVE  InvoicePaidOnce'
<1> USE DEF LedgerInv
<1>1. CASE \E f \in Files, a \in Approvals : Pay(f, a)
  <2>1. PICK f \in Files, a \in Approvals : Pay(f, a)
    BY <1>1
  <2>2. \A g \in Files : payment[g] # None => payment[g].key # HardKey[ContentOf(f)]
    BY <2>1, PayOnlyOnce
  <2>3. /\ payment'[f].key = HardKey[ContentOf(f)]
        /\ \A k \in Files : k # f => payment'[k] = payment[k]
    BY <2>1, PaidEffect
  <2> QED BY <2>2, <2>3 DEF InvoicePaidOnce
<1>2. CASE payment' = payment
  BY <1>2 DEF InvoicePaidOnce
<1> QED BY <1>1, <1>2, PaymentSteps

-----------------------------------------------------------------------------
(* Proposals *)

(* What a proposal p announces of a file, given the last verdict v of it    *)
(* and the policy it starts from                                            *)
Announces(p, f, v, policy) ==
    /\ p.basis[f].seq <= v.seq
    /\ p.backtest[f].already_paid = p.basis[f].paid
    /\ p.basis[f].seq = v.seq =>
          /\ p.backtest[f].from = v.decision
          /\ p.backtest[f].to = Decide(v.evidence, Merge(policy, p.params))

LEMMA ProposalsAnnounce ==
    ProposalsInv <=>
        \A i \in 1..Len(proposals) :
            /\ proposals[i].from \in 1..Len(rules)
            /\ DOMAIN proposals[i].basis \subseteq Known
            /\ DOMAIN proposals[i].backtest = DOMAIN proposals[i].basis
            /\ \A f \in DOMAIN proposals[i].basis :
                  Announces(proposals[i], f, verdict[f], rules[proposals[i].from].policy)
BY DEF ProposalsInv, Announces, SameVerdict

(* A later verdict makes every earlier proposal stale for its file.         *)
LEMMA LaterVerdict ==
    ASSUME NEW p \in Proposal, NEW f \in DOMAIN p.basis, NEW v, NEW w, NEW policy,
           v.seq \in Nat, w.seq = v.seq + 1, Announces(p, f, v, policy)
    PROVE  Announces(p, f, w, policy)
<1>1. p.basis[f].seq \in Nat
  BY DEF Proposal, Bases
<1> QED BY <1>1 DEF Announces

LEMMA ProposalsStep == ASSUME TypeOK, RulesInv, ProposalsInv, Next PROVE ProposalsInv'
<1> DEFINE Good(i) ==
        /\ proposals[i].from \in 1..Len(rules')
        /\ DOMAIN proposals[i].basis \subseteq Known'
        /\ DOMAIN proposals[i].backtest = DOMAIN proposals[i].basis
        /\ \A f \in DOMAIN proposals[i].basis :
              Announces(proposals[i], f, verdict'[f], rules'[proposals[i].from].policy)
<1>1. \A i \in 1..Len(proposals) : Good(i)
  <2> SUFFICES ASSUME NEW i \in 1..Len(proposals) PROVE Good(i)
    OBVIOUS
  <2>1. /\ proposals[i].from \in 1..Len(rules)
        /\ DOMAIN proposals[i].basis \subseteq Known
        /\ DOMAIN proposals[i].backtest = DOMAIN proposals[i].basis
        /\ \A f \in DOMAIN proposals[i].basis :
              Announces(proposals[i], f, verdict[f], rules[proposals[i].from].policy)
    BY ProposalsAnnounce
  <2>2. proposals[i] \in Proposal
    BY DEF TypeOK
  <2>3. CASE \E f \in Files, c \in Contents : Ingest(f, c)
    <3>1. PICK f \in Files, c \in Contents : Ingest(f, c)
      BY <2>3
    <3>2. Known \subseteq Known' /\ \A g \in Known : g # f => verdict'[g] = verdict[g]
      BY <3>1, IngestEffect DEF Known
    <3>3. rules' = rules
      BY <3>1 DEF Ingest
    <3>4. verdict'[f].seq = verdict[f].seq + 1 /\ verdict[f].seq \in Nat
      BY <3>1, IngestEffect, KnownFiles
    <3>5. ASSUME NEW g \in DOMAIN proposals[i].basis
          PROVE  Announces(proposals[i], g, verdict'[g], rules[proposals[i].from].policy)
      <4>1. CASE g = f
        BY <2>1, <2>2, <3>4, <4>1, LaterVerdict
      <4>2. CASE g # f
        BY <2>1, <3>2, <4>2
      <4> QED BY <4>1, <4>2
    <3> QED BY <2>1, <3>2, <3>3, <3>5
  <2>4. CASE \E n \in 1..Len(proposals), r \in BOOLEAN : Apply(proposals[n], r)
    <3>1. PICK n \in 1..Len(proposals), r \in BOOLEAN : Apply(proposals[n], r)
      BY <2>4
    <3>2. PICK row : rules' = Append(rules, row)
      BY <3>1 DEF Apply
    <3>3. Len(rules') = Len(rules) + 1 /\ \A m \in 1..Len(rules) : rules'[m] = rules[m]
      BY <3>2 DEF TypeOK
    <3>4. rules'[proposals[i].from] = rules[proposals[i].from] /\ proposals[i].from \in 1..Len(rules')
      BY <2>1, <3>3 DEF TypeOK
    <3>5. /\ Known' = Known
          /\ \A f \in Known : verdict'[f] = verdict[f] \/ verdict'[f].seq = verdict[f].seq + 1
      BY <3>1, ApplyEffect
    <3>6. ASSUME NEW g \in DOMAIN proposals[i].basis
          PROVE  Announces(proposals[i], g, verdict'[g], rules[proposals[i].from].policy)
      <4>1. g \in Known /\ verdict[g].seq \in Nat
        BY <2>1, KnownFiles DEF Known
      <4>2. CASE verdict'[g] = verdict[g]
        BY <2>1, <4>2
      <4>3. CASE verdict'[g].seq = verdict[g].seq + 1
        BY <2>1, <2>2, <4>1, <4>3, LaterVerdict
      <4> QED BY <3>5, <4>1, <4>2, <4>3
    <3> QED BY <2>1, <3>4, <3>5, <3>6
  <2>5. CASE verdict' = verdict /\ rules' = rules
    BY <2>1, <2>5 DEF Known
  <2> QED BY <2>3, <2>4, <2>5, VerdictSteps
<1>2. CASE proposals' = proposals
  <2>1. \A i \in 1..Len(proposals') :
            /\ proposals'[i].from \in 1..Len(rules')
            /\ DOMAIN proposals'[i].basis \subseteq Known'
            /\ DOMAIN proposals'[i].backtest = DOMAIN proposals'[i].basis
            /\ \A f \in DOMAIN proposals'[i].basis :
                  Announces(proposals'[i], f, verdict'[f], rules'[proposals'[i].from].policy)
    BY <1>1, <1>2
  <2> QED BY <2>1 DEF ProposalsInv, Announces, SameVerdict
<1>3. CASE \E t \in Chats : Propose(t)
  <2>1. PICK t \in Chats : Propose(t)
    BY <1>3
  <2>2. PICK p : p = [params |-> draft[t], from |-> Version, basis |-> Basis,
                      backtest |-> Backtest(Merge(Current, draft[t]))]
    OBVIOUS
  <2>3. proposals' = Append(proposals, p) /\ verdict' = verdict /\ rules' = rules /\ Known' = Known
    BY <2>1, <2>2 DEF Propose, Known
  <2>4. /\ Len(proposals') = Len(proposals) + 1
        /\ \A i \in 1..Len(proposals) : proposals'[i] = proposals[i]
        /\ proposals'[Len(proposals) + 1] = p
    BY <2>3 DEF TypeOK
  <2>5. p.from \in 1..Len(rules) /\ DOMAIN p.basis = Known /\ DOMAIN p.backtest = Known
    BY <2>2, CurrentType DEF Basis, Backtest
  <2>6. ASSUME NEW f \in Known PROVE Announces(p, f, verdict[f], rules[p.from].policy)
    <3>1. verdict[f].seq \in Nat
      BY KnownFiles DEF Known
    <3>2. p.basis[f].seq = verdict[f].seq /\ p.basis[f].paid = (payment[f] # None)
      BY <2>2 DEF Basis
    <3>3. /\ p.backtest[f].from = verdict[f].decision
          /\ p.backtest[f].already_paid = (payment[f] # None)
          /\ p.backtest[f].to = Decide(verdict[f].evidence, Merge(Current, p.params))
      BY <2>2 DEF Backtest
    <3>4. rules[p.from].policy = Current
      BY <2>2 DEF Current
    <3> QED BY <3>1, <3>2, <3>3, <3>4 DEF Announces
  <2>7. \A i \in 1..Len(proposals') :
            /\ proposals'[i].from \in 1..Len(rules')
            /\ DOMAIN proposals'[i].basis \subseteq Known'
            /\ DOMAIN proposals'[i].backtest = DOMAIN proposals'[i].basis
            /\ \A f \in DOMAIN proposals'[i].basis :
                  Announces(proposals'[i], f, verdict'[f], rules'[proposals'[i].from].policy)
    <3> SUFFICES ASSUME NEW i \in 1..Len(proposals')
                 PROVE  /\ proposals'[i].from \in 1..Len(rules')
                        /\ DOMAIN proposals'[i].basis \subseteq Known'
                        /\ DOMAIN proposals'[i].backtest = DOMAIN proposals'[i].basis
                        /\ \A f \in DOMAIN proposals'[i].basis :
                              Announces(proposals'[i], f, verdict'[f], rules'[proposals'[i].from].policy)
      OBVIOUS
    <3>1. CASE i \in 1..Len(proposals)
      BY <1>1, <2>4, <3>1
    <3>2. CASE i = Len(proposals) + 1
      BY <2>3, <2>4, <2>5, <2>6, <3>2
    <3>3. i \in 1..Len(proposals) \/ i = Len(proposals) + 1
      BY <2>4 DEF TypeOK
    <3> QED BY <3>1, <3>2, <3>3
  <2> QED BY <2>7 DEF ProposalsInv, Announces, SameVerdict
<1>4. proposals' = proposals \/ \E t \in Chats : Propose(t)
  BY DEF Next, Ingest, Pay, DoNotPay, Parse, Apply, ApplyRefused, vars
<1> QED BY <1>2, <1>3, <1>4

(* What an application finds: nothing it was based on has moved.            *)
LEMMA AppliesWhatItShows ==
    ASSUME TypeOK, RulesInv, ProposalsInv, NEW i \in 1..Len(proposals), NEW r \in BOOLEAN,
           Apply(proposals[i], r)
    PROVE  /\ Len(rules') = Len(rules) + 1
           /\ rules'[Len(rules) + 1].backtest = proposals[i].backtest
           /\ rules'[Len(rules) + 1].reprocessed = r
           /\ DOMAIN proposals[i].backtest = Known
           /\ \A f \in Known :
                 /\ proposals[i].backtest[f].from = verdict[f].decision
                 /\ proposals[i].backtest[f].already_paid = (payment[f] # None)
                 /\ verdict'[f].decision = IF r THEN proposals[i].backtest[f].to
                                           ELSE proposals[i].backtest[f].from
<1> DEFINE p == proposals[i]
<1>1. p.from = Version /\ p.basis = Basis
  BY DEF Apply, Stale
<1>2. DOMAIN p.basis = Known /\ DOMAIN p.backtest = Known
  BY <1>1, ProposalsAnnounce DEF Basis
<1>3. ASSUME NEW f \in Known
      PROVE  /\ p.backtest[f].from = verdict[f].decision
             /\ p.backtest[f].already_paid = (payment[f] # None)
             /\ p.backtest[f].to = Decide(verdict[f].evidence, Merge(Current, p.params))
  <2>1. p.basis[f].seq = verdict[f].seq /\ p.basis[f].paid = (payment[f] # None)
    BY <1>1 DEF Basis
  <2>2. Announces(p, f, verdict[f], rules[p.from].policy)
    BY <1>2, ProposalsAnnounce
  <2>3. rules[p.from].policy = Current
    BY <1>1 DEF Current
  <2> QED BY <2>1, <2>2, <2>3 DEF Announces
<1>4. \A f \in Known : \/ ~r /\ verdict'[f] = verdict[f]
                       \/ r /\ verdict'[f].decision = Decide(verdict[f].evidence, Merge(Current, p.params))
  BY ApplyEffect
<1>5. PICK policy : rules' = Append(rules, [policy |-> policy, backtest |-> p.backtest, reprocessed |-> r])
  BY DEF Apply
<1>6. Len(rules') = Len(rules) + 1 /\ rules'[Len(rules) + 1].backtest = p.backtest
      /\ rules'[Len(rules) + 1].reprocessed = r
  BY <1>5 DEF TypeOK
<1> QED BY <1>2, <1>3, <1>4, <1>6

LEMMA RulesSteps ==
    ASSUME TypeOK, Next
    PROVE  \/ \E i \in 1..Len(proposals), r \in BOOLEAN : Apply(proposals[i], r)
           \/ rules' = rules
<1>1. \A f \in Files, c \in Contents : Ingest(f, c) => rules' = rules
  BY DEF Ingest
<1> QED BY <1>1, VerdictSteps

LEMMA AppliedStep ==
    ASSUME TypeOK, RulesInv, ProposalsInv, Next,
           NEW n \in {Len(rules')} \ {Len(rules)}
    PROVE  /\ DOMAIN rules'[n].backtest = Known
           /\ \A f \in Known :
                /\ rules'[n].backtest[f].from = verdict[f].decision
                /\ rules'[n].backtest[f].already_paid = (payment[f] # None)
                /\ verdict'[f].decision = IF rules'[n].reprocessed THEN rules'[n].backtest[f].to
                                          ELSE rules'[n].backtest[f].from
<1>1. PICK i \in 1..Len(proposals), r \in BOOLEAN : Apply(proposals[i], r)
  BY RulesSteps
<1>2. /\ Len(rules') = Len(rules) + 1
      /\ rules'[Len(rules) + 1].backtest = proposals[i].backtest
      /\ rules'[Len(rules) + 1].reprocessed = r
      /\ DOMAIN proposals[i].backtest = Known
      /\ \A f \in Known :
            /\ proposals[i].backtest[f].from = verdict[f].decision
            /\ proposals[i].backtest[f].already_paid = (payment[f] # None)
            /\ verdict'[f].decision = IF r THEN proposals[i].backtest[f].to
                                      ELSE proposals[i].backtest[f].from
  BY <1>1, AppliesWhatItShows
<1>3. n = Len(rules) + 1
  BY <1>2
<1> QED BY <1>2, <1>3

-----------------------------------------------------------------------------
(* The theorems *)

LEMMA LedgerInit == ASSUME Init PROVE LedgerInv
<1>1. [policy |-> Base, backtest |-> None, reprocessed |-> FALSE] \in Rule
  BY DEF Rule, Base, Policies, SoftVerdicts
<1>2. rules \in Seq(Rule) /\ Len(rules) # 0
  BY <1>1 DEF Init
<1>3. proposals \in Seq(Proposal) /\ Len(proposals) = 0
  BY DEF Init
<1>4. TypeOK
  BY <1>2, <1>3 DEF Init, TypeOK
<1>5. Known = {}
  BY DEF Init, Known
<1> QED BY <1>2, <1>3, <1>4, <1>5 DEF LedgerInv, RulesInv, VerdictsInv, CopiesInv, ProposalsInv

LEMMA LedgerStep == ASSUME LedgerInv, [Next]_vars PROVE LedgerInv'
<1>1. CASE Next
  BY <1>1, TypeStep, VerdictsStep, CopiesStep, ProposalsStep DEF LedgerInv
<1>2. CASE UNCHANGED vars
  BY <1>2 DEF vars, LedgerInv, TypeOK, RulesInv, VerdictsInv, CopiesInv, ProposalsInv, Known,
              ContentOf, Marked, SameInvoice, SameVerdict
<1> QED BY <1>1, <1>2

(* The ledger stays well formed: a verdict is on a content of its file, a   *)
(* file marked as a copy of another is never one to pay, of two files of an *)
(* invoice one at least is marked, and every proposal describes the files   *)
(* whose verdict it still has as they are (desk/ingest.py, desk/rules.py).  *)
THEOREM LedgerInvariant == Spec => []LedgerInv
<1>1. Init => LedgerInv
  BY LedgerInit
<1>2. LedgerInv /\ [Next]_vars => LedgerInv'
  BY LedgerStep
<1> QED BY <1>1, <1>2, PTL DEF Spec

LEMMA PaymentsStep ==
    ASSUME FilesKeepInvoices, PaymentsInv, [Next]_vars PROVE PaymentsInv'
<1>1. LedgerInv'
  BY LedgerStep DEF PaymentsInv
<1>2. CASE Next
  BY <1>1, <1>2, PaidStep, PaidOnceStep DEF PaymentsInv
<1>3. CASE UNCHANGED vars
  BY <1>1, <1>3 DEF vars, PaymentsInv, PaidInv, InvoicePaidOnce, Known, ContentOf, Marked, SameInvoice
<1> QED BY <1>2, <1>3

(* While the scans that come under one file name are of one invoice, no     *)
(* invoice is paid twice, though register_payment only looks at its own     *)
(* file: the duplicate rule, which no policy in force can relax, stops the  *)
(* other files (desk/ledger.py:278-386, desk/ingest.py:93-187).            *)
THEOREM EachInvoicePaidOnce == ASSUME FilesKeepInvoices PROVE Spec => []InvoicePaidOnce
<1>1. Init => PaymentsInv
  <2> SUFFICES ASSUME Init PROVE PaidInv /\ InvoicePaidOnce
    BY LedgerInit DEF PaymentsInv
  <2> QED BY DEF Init, PaidInv, InvoicePaidOnce
<1>2. PaymentsInv /\ [Next]_vars => PaymentsInv'
  BY PaymentsStep
<1>3. PaymentsInv => InvoicePaidOnce
  BY DEF PaymentsInv
<1> QED BY <1>1, <1>2, <1>3, PTL DEF Spec

(* A rule is applied only as it was shown: the decisions, the new decisions *)
(* and the paid marks of the backtest that was approved are those of the    *)
(* moment of application, and reprocessing gives what it announced          *)
(* (desk/rules.py:180-251).                                                 *)
THEOREM AppliedAsShown == Spec => AppliedAsBacktested
<1>1. LedgerInv /\ [Next]_vars =>
          [\A n \in {Len(rules')} \ {Len(rules)} :
              /\ DOMAIN rules'[n].backtest = Known
              /\ \A f \in Known :
                    LET shown == rules'[n].backtest[f]
                    IN /\ shown.from = verdict[f].decision
                       /\ shown.already_paid = (payment[f] # None)
                       /\ verdict'[f].decision = IF rules'[n].reprocessed THEN shown.to ELSE shown.from]_vars
  BY AppliedStep DEF LedgerInv
<1> QED BY <1>1, LedgerInvariant, PTL DEF Spec, AppliedAsBacktested
=============================================================================
