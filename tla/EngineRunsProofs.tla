-------------------------- MODULE EngineRunsProofs --------------------------
(***************************************************************************)
(* Proofs about revisions, corrections and reviews, for any number of      *)
(* callers, request keys, files and faults.                                *)
(***************************************************************************)
EXTENDS EngineRuns, SequenceTheorems, WellFoundedInduction, TLAPS

-----------------------------------------------------------------------------
(* Types *)

RunStates == {"absent", "running", "unknown", "completed", "partial", "failed"}

Asking == {"rules", "claim_rules", "author", "store_rules"}
OnRules == Asking \cup {"input"}
OnFiles == {"register", "extract", "evaluate"}
Revising == OnRules \cup OnFiles
Correcting == {"snapshot", "freeze", "amend"}
AtWork == Revising \cup Correcting
Locations == AtWork \cup {"idle", "intend", "raised", "finished"}

Evaluation == [input : Submissions, key : Keys, decision : {"PAGAR", "ESCALAR", "NO_PAGAR"}]

Task == [pc : Locations, key : Keys \cup {None}, todo : SUBSET Submissions,
         seen : SUBSET Submissions, failed : SUBSET Submissions]

Verdicts == {"COMPLETED", "CHALLENGED", "FAILED"}

ReviewTask == [by : Callers, request : Submissions, evaluation : Nat,
               at : {"claim", "call", "store", "finish", "broken"},
               verdict : Verdicts \cup {None}]

(* The rows of the tables, and what a caller may be doing *)
TypeOK ==
    /\ runs \in [RunKeys -> [state : RunStates, review : BOOLEAN \cup {None}]]
    /\ inputs \in Seq(Submissions)
    /\ extracted \in [Submissions -> {"absent", "completed", "failed"}]
    /\ evaluations \in Seq(Evaluation)
    /\ reviews \in Seq([evaluation : Nat, verdict : Verdicts])
    /\ requests \in [Submissions -> {"absent", "running", "finished", "unknown"}]
    /\ task \in [Callers -> Task]
    /\ reviewing \subseteq ReviewTask
    /\ authored \in Nat
    /\ calls \in [Submissions -> Nat]
    /\ before \in [Keys -> Nat]
    /\ pinned \subseteq Keys
    /\ faults \in Nat

-----------------------------------------------------------------------------
(* The inductive invariant *)

PcIn(c, S) == task[c].pc \in S

Holding(c) == ~PcIn(c, {"idle", "intend"})

(* A request key that was claimed once belongs to that caller, whose run is *)
(* running for as long as the caller is at work on it.                      *)
KeysHeld ==
    /\ \A c \in Callers : ~PcIn(c, {"idle"}) => Key(c) \in Keys
    /\ \A c \in Callers : Holding(c) => runs[Key(c)].state # "absent"
    /\ \A c \in Callers : PcIn(c, AtWork) => Running(Key(c))
    /\ \A c, d \in Callers : Holding(c) /\ Holding(d) /\ Key(c) = Key(d) => c = d

(* Nothing in the tables bears a key that was never claimed. *)
AbsentIsUnused ==
    \A k \in Keys : runs[k].state = "absent" =>
        /\ runs[k].review = None
        /\ OfRun(k) = {}
        /\ \A n \in DOMAIN evaluations : evaluations[n].key # k
        /\ \A i \in Submissions : i[1] = k => requests[i] = "absent"

(* The generation of rules has one author at a time and one outcome. *)
RulesInv ==
    /\ \A c \in Callers : PcIn(c, {"author", "store_rules"}) => Running(RulesKey)
    /\ \A c, d \in Callers :
          PcIn(c, {"author", "store_rules"}) /\ PcIn(d, {"author", "store_rules"}) => c = d
    /\ \A c \in Callers : PcIn(c, {"author"}) => authored = 0
    /\ runs[RulesKey].state = "absent" => authored = 0
    /\ authored <= 1
    /\ \A c \in Callers :
          PcIn(c, OnFiles \cup {"input"}) /\ Key(c) \notin pinned => runs[RulesKey].state = "completed"
    /\ RulesRecorded

(* Only who brought no ruleset asks for one, and who did has failed by a    *)
(* fault if at all.                                                         *)
FilesInv ==
    /\ \A c \in Callers : PcIn(c, Asking) => Key(c) \notin pinned
    /\ \A c \in Callers : PcIn(c, {"raised"}) /\ Key(c) \in pinned => faults > 0
    /\ \A t \in reviewing : t.at = "broken" => faults > 0
    /\ \A k \in pinned : runs[k].state # "absent"
    /\ GenerationWasNeeded /\ FileIsEnough

(* The review policy of a run is frozen once, and a submission is corrected *)
(* only if review had been disabled for it.                                 *)
PolicyInv ==
    /\ \A c \in Callers : PcIn(c, OnRules \cup {"snapshot", "freeze"}) => runs[Key(c)].review = None
    /\ \A c \in Callers : PcIn(c, OnFiles) => runs[Key(c)].review = (Key(c) \in Reviewed)
    /\ \A c \in Callers : PcIn(c, Correcting \cup {"intend"}) =>
          \A i \in task[c].todo : runs[i[1]].review = FALSE
    /\ \A n \in DOMAIN evaluations : evaluations[n].key # evaluations[n].input[1] =>
          runs[evaluations[n].input[1]].review = FALSE

(* A list is of the run's own submissions, or of those of other runs. *)
ListsInv ==
    /\ \A c \in Callers : PcIn(c, Revising) => \A i \in task[c].todo :
          /\ i[1] = Key(c)
          /\ requests[i] = "absent"
          /\ \A n \in DOMAIN evaluations : evaluations[n].input = i => evaluations[n].key # i[1]
    /\ \A c \in Callers : PcIn(c, Correcting) => \A i \in task[c].todo : i[1] # Key(c)

(* Who evaluates has seen what there was when the key was claimed. *)
HistoryInv ==
    /\ \A k \in Keys : before[k] <= Len(evaluations)
    /\ \A c \in Callers : PcIn(c, {"evaluate", "freeze", "amend"}) =>
          \A m \in 1..before[Key(c)] : evaluations[m].input \in task[c].seen
    /\ EarlierSubmissionsSeen

(* A review in progress is the only one of its request, and belongs to the  *)
(* caller that holds the key of the submission.                             *)
ReviewInv ==
    /\ \A t \in reviewing :
          /\ PcIn(t.by, {"evaluate", "raised", "finished"}) /\ Key(t.by) = t.request[1]
          /\ t.evaluation \in DOMAIN evaluations
          /\ evaluations[t.evaluation].input = t.request
          /\ evaluations[t.evaluation].key = t.request[1]
    /\ \A t, u \in reviewing : t.request = u.request => t = u

(* What a review in progress has bought so far *)
CallsInv ==
    /\ \A t \in reviewing :
          /\ t.at = "claim" => requests[t.request] = "absent"
          /\ t.at \in {"call", "store", "finish"} => requests[t.request] = "running"
          /\ requests[t.request] # "finished"
          /\ t.at = "call" => calls[t.request] = 0
          /\ t.at \in {"store", "finish"} => t.verdict \in Verdicts
          /\ t.at = "finish" =>
                \E r \in ReviewsOf(t.evaluation) : reviews[r].verdict = t.verdict
    /\ \A q \in Submissions : requests[q] = "absent" => calls[q] = 0
    /\ \A q \in Submissions : calls[q] <= 1

Reviewable(k, n) == runs[k].review = TRUE /\ evaluations[n].decision = "PAGAR"

ReviewHad(i, n) ==
    requests[i] = "finished" /\ \E r \in ReviewsOf(n) : reviews[r].verdict # "FAILED"

ReviewPending(c, i, n) == \E t \in ReviewsBy(c) : t.request = i /\ t.evaluation = n

(* Every submission of a run is still listed, failed, or evaluated and its  *)
(* review had or in progress.                                               *)
Accounted(c, i) ==
    \/ i \in task[c].todo \cup task[c].failed
    \/ \E n \in EvaluationsOf(i) :
          /\ evaluations[n].key = Key(c)
          /\ Reviewable(Key(c), n) => ReviewHad(i, n) \/ ReviewPending(c, i, n)

CallerAccount(c) ==
    /\ PcIn(c, Revising \ {"evaluate"}) => OfRun(Key(c)) \subseteq task[c].todo
    /\ PcIn(c, {"evaluate"}) => \A i \in OfRun(Key(c)) : Accounted(c, i)
    /\ PcIn(c, Correcting) => OfRun(Key(c)) = {}

RunComplete(k, i) ==
    \E n \in EvaluationsOf(i) : evaluations[n].key = k /\ (Reviewable(k, n) => ReviewHad(i, n))

AccountInv ==
    /\ \A c \in Callers : CallerAccount(c)
    /\ \A k \in Keys : runs[k].state = "completed" => \A i \in OfRun(k) : RunComplete(k, i)

EngineInv ==
    /\ TypeOK
    /\ KeysHeld /\ AbsentIsUnused
    /\ RulesInv /\ FilesInv /\ PolicyInv /\ ListsInv /\ HistoryInv
    /\ ReviewInv /\ CallsInv /\ AccountInv

-----------------------------------------------------------------------------
(* The latest row of a table exists. *)

LEMMA LeastNatural ==
    ASSUME NEW T \in SUBSET Nat, T # {}
    PROVE  \E x \in T : \A y \in T : x <= y
<1> DEFINE R == OpToRel(<, Nat)
<1>1. IsWellFoundedOn(R, Nat)
  BY NatLessThanWellFounded
<1>2. \A x, y \in Nat : <<y, x>> \in R <=> y < x
  BY DEF OpToRel
<1> HIDE DEF R
<1>3. PICK x \in T : \A y \in T : ~ (<<y, x>> \in R)
  BY <1>1, WFMin
<1>4. \A y \in T : y \in Nat /\ x \in Nat /\ ~ (y < x)
  BY <1>2, <1>3
<1> QED BY <1>4

LEMMA LatestExists ==
    ASSUME NEW n \in Nat, NEW S \in SUBSET (0..n), S # {}
    PROVE  Max(S) \in S /\ \A y \in S : y <= Max(S)
<1> DEFINE T == {k \in Nat : \A y \in S : y <= k}
<1>0. \A y \in S : y \in Nat
  OBVIOUS
<1>1. n \in T
  OBVIOUS
<1>2. PICK b \in T : \A y \in T : b <= y
  BY <1>1, LeastNatural
<1>3. b \in S
  <2>1. CASE b = 0
    <3>1. PICK y : y \in S /\ y \in Nat
      BY <1>0
    <3>2. y <= b
      BY <1>2, <3>1
    <3>3. y = b
      BY <2>1, <3>1, <3>2
    <3> QED BY <3>1, <3>3
  <2>2. CASE b # 0
    <3>1. b - 1 \in Nat /\ b - 1 \notin T
      BY <1>2, <2>2
    <3>2. PICK y \in S : ~ (y <= b - 1)
      BY <3>1
    <3>3. y <= b /\ y \in Nat
      BY <1>2
    <3> QED BY <3>1, <3>2, <3>3, <1>2
  <2> QED BY <2>1, <2>2
<1>4. \E x \in S : \A y \in S : x >= y
  BY <1>2, <1>3
<1>5. Max(S) = CHOOSE x \in S : \A y \in S : x >= y
  BY DEF Max
<1> QED BY <1>4, <1>5

-----------------------------------------------------------------------------
(* What a caller does next *)

LEMMA BecomeFacts ==
    ASSUME TypeOK, NEW c \in Callers, NEW t \in Task, Become(c, t)
    PROVE  /\ task' \in [Callers -> Task]
           /\ task'[c] = t
           /\ \A d \in Callers : d # c => task'[d] = task[d]
BY DEF TypeOK, Become

LEMMA GotoFacts ==
    ASSUME TypeOK, NEW c \in Callers, NEW pc \in Locations, Goto(c, pc)
    PROVE  /\ task' \in [Callers -> Task]
           /\ task'[c].pc = pc /\ task'[c].key = task[c].key /\ task'[c].todo = task[c].todo
           /\ task'[c].seen = task[c].seen /\ task'[c].failed = task[c].failed
           /\ \A d \in Callers : d # c => task'[d] = task[d]
<1>1. task[c] \in Task
  BY DEF TypeOK
<1>2. [task[c] EXCEPT !.pc = pc] \in Task
  BY <1>1 DEF Task
<1> QED BY <1>1, <1>2, BecomeFacts DEF Goto, Task

LEMMA RestingTasks ==
    ASSUME TypeOK, NEW c \in Callers
    PROVE  /\ Idle \in Task /\ Raised(c) \in Task /\ Closing(c) \in Task
           /\ Idle.pc = "idle"
           /\ Raised(c).pc = "raised" /\ Raised(c).key = task[c].key
           /\ Closing(c).pc = "finished" /\ Closing(c).key = task[c].key
<1>1. task[c].key \in Keys \cup {None}
  BY DEF TypeOK, Task
<1> QED BY <1>1 DEF Idle, Raised, Closing, Key, Task, Locations

(* The steps of a review change at most the task of its caller, which is    *)
(* told of an error or raises.                                              *)
LEMMA ReviewWorkFacts ==
    ASSUME TypeOK, NEW t \in reviewing, ReviewWork(t)
    PROVE  /\ UNCHANGED <<runs, inputs, extracted, evaluations, authored, before, pinned>>
           /\ t \in ReviewTask /\ t.by \in Callers /\ t.request \in Submissions
           /\ task' \in [Callers -> Task]
           /\ \A c \in Callers : c # t.by => task'[c] = task[c]
           /\ \/ task'[t.by] = task[t.by]
              \/ /\ task[t.by].pc = "evaluate"
                 /\ task'[t.by].pc = "evaluate" /\ task'[t.by].key = task[t.by].key
                 /\ task'[t.by].todo = task[t.by].todo /\ task'[t.by].seen = task[t.by].seen
                 /\ task[t.by].failed \subseteq task'[t.by].failed
              \/ task[t.by].pc = "evaluate" /\ task'[t.by] = Raised(t.by)
<1>1. t \in ReviewTask /\ t.by \in Callers /\ t.request \in Submissions
  BY DEF TypeOK, ReviewTask
<1>2. task[t.by] \in Task /\ task \in [Callers -> Task]
  BY <1>1 DEF TypeOK
<1>3. UNCHANGED <<runs, inputs, extracted, evaluations, authored, before, pinned>>
  BY DEF ReviewWork, ClaimReview, CallReviewer, StoreReview, FinishReview, ReviewFails,
         ReviewBreaks, ReviewSurfaces, SameSubmissions
<1>4. CASE task' = task
  BY <1>1, <1>2, <1>3, <1>4
<1>5. ASSUME NEW errors \in SUBSET Submissions, task[t.by].pc = "evaluate",
             Become(t.by, [task[t.by] EXCEPT !.failed = @ \cup errors])
      PROVE  /\ task' \in [Callers -> Task]
             /\ \A c \in Callers : c # t.by => task'[c] = task[c]
             /\ task'[t.by].pc = "evaluate" /\ task'[t.by].key = task[t.by].key
             /\ task'[t.by].todo = task[t.by].todo /\ task'[t.by].seen = task[t.by].seen
             /\ task[t.by].failed \subseteq task'[t.by].failed
  <2>1. [task[t.by] EXCEPT !.failed = @ \cup errors] \in Task
    BY <1>2 DEF Task
  <2> QED BY <1>1, <1>2, <1>5, <2>1, BecomeFacts DEF Task
<1>6. CASE FinishReview(t) \/ ReviewFails(t)
  <2>1. {} \in SUBSET Submissions /\ ErrorOf(t.request) \in SUBSET Submissions
    BY <1>1 DEF ErrorOf
  <2> QED BY <1>1, <1>3, <1>4, <1>5, <1>6, <2>1 DEF FinishReview, ReviewFails, Ended, Doing
<1>7. CASE ReviewSurfaces(t)
  <2>1. CASE task[t.by].pc = "evaluate"
    BY <1>1, <1>3, <1>7, <2>1, RestingTasks, BecomeFacts DEF ReviewSurfaces, Doing
  <2> QED BY <1>4, <1>7, <2>1 DEF ReviewSurfaces, Doing
<1> QED BY <1>4, <1>6, <1>7 DEF ReviewWork, ClaimReview, CallReviewer, StoreReview, ReviewBreaks

-----------------------------------------------------------------------------
(* Steps of the rows of a run *)

LEMMA StateFacts ==
    ASSUME TypeOK, NEW k \in RunKeys, NEW s \in RunStates, runs' = InState(k, s)
    PROVE  /\ runs' \in [RunKeys -> [state : RunStates, review : BOOLEAN \cup {None}]]
           /\ runs'[k].state = s
           /\ \A j \in RunKeys : j # k => runs'[j] = runs[j]
           /\ \A j \in RunKeys : runs'[j].review = runs[j].review
<1>1. runs[k] \in [state : RunStates, review : BOOLEAN \cup {None}]
  BY DEF TypeOK
<1>2. [runs[k] EXCEPT !.state = s] \in [state : RunStates, review : BOOLEAN \cup {None}]
  BY <1>1
<1> QED BY <1>1, <1>2 DEF TypeOK, InState

LEMMA UnknownFacts ==
    ASSUME TypeOK, NEW k \in RunKeys, runs' = Unknown(k)
    PROVE  /\ runs' \in [RunKeys -> [state : RunStates, review : BOOLEAN \cup {None}]]
           /\ runs'[k].state = IF runs[k].state = "running" THEN "unknown" ELSE runs[k].state
           /\ \A j \in RunKeys : j # k => runs'[j] = runs[j]
           /\ \A j \in RunKeys : runs'[j].review = runs[j].review
<1>1. CASE Running(k)
  <2>1. "unknown" \in RunStates /\ runs' = InState(k, "unknown") /\ runs[k].state = "running"
    BY <1>1 DEF Unknown, RunStates, Running
  <2> QED BY <2>1, StateFacts
<1>2. CASE ~Running(k)
  BY <1>2 DEF Unknown, TypeOK, Running
<1> QED BY <1>1, <1>2

SetsPolicy(k, b) == runs' = [runs EXCEPT ![k].review = b]

LEMMA PolicyFacts ==
    ASSUME TypeOK, NEW k \in RunKeys, NEW b \in BOOLEAN, SetsPolicy(k, b)
    PROVE  /\ runs' \in [RunKeys -> [state : RunStates, review : BOOLEAN \cup {None}]]
           /\ runs'[k].review = b
           /\ \A j \in RunKeys : j # k => runs'[j] = runs[j]
           /\ \A j \in RunKeys : runs'[j].state = runs[j].state
<1> DEFINE row == [runs[k] EXCEPT !.review = b]
<1>1. runs[k] \in [state : RunStates, review : BOOLEAN \cup {None}]
  BY DEF TypeOK
<1>2. /\ row \in [state : RunStates, review : BOOLEAN \cup {None}]
      /\ row.review = b /\ row.state = runs[k].state
  BY <1>1
<1>3. runs' = [runs EXCEPT ![k] = row]
  BY DEF SetsPolicy
<1> HIDE DEF row
<1> QED BY <1>1, <1>2, <1>3 DEF TypeOK

(* The steps that only move a caller on *)
Moves(c) ==
    \/ ReuseRules(c) \/ MissRules(c) \/ RefuseRules(c) \/ TakeHistory(c) \/ Return(c)
    \/ SnapshotHistory(c) \/ Raise(c)
    \/ \E i \in Submissions : NotEvaluated(c, i)
    \/ \E k \in Keys, files \in (SUBSET Files) \ {{}} : SelectRows(c, k, files)

LEMMA Latest ==
    ASSUME TypeOK, NEW f, InputsOf(f) # {}
    PROVE  /\ Max(InputsOf(f)) \in DOMAIN inputs
           /\ LatestInput(f) \in Submissions
           /\ LatestInput(f) = inputs[Max(InputsOf(f))]
<1>1. InputsOf(f) \in SUBSET (0..Len(inputs)) /\ Len(inputs) \in Nat
  BY DEF InputsOf, TypeOK
<1>2. Max(InputsOf(f)) \in InputsOf(f)
  BY <1>1, LatestExists
<1>3. Max(InputsOf(f)) \in DOMAIN inputs
  BY <1>2 DEF InputsOf
<1> QED BY <1>3 DEF LatestInput, TypeOK

(* What each of them does to the task *)
LEMMA MovesFacts ==
    ASSUME TypeOK, NEW c \in Callers, Moves(c)
    PROVE  /\ UNCHANGED <<runs, inputs, extracted, evaluations, authored, before, pinned,
                          reviews, requests, reviewing, calls>>
           /\ faults' \in Nat
           /\ task' \in [Callers -> Task]
           /\ \A d \in Callers : d # c => task'[d] = task[d]
           /\ \/ /\ task[c].pc = "rules" /\ Usable(runs[RulesKey].state) /\ task'[c].pc = "input"
                 /\ task'[c].key = task[c].key /\ task'[c].todo = task[c].todo
              \/ /\ task[c].pc = "rules" /\ task'[c].pc = "claim_rules"
                 /\ task'[c].key = task[c].key /\ task'[c].todo = task[c].todo
              \/ /\ task[c].pc \in AtWork \cup {"finished"} /\ task'[c] = Raised(c)
                 /\ RefuseRules(c) \/ Raise(c)
              \/ /\ task[c].pc = "extract" /\ task'[c].pc = "evaluate"
                 /\ task'[c].key = task[c].key /\ task'[c].todo = task[c].todo
                 /\ task'[c].seen = History
              \/ /\ task[c].pc = "finished" /\ ReviewsBy(c) = {} /\ task'[c].pc = "idle"
              \/ /\ task[c].pc = "snapshot" /\ task'[c].pc = "freeze"
                 /\ task'[c].key = task[c].key /\ task'[c].todo = task[c].todo
                 /\ task'[c].seen = History
              \/ /\ task[c].pc = "evaluate" /\ task'[c].pc = "evaluate"
                 /\ task'[c].key = task[c].key /\ task'[c].seen = task[c].seen
                 /\ task'[c].todo \subseteq task[c].todo
                 /\ task[c].todo \cup task[c].failed \subseteq task'[c].todo \cup task'[c].failed
              \/ /\ task[c].pc = "idle" /\ task'[c].pc = "intend" /\ task'[c].key \in Keys
                 /\ \A i \in task'[c].todo : \E n \in DOMAIN inputs : inputs[n] = i /\ Correctable(i)
<1>0. task[c] \in Task /\ faults \in Nat /\ faults + 1 \in Nat
  BY DEF TypeOK
<1>1. CASE ReuseRules(c)
  <2>1. "input" \in Locations /\ Goto(c, "input")
    BY <1>1 DEF ReuseRules, Locations, AtWork, Revising, OnRules, Asking
  <2>2. /\ task[c].pc = "rules" /\ Usable(runs[RulesKey].state)
        /\ UNCHANGED <<runs, inputs, extracted, evaluations, authored, before, pinned,
                       reviews, requests, reviewing, calls, faults>>
    BY <1>1 DEF ReuseRules, Doing, SameSubmissions, SameReviews
  <2>3. /\ task' \in [Callers -> Task]
        /\ task'[c].pc = "input" /\ task'[c].key = task[c].key /\ task'[c].todo = task[c].todo
        /\ \A d \in Callers : d # c => task'[d] = task[d]
    BY <2>1, GotoFacts
  <2> QED BY <1>0, <2>2, <2>3
<1>2. CASE MissRules(c)
  <2>1. "claim_rules" \in Locations /\ Goto(c, "claim_rules")
    BY <1>2 DEF MissRules, Locations, AtWork, Revising, OnRules, Asking
  <2>2. /\ task[c].pc = "rules"
        /\ UNCHANGED <<runs, inputs, extracted, evaluations, authored, before, pinned,
                       reviews, requests, reviewing, calls, faults>>
    BY <1>2 DEF MissRules, Doing, SameSubmissions, SameReviews
  <2>3. /\ task' \in [Callers -> Task]
        /\ task'[c].pc = "claim_rules" /\ task'[c].key = task[c].key /\ task'[c].todo = task[c].todo
        /\ \A d \in Callers : d # c => task'[d] = task[d]
    BY <2>1, GotoFacts
  <2> QED BY <1>0, <2>2, <2>3
<1>3. CASE RefuseRules(c) \/ Raise(c)
  <2>1. /\ task[c].pc \in AtWork \cup {"finished"} /\ Become(c, Raised(c)) /\ faults' \in Nat
        /\ UNCHANGED <<runs, inputs, extracted, evaluations, authored, before, pinned,
                       reviews, requests, reviewing, calls>>
    BY <1>0, <1>3 DEF RefuseRules, Raise, Doing, SameSubmissions, SameReviews,
                      AtWork, Revising, OnRules, Asking, OnFiles, Correcting
  <2>2. /\ task' \in [Callers -> Task] /\ task'[c] = Raised(c)
        /\ \A d \in Callers : d # c => task'[d] = task[d]
    BY <2>1, RestingTasks, BecomeFacts
  <2> QED BY <1>3, <2>1, <2>2
<1>4. CASE TakeHistory(c)
  <2> DEFINE t == [task[c] EXCEPT !.pc = "evaluate", !.seen = History]
  <2>1. /\ t \in Task /\ t.pc = "evaluate" /\ t.key = task[c].key /\ t.todo = task[c].todo
        /\ t.seen = History
    BY <1>0 DEF Task, Locations, AtWork, Revising, OnFiles, History
  <2>2. /\ task[c].pc = "extract" /\ Become(c, t)
        /\ UNCHANGED <<runs, inputs, extracted, evaluations, authored, before, pinned,
                       reviews, requests, reviewing, calls, faults>>
    BY <1>4 DEF TakeHistory, Doing, SameSubmissions, SameReviews
  <2> HIDE DEF t
  <2>3. /\ task' \in [Callers -> Task] /\ task'[c] = t
        /\ \A d \in Callers : d # c => task'[d] = task[d]
    BY <2>1, <2>2, BecomeFacts
  <2> QED BY <1>0, <2>1, <2>2, <2>3
<1>5. CASE Return(c)
  <2>1. /\ task[c].pc = "finished" /\ ReviewsBy(c) = {} /\ Become(c, Idle)
        /\ UNCHANGED <<runs, inputs, extracted, evaluations, authored, before, pinned,
                       reviews, requests, reviewing, calls, faults>>
    BY <1>5 DEF Return, Doing, SameSubmissions, SameReviews
  <2>2. /\ task' \in [Callers -> Task] /\ task'[c].pc = "idle"
        /\ \A d \in Callers : d # c => task'[d] = task[d]
    BY <2>1, RestingTasks, BecomeFacts
  <2> QED BY <1>0, <2>1, <2>2
<1>6. CASE SnapshotHistory(c)
  <2> DEFINE t == [task[c] EXCEPT !.pc = "freeze", !.seen = History]
  <2>1. /\ t \in Task /\ t.pc = "freeze" /\ t.key = task[c].key /\ t.todo = task[c].todo
        /\ t.seen = History
    BY <1>0 DEF Task, Locations, AtWork, Correcting, History
  <2>2. /\ task[c].pc = "snapshot" /\ Become(c, t)
        /\ UNCHANGED <<runs, inputs, extracted, evaluations, authored, before, pinned,
                       reviews, requests, reviewing, calls, faults>>
    BY <1>6 DEF SnapshotHistory, Doing, SameSubmissions, SameReviews
  <2> HIDE DEF t
  <2>3. /\ task' \in [Callers -> Task] /\ task'[c] = t
        /\ \A d \in Callers : d # c => task'[d] = task[d]
    BY <2>1, <2>2, BecomeFacts
  <2> QED BY <1>0, <2>1, <2>2, <2>3
<1>7. ASSUME NEW i \in Submissions, NotEvaluated(c, i)
      PROVE  /\ task[c].pc = "evaluate" /\ task'[c].pc = "evaluate"
             /\ task'[c].key = task[c].key /\ task'[c].seen = task[c].seen
             /\ task'[c].todo \subseteq task[c].todo
             /\ task[c].todo \cup task[c].failed \subseteq task'[c].todo \cup task'[c].failed
             /\ task' \in [Callers -> Task]
             /\ \A d \in Callers : d # c => task'[d] = task[d]
             /\ UNCHANGED <<runs, inputs, extracted, evaluations, authored, before, pinned,
                            reviews, requests, reviewing, calls, faults>>
  <2> DEFINE t == [task[c] EXCEPT !.todo = @ \ {i}, !.failed = @ \cup {i}]
  <2>1. /\ t \in Task /\ t.pc = task[c].pc /\ t.key = task[c].key /\ t.seen = task[c].seen
        /\ t.todo \subseteq task[c].todo
        /\ task[c].todo \cup task[c].failed \subseteq t.todo \cup t.failed
    BY <1>0 DEF Task
  <2>2. /\ task[c].pc = "evaluate" /\ Become(c, t)
        /\ UNCHANGED <<runs, inputs, extracted, evaluations, authored, before, pinned,
                       reviews, requests, reviewing, calls, faults>>
    BY <1>7 DEF NotEvaluated, Doing, SameSubmissions, SameReviews
  <2> HIDE DEF t
  <2>3. /\ task' \in [Callers -> Task] /\ task'[c] = t
        /\ \A d \in Callers : d # c => task'[d] = task[d]
    BY <2>1, <2>2, BecomeFacts
  <2> QED BY <2>1, <2>2, <2>3
<1>8. ASSUME NEW k \in Keys, NEW files \in (SUBSET Files) \ {{}}, SelectRows(c, k, files)
      PROVE  /\ task[c].pc = "idle" /\ task'[c].pc = "intend" /\ task'[c].key \in Keys
             /\ \A i \in task'[c].todo : \E n \in DOMAIN inputs : inputs[n] = i /\ Correctable(i)
             /\ task' \in [Callers -> Task]
             /\ \A d \in Callers : d # c => task'[d] = task[d]
             /\ UNCHANGED <<runs, inputs, extracted, evaluations, authored, before, pinned,
                            reviews, requests, reviewing, calls, faults>>
  <2> DEFINE rows == {LatestInput(f) : f \in files}
             t == [Idle EXCEPT !.pc = "intend", !.key = k, !.todo = rows]
  <2>1. ASSUME NEW i \in rows PROVE i \in Submissions /\ \E n \in DOMAIN inputs : inputs[n] = i /\ Correctable(i)
    <3>1. PICK f \in files : i = LatestInput(f)
      BY <2>1
    <3>2. InputsOf(f) # {} /\ Correctable(i)
      BY <1>8, <3>1 DEF SelectRows
    <3> QED BY <3>1, <3>2, Latest
  <2>2. /\ task[c].pc = "idle" /\ Become(c, t)
        /\ UNCHANGED <<runs, inputs, extracted, evaluations, authored, before, pinned,
                       reviews, requests, reviewing, calls, faults>>
    BY <1>8 DEF SelectRows, Doing, SameSubmissions, SameReviews
  <2> HIDE DEF rows
  <2>3. rows \in SUBSET Submissions
    BY <2>1
  <2>4. t \in Task /\ t.pc = "intend" /\ t.key = k /\ t.todo = rows
    BY <2>3 DEF Idle, Task, Locations
  <2> HIDE DEF t
  <2>5. /\ task' \in [Callers -> Task] /\ task'[c] = t
        /\ \A d \in Callers : d # c => task'[d] = task[d]
    BY <2>2, <2>4, BecomeFacts
  <2> QED BY <2>1, <2>2, <2>4, <2>5
<1> QED BY <1>0, <1>1, <1>2, <1>3, <1>4, <1>5, <1>6, <1>7, <1>8 DEF Moves

-----------------------------------------------------------------------------
(* The steps that also change a table *)

Others(c) == task' \in [Callers -> Task] /\ \A d \in Callers : d # c => task'[d] = task[d]
SameLists(c) ==
    /\ task'[c].key = task[c].key /\ task'[c].todo = task[c].todo
    /\ task'[c].seen = task[c].seen /\ task'[c].failed = task[c].failed

RunRows == [RunKeys -> [state : RunStates, review : BOOLEAN \cup {None}]]
NewState(k, s) ==
    /\ runs' \in RunRows
    /\ runs'[k].state = s
    /\ \A j \in RunKeys : j # k => runs'[j] = runs[j]
    /\ \A j \in RunKeys : runs'[j].review = runs[j].review
NewPolicy(k, b) ==
    /\ runs' \in RunRows
    /\ runs'[k].review = b
    /\ \A j \in RunKeys : j # k => runs'[j] = runs[j]
    /\ \A j \in RunKeys : runs'[j].state = runs[j].state

ClaimFacts(k) ==
    /\ runs[k].state = "absent" /\ NewState(k, "running")
    /\ before' \in [Keys -> Nat] /\ before'[k] = Len(evaluations)
    /\ \A j \in Keys : j # k => before'[j] = before[j]

LEMMA Moved ==
    ASSUME TypeOK, NEW c \in Callers, NEW pc \in Locations, Goto(c, pc)
    PROVE  Others(c) /\ SameLists(c) /\ task'[c].pc = pc
BY GotoFacts DEF Others, SameLists

LEMMA Became ==
    ASSUME TypeOK, NEW c \in Callers, NEW t \in Task, Become(c, t)
    PROVE  Others(c) /\ task'[c] = t
BY BecomeFacts DEF Others

LEMMA Claimed ==
    ASSUME TypeOK, NEW c, NEW k \in Keys, Claimable(runs[k].state), ClaimRun(c, k)
    PROVE  ClaimFacts(k)
<1>1. k \in RunKeys /\ "running" \in RunStates /\ runs' = InState(k, "running")
  BY DEF RunKeys, RunStates, ClaimRun
<1>2. NewState(k, "running")
  BY <1>1, StateFacts DEF NewState, RunRows
<1>3. Len(evaluations) \in Nat /\ before \in [Keys -> Nat]
  BY DEF TypeOK
<1>4. before' = [before EXCEPT ![k] = Len(evaluations)]
  BY DEF ClaimRun
<1> QED BY <1>2, <1>3, <1>4 DEF ClaimFacts, Claimable

LEMMA StartFacts ==
    ASSUME TypeOK, NEW c \in Callers, NEW k \in Keys, Start(c, k)
    PROVE  /\ ClaimFacts(k) /\ Others(c)
           /\ task[c].pc = "idle" /\ task'[c].key = k
           /\ \/ task'[c].pc = "rules" /\ UNCHANGED pinned
              \/ task'[c].pc = "input" /\ pinned' = pinned \cup {k}
           /\ task'[c].todo = {k} \X Batch[k]
           /\ SameSubmissions /\ SameReviews /\ UNCHANGED authored
<1>1. PICK file \in BOOLEAN :
          /\ pinned' = IF file THEN pinned \cup {k} ELSE pinned
          /\ Become(c, [Idle EXCEPT !.pc = RulesFrom(file), !.key = k, !.todo = {k} \X Batch[k]])
  BY DEF Start
<1> DEFINE t == [Idle EXCEPT !.pc = RulesFrom(file), !.key = k, !.todo = {k} \X Batch[k]]
<1>2. {k} \X Batch[k] \in SUBSET Submissions
  BY EngineAssumption DEF Submissions
<1>3. RulesFrom(file) \in {"rules", "input"}
  BY DEF RulesFrom
<1>4. t \in Task /\ t.pc = RulesFrom(file) /\ t.key = k /\ t.todo = {k} \X Batch[k]
  BY <1>2, <1>3 DEF Idle, Task, Locations, AtWork, Revising, OnRules, Asking
<1>5. Become(c, t)
  BY <1>1
<1> HIDE DEF t
<1>6. Others(c) /\ task'[c] = t
  BY <1>4, <1>5, Became
<1>7. ClaimFacts(k)
  BY Claimed DEF Start
<1>8. \/ task'[c].pc = "rules" /\ UNCHANGED pinned
      \/ task'[c].pc = "input" /\ pinned' = pinned \cup {k}
  BY <1>1, <1>4, <1>6 DEF RulesFrom
<1> QED BY <1>4, <1>6, <1>7, <1>8 DEF Start, Doing

LEMMA IntendFacts ==
    ASSUME TypeOK, NEW c \in Callers, Key(c) \in Keys, Intend(c)
    PROVE  /\ Others(c) /\ task[c].pc = "intend"
           /\ \/ ClaimFacts(Key(c)) /\ SameLists(c) /\ task'[c].pc = "snapshot"
              \/ task'[c].pc = "idle" /\ UNCHANGED <<runs, before>>
           /\ SameSubmissions /\ SameReviews /\ UNCHANGED <<authored, pinned>>
<1>1. CASE Claimable(runs[Key(c)].state)
  <2>1. ClaimRun(c, Key(c)) /\ Goto(c, "snapshot")
    BY <1>1 DEF Intend
  <2>2. ClaimFacts(Key(c))
    BY <1>1, <2>1, Claimed
  <2>3. Others(c) /\ SameLists(c) /\ task'[c].pc = "snapshot"
    BY <2>1, Moved DEF Locations, AtWork, Correcting
  <2> QED BY <2>2, <2>3 DEF Intend, Doing
<1>2. CASE ~Claimable(runs[Key(c)].state)
  <2>1. Become(c, Idle) /\ UNCHANGED <<runs, before>>
    BY <1>2 DEF Intend
  <2>2. Others(c) /\ task'[c].pc = "idle"
    BY <2>1, RestingTasks, Became
  <2> QED BY <2>1, <2>2 DEF Intend, Doing
<1> QED BY <1>1, <1>2

LEMMA ClaimRulesFacts ==
    ASSUME TypeOK, NEW c \in Callers, ClaimRules(c)
    PROVE  /\ Others(c) /\ SameLists(c) /\ task[c].pc = "claim_rules"
           /\ \/ runs[RulesKey].state = "absent" /\ NewState(RulesKey, "running") /\ task'[c].pc = "author"
              \/ task'[c].pc = "rules" /\ UNCHANGED runs
           /\ SameSubmissions /\ SameReviews /\ UNCHANGED <<authored, before, pinned>>
<1>1. CASE Claimable(runs[RulesKey].state)
  <2>1. runs' = InState(RulesKey, "running") /\ Goto(c, "author") /\ "author" \in Locations
    BY <1>1 DEF ClaimRules, Locations, AtWork, Revising, OnRules, Asking
  <2>2. NewState(RulesKey, "running")
    BY <2>1, StateFacts DEF NewState, RunRows, RunKeys, RunStates
  <2>3. Others(c) /\ SameLists(c) /\ task'[c].pc = "author"
    BY <2>1, Moved
  <2> QED BY <1>1, <2>2, <2>3 DEF ClaimRules, Doing, Claimable
<1>2. CASE ~Claimable(runs[RulesKey].state)
  <2>1. Goto(c, "rules") /\ UNCHANGED runs /\ "rules" \in Locations
    BY <1>2 DEF ClaimRules, Locations, AtWork, Revising, OnRules, Asking
  <2>2. Others(c) /\ SameLists(c) /\ task'[c].pc = "rules"
    BY <2>1, Moved
  <2> QED BY <2>1, <2>2 DEF ClaimRules, Doing
<1> QED BY <1>1, <1>2

LEMMA AuthorRulesFacts ==
    ASSUME TypeOK, NEW c \in Callers, AuthorRules(c)
    PROVE  /\ Others(c) /\ SameLists(c) /\ task[c].pc = "author" /\ task'[c].pc = "store_rules"
           /\ authored' = authored + 1 /\ authored' \in Nat
           /\ SameSubmissions /\ SameReviews /\ UNCHANGED <<runs, before, pinned>>
<1>1. Goto(c, "store_rules") /\ "store_rules" \in Locations
  BY DEF AuthorRules, Locations, AtWork, Revising, OnRules, Asking
<1>2. Others(c) /\ SameLists(c) /\ task'[c].pc = "store_rules"
  BY <1>1, Moved
<1>3. authored \in Nat
  BY DEF TypeOK
<1> QED BY <1>2, <1>3 DEF AuthorRules, Doing

LEMMA StoreRulesFacts ==
    ASSUME TypeOK, NEW c \in Callers, StoreRules(c)
    PROVE  /\ Others(c) /\ SameLists(c) /\ task[c].pc = "store_rules" /\ task'[c].pc = "input"
           /\ NewState(RulesKey, "completed")
           /\ SameSubmissions /\ SameReviews /\ UNCHANGED <<authored, before, pinned>>
<1>1. Goto(c, "input") /\ "input" \in Locations
  BY DEF StoreRules, Locations, AtWork, Revising, OnRules, Asking
<1>2. Others(c) /\ SameLists(c) /\ task'[c].pc = "input"
  BY <1>1, Moved
<1>3. NewState(RulesKey, "completed")
  BY StateFacts DEF StoreRules, NewState, RunRows, RunKeys, RunStates
<1> QED BY <1>2, <1>3 DEF StoreRules, Doing

LEMMA RulesFailFacts ==
    ASSUME TypeOK, NEW c \in Callers, RulesFail(c)
    PROVE  /\ Others(c) /\ task[c].pc \in {"author", "store_rules"} /\ task'[c] = Raised(c)
           /\ NewState(RulesKey, IF Running(RulesKey) THEN "unknown" ELSE runs[RulesKey].state)
           /\ SameSubmissions /\ SameReviews /\ UNCHANGED <<authored, before, pinned>>
<1>1. Others(c) /\ task'[c] = Raised(c)
  BY RestingTasks, Became DEF RulesFail
<1>2. NewState(RulesKey, IF Running(RulesKey) THEN "unknown" ELSE runs[RulesKey].state)
  BY UnknownFacts DEF RulesFail, NewState, RunRows, RunKeys, Running
<1> QED BY <1>1, <1>2 DEF RulesFail

LEMMA SetInputFacts ==
    ASSUME TypeOK, NEW c \in Callers, Key(c) \in Keys, SetInput(c)
    PROVE  /\ Others(c) /\ SameLists(c) /\ task[c].pc = "input" /\ task'[c].pc = "register"
           /\ NewPolicy(Key(c), Key(c) \in Reviewed)
           /\ SameSubmissions /\ SameReviews /\ UNCHANGED <<authored, before, pinned>>
<1>1. Goto(c, "register") /\ "register" \in Locations
  BY DEF SetInput, Locations, AtWork, Revising, OnFiles
<1>2. Others(c) /\ SameLists(c) /\ task'[c].pc = "register"
  BY <1>1, Moved
<1>3. (Key(c) \in Reviewed) \in BOOLEAN /\ Key(c) \in RunKeys
  BY DEF RunKeys
<1>4. SetsPolicy(Key(c), Key(c) \in Reviewed)
  BY DEF SetInput, SetsPolicy
<1>5. NewPolicy(Key(c), Key(c) \in Reviewed)
  BY <1>3, <1>4, PolicyFacts DEF NewPolicy, RunRows
<1> QED BY <1>2, <1>5 DEF SetInput, Doing

LEMMA FreezeFacts ==
    ASSUME TypeOK, NEW c \in Callers, Key(c) \in Keys, Freeze(c)
    PROVE  /\ Others(c) /\ SameLists(c) /\ task[c].pc = "freeze" /\ task'[c].pc = "amend"
           /\ NewPolicy(Key(c), FALSE)
           /\ SameSubmissions /\ SameReviews /\ UNCHANGED <<authored, before, pinned>>
<1>1. Goto(c, "amend") /\ "amend" \in Locations
  BY DEF Freeze, Locations, AtWork, Correcting
<1>2. Others(c) /\ SameLists(c) /\ task'[c].pc = "amend"
  BY <1>1, Moved
<1>3. SetsPolicy(Key(c), FALSE) /\ Key(c) \in RunKeys /\ FALSE \in BOOLEAN
  BY DEF Freeze, SetsPolicy, RunKeys
<1>4. NewPolicy(Key(c), FALSE)
  BY <1>3, PolicyFacts DEF NewPolicy, RunRows
<1> QED BY <1>2, <1>4 DEF Freeze, Doing

LEMMA FinishFacts ==
    ASSUME TypeOK, NEW c \in Callers, Key(c) \in Keys, Finish(c)
    PROVE  /\ Others(c) /\ task[c].pc \in {"evaluate", "amend"} /\ task'[c] = Closing(c)
           /\ task[c].todo = {} /\ ReviewsBy(c) = {} /\ Running(Key(c))
           /\ NewState(Key(c), Summary(c))
           /\ SameSubmissions /\ SameReviews /\ UNCHANGED <<authored, before, pinned>>
<1>1. Others(c) /\ task'[c] = Closing(c)
  BY RestingTasks, Became DEF Finish
<1>2. Summary(c) \in RunStates /\ Key(c) \in RunKeys
  BY DEF Summary, RunStates, RunKeys
<1>3. NewState(Key(c), Summary(c))
  BY <1>2, StateFacts DEF Finish, NewState, RunRows
<1> QED BY <1>1, <1>3 DEF Finish

LEMMA GiveUpFacts ==
    ASSUME TypeOK, NEW c \in Callers, Key(c) \in Keys, GiveUp(c)
    PROVE  /\ Others(c) /\ task[c].pc = "raised" /\ task'[c] = Closing(c)
           /\ NewState(Key(c), IF Running(Key(c)) THEN "unknown" ELSE runs[Key(c)].state)
           /\ SameSubmissions /\ SameReviews /\ UNCHANGED <<authored, before, pinned>>
<1>1. Others(c) /\ task'[c] = Closing(c)
  BY RestingTasks, Became DEF GiveUp
<1>2. NewState(Key(c), IF Running(Key(c)) THEN "unknown" ELSE runs[Key(c)].state)
  BY UnknownFacts DEF GiveUp, NewState, RunRows, RunKeys, Running
<1> QED BY <1>1, <1>2 DEF GiveUp, Doing

LEMMA DieFacts ==
    ASSUME TypeOK, NEW c \in Callers, Die(c)
    PROVE  /\ Others(c) /\ task'[c].pc = "idle"
           /\ reviewing' = reviewing \ ReviewsBy(c) /\ faults' \in Nat
           /\ SameSubmissions /\ UNCHANGED <<runs, reviews, requests, authored, calls, before, pinned>>
<1>1. Others(c) /\ task'[c].pc = "idle"
  BY RestingTasks, Became DEF Die
<1>2. faults' \in Nat
  BY DEF Die, TypeOK
<1> QED BY <1>1, <1>2 DEF Die

LEMMA RegisterFacts ==
    ASSUME TypeOK, NEW c \in Callers, NEW i \in Submissions, Register(c, i)
    PROVE  /\ Others(c) /\ SameLists(c) /\ task[c].pc = "register"
           /\ task'[c].pc \in {"register", "extract"} /\ i \in task[c].todo
           /\ inputs' = Append(inputs, i)
           /\ SameReviews /\ UNCHANGED <<runs, extracted, evaluations, authored, before, pinned>>
<1> DEFINE pc == IF \A j \in task[c].todo \ {i} : Registered(j) THEN "extract" ELSE "register"
<1>1. pc \in {"extract", "register"} /\ pc \in Locations
  BY DEF Locations, AtWork, Revising, OnFiles
<1>2. Goto(c, pc)
  BY DEF Register
<1> HIDE DEF pc
<1>3. Others(c) /\ SameLists(c) /\ task'[c].pc = pc
  BY <1>1, <1>2, Moved
<1> QED BY <1>1, <1>3 DEF Register, RegisterInput, Doing

(* A decision is published once for a file on the list. *)
Published(c, i, e) ==
    /\ e \in Evaluation /\ e.input = i /\ e.key = Key(c) /\ e.decision \in Decisions(c, i)
    /\ evaluations' = Append(evaluations, e)
    /\ Others(c) /\ task'[c].pc = task[c].pc /\ task'[c].key = task[c].key
    /\ task'[c].todo = task[c].todo \ {i} /\ task'[c].seen = task[c].seen
    /\ task'[c].failed = task[c].failed
    /\ i \in task[c].todo

LEMMA PublishFacts ==
    ASSUME TypeOK, NEW c \in Callers, Key(c) \in Keys, NEW i \in Submissions,
           NEW d \in Decisions(c, i), Publish(c, i, d), i \in task[c].todo,
           Become(c, [task[c] EXCEPT !.todo = @ \ {i}])
    PROVE  Published(c, i, [input |-> i, key |-> Key(c), decision |-> d])
<1> DEFINE e == [input |-> i, key |-> Key(c), decision |-> d]
           t == [task[c] EXCEPT !.todo = @ \ {i}]
<1>1. e \in Evaluation /\ e.input = i /\ e.key = Key(c) /\ e.decision = d
  BY DEF Decisions, Evaluation
<1>2. /\ t \in Task /\ t.pc = task[c].pc /\ t.key = task[c].key
      /\ t.todo = task[c].todo \ {i} /\ t.seen = task[c].seen /\ t.failed = task[c].failed
  BY DEF TypeOK, Task
<1>3. evaluations' = Append(evaluations, e) /\ Become(c, t)
  BY DEF Publish
<1> HIDE DEF e, t
<1>4. Others(c) /\ task'[c] = t
  BY <1>2, <1>3, Became
<1>5. Published(c, i, e)
  BY <1>1, <1>2, <1>3, <1>4 DEF Published
<1> QED BY <1>5 DEF e

LEMMA EvaluateFacts ==
    ASSUME TypeOK, NEW c \in Callers, Key(c) \in Keys, NEW i \in Submissions, Evaluate(c, i)
    PROVE  /\ task[c].pc = "evaluate"
           /\ \E e : /\ Published(c, i, e)
                     /\ reviewing' = reviewing \cup
                           IF Key(c) \in Reviewed /\ e.decision = "PAGAR"
                           THEN {Review(c, i, Len(evaluations) + 1)} ELSE {}
           /\ UNCHANGED <<runs, inputs, extracted, reviews, requests, authored, calls, before, pinned, faults>>
<1>1. PICK d \in Decisions(c, i) :
          /\ Publish(c, i, d)
          /\ reviewing' = reviewing \cup IF Key(c) \in Reviewed /\ d = "PAGAR"
                                        THEN {Review(c, i, Len(evaluations) + 1)} ELSE {}
  BY DEF Evaluate
<1> DEFINE e == [input |-> i, key |-> Key(c), decision |-> d]
<1>2. i \in task[c].todo /\ Become(c, [task[c] EXCEPT !.todo = @ \ {i}])
  BY DEF Evaluate, Turn
<1>3. Published(c, i, e)
  BY <1>1, <1>2, PublishFacts
<1>4. e.decision = d
  OBVIOUS
<1> HIDE DEF e
<1> QED BY <1>1, <1>3, <1>4 DEF Evaluate, Doing

LEMMA AmendFacts ==
    ASSUME TypeOK, NEW c \in Callers, Key(c) \in Keys, NEW i \in Submissions, Amend(c, i)
    PROVE  /\ task[c].pc = "amend"
           /\ \E e : Published(c, i, e)
           /\ SameReviews /\ UNCHANGED <<runs, inputs, extracted, authored, before, pinned>>
<1>1. PICK d \in Decisions(c, i) : Publish(c, i, d)
  BY DEF Amend
<1>2. i \in task[c].todo /\ Become(c, [task[c] EXCEPT !.todo = @ \ {i}])
  BY DEF Amend
<1>3. Published(c, i, [input |-> i, key |-> Key(c), decision |-> d])
  BY <1>1, <1>2, PublishFacts
<1> QED BY <1>3 DEF Amend, Doing

-----------------------------------------------------------------------------
(* Every step is one of these. *)

Stutters == UNCHANGED vars

StepOf(c) ==
    \/ Moves(c) \/ Intend(c) \/ ClaimRules(c) \/ AuthorRules(c) \/ StoreRules(c) \/ RulesFail(c)
    \/ SetInput(c) \/ Freeze(c) \/ Finish(c) \/ GiveUp(c) \/ Die(c)
    \/ \E k \in Keys : Start(c, k)
    \/ \E i \in Submissions : Register(c, i) \/ Extract(c, i) \/ Evaluate(c, i) \/ Amend(c, i)

LEMMA StepCases ==
    ASSUME [Next]_vars
    PROVE  \/ Stutters
           \/ \E c \in Callers : StepOf(c)
           \/ \E t \in reviewing : ReviewWork(t)
BY DEF Next, Command, Work, StepOf, Stutters, Moves, Answer

(* The caller of such a step has a key of its own. *)
LEMMA KeyedSteps ==
    ASSUME TypeOK, KeysHeld, NEW c \in Callers,
           \/ Intend(c) \/ SetInput(c) \/ Freeze(c) \/ Finish(c) \/ GiveUp(c) \/ ClaimRules(c)
           \/ AuthorRules(c) \/ StoreRules(c) \/ RulesFail(c)
           \/ \E i \in Submissions : Register(c, i) \/ Extract(c, i) \/ Evaluate(c, i) \/ Amend(c, i)
    PROVE  Key(c) \in Keys
<1>1. task[c].pc # "idle"
  BY DEF Intend, SetInput, Freeze, Finish, GiveUp, ClaimRules, AuthorRules, StoreRules, RulesFail,
         Register, Extract, Evaluate, Amend, Doing
<1> QED BY <1>1 DEF KeysHeld, PcIn

-----------------------------------------------------------------------------
(* Types *)

LEMMA StepTypes ==
    ASSUME TypeOK, NEW t \in reviewing, NEW v \in Verdicts \cup {None},
           NEW at \in {"claim", "call", "store", "finish", "broken"}, Step(t, at, v)
    PROVE  /\ reviewing' \subseteq ReviewTask
           /\ \E u \in ReviewTask :
                 /\ reviewing' = (reviewing \ {t}) \cup {u}
                 /\ u.by = t.by /\ u.request = t.request /\ u.evaluation = t.evaluation
                 /\ u.at = at /\ u.verdict = v
<1> DEFINE u == [t EXCEPT !.at = at, !.verdict = v]
<1>1. t \in ReviewTask /\ reviewing \subseteq ReviewTask
  BY DEF TypeOK
<1>2. /\ u \in ReviewTask /\ u.by = t.by /\ u.request = t.request /\ u.evaluation = t.evaluation
      /\ u.at = at /\ u.verdict = v
  BY <1>1 DEF ReviewTask
<1>3. reviewing' = (reviewing \ {t}) \cup {u}
  BY DEF Step
<1> HIDE DEF u
<1> QED BY <1>1, <1>2, <1>3

(* The tables of reviews *)
ReviewTables ==
    /\ reviews' \in Seq([evaluation : Nat, verdict : Verdicts])
    /\ requests' \in [Submissions -> {"absent", "running", "finished", "unknown"}]
    /\ reviewing' \subseteq ReviewTask
    /\ calls' \in [Submissions -> Nat]
    /\ faults' \in Nat

LEMMA ReviewWorkTypes ==
    ASSUME TypeOK, CallsInv, NEW t \in reviewing, ReviewWork(t)
    PROVE  ReviewTables
<1>1. t \in ReviewTask /\ t.request \in Submissions /\ t.evaluation \in Nat
  BY DEF TypeOK, ReviewTask
<1>2. /\ faults \in Nat /\ faults + 1 \in Nat
      /\ reviews \in Seq([evaluation : Nat, verdict : Verdicts])
      /\ requests \in [Submissions -> {"absent", "running", "finished", "unknown"}]
      /\ reviewing \subseteq ReviewTask /\ calls \in [Submissions -> Nat]
  BY DEF TypeOK
<1>3. None \in Verdicts \cup {None}
  OBVIOUS
<1>4. CASE ClaimReview(t)
  BY <1>1, <1>2, <1>3, <1>4, StepTypes DEF ClaimReview, ReviewTables
<1>5. CASE CallReviewer(t)
  <2>1. PICK v \in {"COMPLETED", "CHALLENGED", "FAILED"} : Step(t, "store", v)
    BY <1>5 DEF CallReviewer
  <2>2. reviewing' \subseteq ReviewTask
    BY <2>1, StepTypes DEF Verdicts
  <2>3. calls' \in [Submissions -> Nat]
    BY <1>1, <1>2, <1>5 DEF CallReviewer
  <2> QED BY <1>2, <1>5, <2>2, <2>3 DEF CallReviewer, ReviewTables
<1>6. CASE StoreReview(t)
  <2>1. t.verdict \in Verdicts /\ Step(t, "finish", t.verdict)
    BY <1>6 DEF StoreReview, CallsInv
  <2>2. reviewing' \subseteq ReviewTask
    BY <2>1, StepTypes
  <2>3. reviews' \in Seq([evaluation : Nat, verdict : Verdicts])
    BY <1>1, <1>2, <1>6, <2>1 DEF StoreReview
  <2> QED BY <1>2, <1>6, <2>2, <2>3 DEF StoreReview, ReviewTables
<1>7. CASE FinishReview(t)
  BY <1>1, <1>2, <1>7 DEF FinishReview, Ended, ReviewTables
<1>8. CASE ReviewFails(t)
  BY <1>1, <1>2, <1>8 DEF ReviewFails, UnknownReview, Ended, ReviewTables
<1>9. CASE ReviewBreaks(t)
  BY <1>1, <1>2, <1>3, <1>9, StepTypes DEF ReviewBreaks, UnknownReview, ReviewTables
<1>10. CASE ReviewSurfaces(t)
  BY <1>1, <1>2, <1>10 DEF ReviewSurfaces, ReviewTables
<1> QED BY <1>4, <1>5, <1>6, <1>7, <1>8, <1>9, <1>10 DEF ReviewWork

LEMMA TypesKept ==
    ASSUME EngineInv, [Next]_vars
    PROVE  TypeOK'
<1>0. TypeOK /\ KeysHeld /\ CallsInv
  BY DEF EngineInv
<1>1. CASE Stutters
  BY <1>0, <1>1 DEF Stutters, vars, TypeOK
<1>2. ASSUME NEW t \in reviewing, ReviewWork(t) PROVE TypeOK'
  BY <1>0, <1>2, ReviewWorkTypes, ReviewWorkFacts DEF TypeOK, ReviewTables
<1>3. ASSUME NEW c \in Callers, StepOf(c) PROVE TypeOK'
  <2>1. CASE Moves(c)
    BY <1>0, <2>1, MovesFacts DEF TypeOK
  <2>2. CASE Intend(c)
    BY <1>0, <2>2, KeyedSteps, IntendFacts
       DEF TypeOK, Others, ClaimFacts, NewState, RunRows, SameSubmissions, SameReviews
  <2>3. CASE ClaimRules(c) \/ AuthorRules(c) \/ StoreRules(c) \/ RulesFail(c)
    BY <1>0, <2>3, ClaimRulesFacts, AuthorRulesFacts, StoreRulesFacts, RulesFailFacts
       DEF TypeOK, Others, NewState, RunRows, SameSubmissions, SameReviews
  <2>4. CASE SetInput(c) \/ Freeze(c) \/ Finish(c) \/ GiveUp(c)
    BY <1>0, <2>4, KeyedSteps, SetInputFacts, FreezeFacts, FinishFacts, GiveUpFacts
       DEF TypeOK, Others, NewState, NewPolicy, RunRows, SameSubmissions, SameReviews
  <2>5. CASE Die(c)
    BY <1>0, <2>5, DieFacts DEF TypeOK, Others, SameSubmissions
  <2>6. ASSUME NEW k \in Keys, Start(c, k) PROVE TypeOK'
    BY <1>0, <2>6, StartFacts
       DEF TypeOK, Others, ClaimFacts, NewState, RunRows, SameSubmissions, SameReviews
  <2>7. ASSUME NEW i \in Submissions, Register(c, i) PROVE TypeOK'
    <3>1. inputs \in Seq(Submissions) /\ inputs' = Append(inputs, i)
      BY <1>0, <2>7, RegisterFacts DEF TypeOK
    <3>2. inputs' \in Seq(Submissions)
      BY <3>1
    <3> QED BY <1>0, <2>7, <3>2, RegisterFacts DEF TypeOK, Others, SameReviews
  <2>8. ASSUME NEW i \in Submissions, Extract(c, i) PROVE TypeOK'
    BY <1>0, <2>8 DEF TypeOK, Extract, SameReviews
  <2>9. ASSUME NEW i \in Submissions, Evaluate(c, i) PROVE TypeOK'
    <3>1. Key(c) \in Keys
      BY <1>0, <2>9, KeyedSteps
    <3>2. PICK e : /\ Published(c, i, e)
                   /\ reviewing' = reviewing \cup
                         IF Key(c) \in Reviewed /\ e.decision = "PAGAR"
                         THEN {Review(c, i, Len(evaluations) + 1)} ELSE {}
      BY <1>0, <2>9, <3>1, EvaluateFacts
    <3>3. Review(c, i, Len(evaluations) + 1) \in ReviewTask
      BY <1>0 DEF Review, ReviewTask, TypeOK
    <3>4. reviewing' \subseteq ReviewTask
      BY <1>0, <3>2, <3>3 DEF TypeOK
    <3>5. evaluations' \in Seq(Evaluation) /\ task' \in [Callers -> Task]
      BY <1>0, <3>2 DEF TypeOK, Published, Others
    <3>6. UNCHANGED <<runs, inputs, extracted, reviews, requests, authored, calls, before, pinned, faults>>
      BY <2>9 DEF Evaluate
    <3> QED BY <1>0, <3>4, <3>5, <3>6 DEF TypeOK
  <2>10. ASSUME NEW i \in Submissions, Amend(c, i) PROVE TypeOK'
    <3>1. Key(c) \in Keys
      BY <1>0, <2>10, KeyedSteps
    <3>2. PICK e : Published(c, i, e)
      BY <1>0, <2>10, <3>1, AmendFacts
    <3>3. evaluations' \in Seq(Evaluation) /\ task' \in [Callers -> Task]
      BY <1>0, <3>2 DEF TypeOK, Published, Others
    <3>4. SameReviews /\ UNCHANGED <<runs, inputs, extracted, authored, before, pinned>>
      BY <2>10 DEF Amend
    <3> QED BY <1>0, <3>3, <3>4 DEF TypeOK, SameReviews
  <2> QED BY <1>3, <2>1, <2>2, <2>3, <2>4, <2>5, <2>6, <2>7, <2>8, <2>9, <2>10 DEF StepOf
<1> QED BY <1>1, <1>2, <1>3, StepCases

-----------------------------------------------------------------------------
(* Request keys *)

LEMMA KeysKept ==
    ASSUME EngineInv, [Next]_vars
    PROVE  KeysHeld'
<1> USE DEF Holding, PcIn, Key, Running, AtWork, Revising, OnRules, Asking, OnFiles, Correcting
<1>0. TypeOK /\ KeysHeld /\ RulesKey \notin Keys
  BY EngineAssumption DEF EngineInv
<1>1. CASE Stutters
  BY <1>0, <1>1 DEF Stutters, vars, KeysHeld
<1>2. ASSUME NEW t \in reviewing, ReviewWork(t) PROVE KeysHeld'
  <2>1. \A c \in Callers : task'[c] = task[c] \/ (task[c].pc = "evaluate" /\ task'[c].pc \in {"evaluate", "raised"} /\ task'[c].key = task[c].key)
    BY <1>0, <1>2, ReviewWorkFacts, RestingTasks
  <2>2. UNCHANGED runs
    BY <1>0, <1>2, ReviewWorkFacts
  <2> QED BY <1>0, <2>1, <2>2 DEF KeysHeld
<1>3. ASSUME NEW c \in Callers, StepOf(c) PROVE KeysHeld'
  <2>1. CASE Moves(c)
    BY <1>0, <2>1, MovesFacts, RestingTasks DEF KeysHeld
  <2>2. CASE Intend(c)
    BY <1>0, <2>2, KeyedSteps, IntendFacts
       DEF KeysHeld, Others, SameLists, ClaimFacts, NewState, RunKeys
  <2>3. CASE ClaimRules(c) \/ AuthorRules(c) \/ StoreRules(c) \/ RulesFail(c)
    <3>1. \A k \in Keys : runs'[k] = runs[k]
      BY <1>0, <2>3, ClaimRulesFacts, AuthorRulesFacts, StoreRulesFacts, RulesFailFacts
         DEF NewState, RunKeys
    <3>2. /\ task[c].pc \in AtWork /\ task'[c].pc \in AtWork \cup {"raised"}
          /\ task'[c].key = task[c].key /\ Others(c)
      BY <1>0, <2>3, ClaimRulesFacts, AuthorRulesFacts, StoreRulesFacts, RulesFailFacts, RestingTasks
         DEF SameLists
    <3> QED BY <1>0, <3>1, <3>2 DEF KeysHeld, Others
  <2>4. CASE SetInput(c) \/ Freeze(c)
    <3>1. \A k \in Keys : runs'[k].state = runs[k].state
      BY <1>0, <2>4, KeyedSteps, SetInputFacts, FreezeFacts DEF NewPolicy, RunKeys
    <3>2. /\ task[c].pc \in AtWork /\ task'[c].pc \in AtWork
          /\ task'[c].key = task[c].key /\ Others(c)
      BY <1>0, <2>4, KeyedSteps, SetInputFacts, FreezeFacts DEF SameLists
    <3> QED BY <1>0, <3>1, <3>2 DEF KeysHeld, Others
  <2>5. CASE Finish(c) \/ GiveUp(c)
    <3>1. /\ \A k \in Keys : k # Key(c) => runs'[k] = runs[k]
          /\ runs'[Key(c)].state # "absent"
      BY <1>0, <2>5, KeyedSteps, FinishFacts, GiveUpFacts DEF NewState, RunKeys, KeysHeld, Summary
    <3>2. /\ task[c].pc \in AtWork \cup {"raised"} /\ task'[c].pc = "finished"
          /\ task'[c].key = task[c].key /\ Others(c)
      BY <1>0, <2>5, KeyedSteps, FinishFacts, GiveUpFacts, RestingTasks
    <3> QED BY <1>0, <3>1, <3>2 DEF KeysHeld, Others
  <2>6. CASE Die(c)
    BY <1>0, <2>6, DieFacts DEF KeysHeld, Others
  <2>7. ASSUME NEW k \in Keys, Start(c, k) PROVE KeysHeld'
    <3>1. /\ runs[k].state = "absent" /\ runs'[k].state = "running"
          /\ \A j \in Keys : j # k => runs'[j] = runs[j]
          /\ task'[c].pc \in {"rules", "input"} /\ task'[c].key = k /\ Others(c)
      BY <1>0, <2>7, StartFacts DEF ClaimFacts, NewState, RunKeys
    <3>2. \A d \in Callers : Holding(d) => task[d].key # k
      BY <1>0, <3>1 DEF KeysHeld
    <3> QED BY <1>0, <3>1, <3>2 DEF KeysHeld, Others
  <2>8. ASSUME NEW i \in Submissions, Register(c, i) PROVE KeysHeld'
    BY <1>0, <2>8, RegisterFacts DEF KeysHeld, Others, SameLists
  <2>9. ASSUME NEW i \in Submissions, Extract(c, i) PROVE KeysHeld'
    BY <1>0, <2>9 DEF KeysHeld, Extract
  <2>10. ASSUME NEW i \in Submissions, Evaluate(c, i) \/ Amend(c, i) PROVE KeysHeld'
    <3>1. PICK e : Published(c, i, e)
      BY <1>0, <2>10, KeyedSteps, EvaluateFacts, AmendFacts
    <3>2. UNCHANGED runs
      BY <2>10 DEF Evaluate, Amend
    <3> QED BY SMTT(30), <1>0, <3>1, <3>2 DEF KeysHeld, Published, Others
  <2> QED BY <1>3, <2>1, <2>2, <2>3, <2>4, <2>5, <2>6, <2>7, <2>8, <2>9, <2>10 DEF StepOf
<1> QED BY <1>1, <1>2, <1>3, StepCases

(* The steps of a review and the tables of reviews *)
LEMMA ReviewTableFacts ==
    ASSUME TypeOK, CallsInv, NEW t \in reviewing, ReviewWork(t)
    PROVE  /\ \A q \in Submissions : q # t.request => requests'[q] = requests[q] /\ calls'[q] = calls[q]
           /\ DOMAIN reviews \subseteq DOMAIN reviews'
           /\ \A r \in DOMAIN reviews : reviews'[r] = reviews[r]
           /\ \/ reviewing' = reviewing \ {t}
              \/ \E u \in ReviewTask :
                    /\ reviewing' = (reviewing \ {t}) \cup {u}
                    /\ u.by = t.by /\ u.request = t.request /\ u.evaluation = t.evaluation
<1>1. /\ reviews \in Seq([evaluation : Nat, verdict : Verdicts])
      /\ t.request \in Submissions /\ t.evaluation \in Nat
      /\ requests \in [Submissions -> {"absent", "running", "finished", "unknown"}]
      /\ calls \in [Submissions -> Nat]
  BY DEF TypeOK, ReviewTask
<1>2. None \in Verdicts \cup {None}
  OBVIOUS
<1>3. CASE ClaimReview(t)
  BY <1>1, <1>2, <1>3, StepTypes DEF ClaimReview
<1>4. CASE CallReviewer(t)
  <2>1. PICK v \in Verdicts : Step(t, "store", v)
    BY <1>4 DEF CallReviewer, Verdicts
  <2> QED BY <1>1, <1>4, <2>1, StepTypes DEF CallReviewer
<1>5. CASE StoreReview(t)
  <2>1. t.verdict \in Verdicts /\ Step(t, "finish", t.verdict)
    BY <1>5 DEF StoreReview, CallsInv
  <2>2. /\ DOMAIN reviews \subseteq DOMAIN reviews'
        /\ \A r \in DOMAIN reviews : reviews'[r] = reviews[r]
    BY <1>1, <1>5, <2>1 DEF StoreReview
  <2> QED BY <1>5, <2>1, <2>2, StepTypes DEF StoreReview
<1>6. CASE FinishReview(t)
  BY <1>1, <1>6 DEF FinishReview, Ended
<1>7. CASE ReviewFails(t)
  BY <1>1, <1>7 DEF ReviewFails, UnknownReview, Ended
<1>8. CASE ReviewBreaks(t)
  BY <1>1, <1>2, <1>8, StepTypes DEF ReviewBreaks, UnknownReview
<1>9. CASE ReviewSurfaces(t)
  BY <1>1, <1>9 DEF ReviewSurfaces
<1> QED BY <1>3, <1>4, <1>5, <1>6, <1>7, <1>8, <1>9 DEF ReviewWork

LEMMA OfRunFacts ==
    ASSUME TypeOK, NEW i \in Submissions, inputs' = Append(inputs, i), NEW k
    PROVE  OfRun(k)' = OfRun(k) \cup {j \in {i} : j[1] = k}
<1>1. inputs \in Seq(Submissions)
  BY DEF TypeOK
<1>2. /\ DOMAIN inputs' = DOMAIN inputs \cup {Len(inputs) + 1}
      /\ \A n \in DOMAIN inputs : inputs'[n] = inputs[n]
      /\ inputs'[Len(inputs) + 1] = i
  BY <1>1
<1> QED BY <1>2 DEF OfRun

LEMMA PublishedFacts ==
    ASSUME TypeOK, NEW c, NEW i, NEW e, Published(c, i, e)
    PROVE  /\ DOMAIN evaluations' = DOMAIN evaluations \cup {Len(evaluations) + 1}
           /\ Len(evaluations') = Len(evaluations) + 1 /\ Len(evaluations) \in Nat
           /\ Len(evaluations) + 1 \notin DOMAIN evaluations
           /\ \A n \in DOMAIN evaluations : evaluations'[n] = evaluations[n]
           /\ evaluations'[Len(evaluations) + 1] = e
<1>1. evaluations \in Seq(Evaluation) /\ evaluations' = Append(evaluations, e)
  BY DEF TypeOK, Published
<1> QED BY <1>1

LEMMA AbsentKept ==
    ASSUME EngineInv, [Next]_vars
    PROVE  AbsentIsUnused'
<1> USE DEF PcIn, Key, Running, AtWork, Revising, OnRules, Asking, OnFiles, Correcting
<1>0. TypeOK /\ KeysHeld /\ AbsentIsUnused /\ CallsInv /\ RulesKey \notin Keys
  BY EngineAssumption DEF EngineInv
<1>1. CASE Stutters
  BY <1>0, <1>1 DEF Stutters, vars, AbsentIsUnused, OfRun
<1>2. ASSUME NEW t \in reviewing, ReviewWork(t) PROVE AbsentIsUnused'
  <2>1. UNCHANGED <<runs, inputs, evaluations>>
    BY <1>0, <1>2, ReviewWorkFacts
  <2>2. \A q \in Submissions : q # t.request => requests'[q] = requests[q]
    BY <1>0, <1>2, ReviewTableFacts
  <2>3. runs[t.request[1]].state # "absent"
    <3>1. t.by \in Callers /\ task[t.by].pc \in {"evaluate", "raised", "finished"} /\ task[t.by].key = t.request[1]
      BY <1>0, <1>2 DEF EngineInv, ReviewInv, TypeOK, ReviewTask
    <3> QED BY <1>0, <3>1 DEF KeysHeld, Holding
  <2> QED BY <1>0, <2>1, <2>2, <2>3 DEF AbsentIsUnused, OfRun
<1>3. ASSUME NEW c \in Callers, StepOf(c) PROVE AbsentIsUnused'
  <2>1. CASE Moves(c)
    BY <1>0, <2>1, MovesFacts DEF AbsentIsUnused, OfRun
  <2>2. ASSUME \A k \in Keys : runs'[k].state = "absent" => runs'[k] = runs[k],
               SameSubmissions, UNCHANGED requests
        PROVE  AbsentIsUnused'
    BY <1>0, <2>2 DEF AbsentIsUnused, OfRun, SameSubmissions
  <2>3. CASE Intend(c)
    BY <1>0, <2>2, <2>3, KeyedSteps, IntendFacts DEF ClaimFacts, NewState, RunKeys, SameReviews
  <2>4. CASE ClaimRules(c) \/ AuthorRules(c) \/ StoreRules(c) \/ RulesFail(c)
    BY <1>0, <2>2, <2>4, ClaimRulesFacts, AuthorRulesFacts, StoreRulesFacts, RulesFailFacts
       DEF NewState, RunKeys, SameReviews
  <2>5. CASE SetInput(c) \/ Freeze(c)
    <3>1. runs[Key(c)].state # "absent"
      BY <1>0, <2>5 DEF SetInput, Freeze, Doing, KeysHeld
    <3> QED BY <1>0, <2>2, <2>5, <3>1, KeyedSteps, SetInputFacts, FreezeFacts
            DEF NewPolicy, RunKeys, SameReviews
  <2>6. CASE Finish(c) \/ GiveUp(c)
    <3>1. runs[Key(c)].state # "absent"
      BY <1>0, <2>6 DEF Finish, GiveUp, Doing, KeysHeld, Holding
    <3> QED BY <1>0, <2>2, <2>6, <3>1, KeyedSteps, FinishFacts, GiveUpFacts
            DEF NewState, RunKeys, SameReviews, Summary
  <2>7. CASE Die(c)
    BY <1>0, <2>2, <2>7, DieFacts
  <2>8. ASSUME NEW k \in Keys, Start(c, k) PROVE AbsentIsUnused'
    BY <1>0, <2>2, <2>8, StartFacts DEF ClaimFacts, NewState, RunKeys, SameReviews
  <2>9. ASSUME NEW i \in Submissions, Register(c, i) PROVE AbsentIsUnused'
    <3>1. i \in task[c].todo /\ i[1] = Key(c) /\ runs[i[1]].state # "absent" /\ inputs' = Append(inputs, i)
      BY <1>0, <2>9, RegisterFacts DEF EngineInv, ListsInv, KeysHeld
    <3>2. ASSUME NEW k \in Keys, runs[k].state = "absent" PROVE OfRun(k)' = OfRun(k)
      <4>1. OfRun(k)' = OfRun(k) \cup {j \in {i} : j[1] = k}
        BY <1>0, <3>1, OfRunFacts
      <4>2. i[1] # k
        BY <3>1, <3>2
      <4> QED BY <4>1, <4>2
    <3>3. UNCHANGED <<runs, evaluations, requests>>
      BY <2>9 DEF Register, SameReviews
    <3>4. ASSUME NEW k \in Keys, runs'[k].state = "absent"
          PROVE  /\ runs'[k].review = None
                 /\ OfRun(k)' = {}
                 /\ \A n \in DOMAIN evaluations' : evaluations'[n].key # k
                 /\ \A j \in Submissions : j[1] = k => requests'[j] = "absent"
      BY <1>0, <3>2, <3>3, <3>4 DEF AbsentIsUnused
    <3> QED BY <3>4 DEF AbsentIsUnused
  <2>10. ASSUME NEW i \in Submissions, Extract(c, i) PROVE AbsentIsUnused'
    BY <1>0, <2>10 DEF AbsentIsUnused, OfRun, Extract, SameReviews
  <2>11. ASSUME NEW i \in Submissions, Evaluate(c, i) \/ Amend(c, i) PROVE AbsentIsUnused'
    <3>1. PICK e : Published(c, i, e)
      BY <1>0, <2>11, KeyedSteps, EvaluateFacts, AmendFacts
    <3>2. UNCHANGED <<runs, inputs, requests>>
      BY <2>11 DEF Evaluate, Amend, SameReviews
    <3>3. e.key = Key(c) /\ runs[Key(c)].state # "absent"
      BY <1>0, <2>11, <3>1 DEF Published, Evaluate, Amend, Doing, KeysHeld
    <3>4. \A k \in Keys : runs[k].state = "absent" =>
             \A n \in DOMAIN evaluations' : evaluations'[n].key # k
      BY <1>0, <3>1, <3>3, PublishedFacts DEF AbsentIsUnused
    <3> QED BY <1>0, <3>2, <3>4 DEF AbsentIsUnused, OfRun
  <2> QED BY <1>3, <2>1, <2>3, <2>4, <2>5, <2>6, <2>7, <2>8, <2>9, <2>10, <2>11 DEF StepOf
<1> QED BY <1>1, <1>2, <1>3, StepCases

-----------------------------------------------------------------------------
(* The generation of rules *)

LEMMA RulesKept ==
    ASSUME EngineInv, [Next]_vars
    PROVE  RulesInv'
<1> USE DEF PcIn, Key, Running, OnFiles
<1>0. TypeOK /\ KeysHeld /\ RulesInv /\ RulesKey \notin Keys /\ authored \in Nat
  BY EngineAssumption DEF EngineInv, TypeOK
<1>1. CASE Stutters
  BY <1>0, <1>1 DEF Stutters, vars, RulesInv, RulesRecorded
(* Steps that are not about the rules *)
<1>2. ASSUME UNCHANGED <<runs, authored, evaluations, pinned>>,
             \A c \in Callers : \/ task'[c].pc = task[c].pc /\ task'[c].key = task[c].key
                                \/ task'[c].pc \notin OnFiles \cup {"author", "store_rules", "input"}
                                \/ /\ task'[c].pc \in OnFiles \cup {"input"} /\ task'[c].key = task[c].key
                                   /\ \/ task[c].pc \in OnFiles \cup {"input"}
                                      \/ runs[RulesKey].state = "completed"
      PROVE  RulesInv'
  BY <1>0, <1>2 DEF RulesInv, RulesRecorded
<1>3. ASSUME NEW t \in reviewing, ReviewWork(t) PROVE RulesInv'
  <2>1. /\ UNCHANGED <<runs, authored, evaluations, pinned>>
        /\ \A c \in Callers : \/ task'[c].pc = task[c].pc /\ task'[c].key = task[c].key
                              \/ task'[c].pc = "raised"
    BY <1>0, <1>3, ReviewWorkFacts, RestingTasks
  <2> QED BY <1>2, <2>1
<1>4. ASSUME NEW c \in Callers, StepOf(c) PROVE RulesInv'
  (* The row of the rules stays, whatever happens to the run of a caller. *)
  <2>1. ASSUME runs'[RulesKey] = runs[RulesKey], UNCHANGED <<authored, evaluations, pinned>>, Others(c),
               \/ task'[c].pc \notin OnFiles \cup {"author", "store_rules", "input"}
               \/ /\ task'[c].pc \in OnFiles /\ task[c].pc \in OnFiles \cup {"input"}
                  /\ task'[c].key = task[c].key
        PROVE  RulesInv'
    BY <1>0, <2>1 DEF RulesInv, RulesRecorded, Others
  <2>2. CASE Moves(c)
    BY <1>0, <1>2, <2>2, MovesFacts, RestingTasks DEF Usable
  <2>3. CASE Intend(c)
    <3>1. Key(c) \in Keys
      BY <1>0, <2>3, KeyedSteps
    <3> QED BY <1>0, <2>1, <2>3, <3>1, IntendFacts
            DEF ClaimFacts, NewState, RunKeys, SameSubmissions
  <2>4. CASE ClaimRules(c)
    <3>1. CASE UNCHANGED runs /\ task'[c].pc = "rules"
      BY <1>0, <2>1, <2>4, <3>1, ClaimRulesFacts DEF SameSubmissions
    <3>2. CASE runs[RulesKey].state = "absent" /\ NewState(RulesKey, "running") /\ task'[c].pc = "author"
      <4>1. \A d \in Callers : /\ task[d].pc \notin {"author", "store_rules"}
                               /\ task[d].pc \in OnFiles \cup {"input"} => task[d].key \in pinned
        BY <1>0, <3>2 DEF RulesInv
      <4>2. \A d \in Callers : d # c => task'[d] = task[d]
        BY <1>0, <2>4, ClaimRulesFacts DEF Others
      <4>3. \A n \in DOMAIN evaluations :
               evaluations[n].key # evaluations[n].input[1] \/ evaluations[n].key \in pinned
        BY <1>0, <3>2 DEF RulesInv, RulesRecorded
      <4>4. UNCHANGED <<authored, evaluations, pinned>> /\ authored = 0
        BY <1>0, <2>4, <3>2, ClaimRulesFacts DEF SameSubmissions, RulesInv
      <4>5. RulesRecorded'
        BY <4>3, <4>4 DEF RulesRecorded
      <4>6. runs'[RulesKey].state = "running" /\ task'[c].pc = "author"
        BY <3>2 DEF NewState
      <4>7. \A d \in Callers : /\ task'[d].pc \in {"author", "store_rules"} => d = c
                               /\ task'[d].pc \in OnFiles \cup {"input"} => task'[d].key \in pinned
        BY <4>1, <4>2, <4>6
      <4> QED BY <4>4, <4>5, <4>6, <4>7 DEF RulesInv
    <3> QED BY <1>0, <2>4, <3>1, <3>2, ClaimRulesFacts
  <2>5. CASE AuthorRules(c)
    <3>1. /\ task[c].pc = "author" /\ task'[c].pc = "store_rules" /\ authored' = authored + 1
          /\ \A d \in Callers : d # c => task'[d] = task[d]
          /\ UNCHANGED <<runs, evaluations, pinned>>
      BY <1>0, <2>5, AuthorRulesFacts DEF Others, SameSubmissions
    <3>2. authored' = 1
      BY <1>0, <3>1 DEF RulesInv
    <3> QED BY <1>0, <3>1, <3>2 DEF RulesInv, RulesRecorded
  <2>6. CASE StoreRules(c)
    <3>1. /\ task[c].pc = "store_rules" /\ task'[c].pc = "input"
          /\ \A d \in Callers : d # c => task'[d] = task[d]
          /\ UNCHANGED <<authored, evaluations, pinned>> /\ runs'[RulesKey].state = "completed"
      BY <1>0, <2>6, StoreRulesFacts DEF Others, SameSubmissions, NewState
    <3> QED BY <1>0, <3>1 DEF RulesInv, RulesRecorded
  <2>7. CASE RulesFail(c)
    <3>1. /\ task[c].pc \in {"author", "store_rules"} /\ task'[c].pc = "raised"
          /\ \A d \in Callers : d # c => task'[d] = task[d]
          /\ UNCHANGED <<authored, evaluations, pinned>>
      BY <1>0, <2>7, RulesFailFacts, RestingTasks DEF Others, SameSubmissions
    <3>2. runs[RulesKey].state = "running" /\ runs'[RulesKey].state = "unknown"
      BY <1>0, <2>7, <3>1, RulesFailFacts DEF RulesInv, NewState
    <3> QED BY <1>0, <3>1, <3>2 DEF RulesInv, RulesRecorded
  <2>8. CASE SetInput(c) \/ Freeze(c)
    <3>1. Key(c) \in Keys
      BY <1>0, <2>8, KeyedSteps
    <3> QED BY <1>0, <2>1, <2>8, <3>1, SetInputFacts, FreezeFacts
            DEF NewPolicy, RunKeys, SameSubmissions, SameLists
  <2>9. CASE Finish(c) \/ GiveUp(c)
    <3>1. Key(c) \in Keys
      BY <1>0, <2>9, KeyedSteps
    <3> QED BY <1>0, <2>1, <2>9, <3>1, FinishFacts, GiveUpFacts, RestingTasks
            DEF NewState, RunKeys, SameSubmissions
  <2>10. CASE Die(c)
    BY <1>0, <2>1, <2>10, DieFacts DEF SameSubmissions
  <2>11. ASSUME NEW k \in Keys, Start(c, k) PROVE RulesInv'
    <3>1. /\ runs'[RulesKey] = runs[RulesKey] /\ UNCHANGED <<authored, evaluations>> /\ Others(c)
          /\ runs[k].state = "absent" /\ task'[c].key = k
          /\ \/ task'[c].pc = "rules" /\ UNCHANGED pinned
             \/ task'[c].pc = "input" /\ pinned' = pinned \cup {k}
      BY <1>0, <2>11, StartFacts DEF ClaimFacts, NewState, RunKeys, SameSubmissions
    <3>2. CASE UNCHANGED pinned /\ task'[c].pc = "rules"
      BY <2>1, <3>1, <3>2
    <3>3. CASE pinned' = pinned \cup {k} /\ task'[c].pc = "input"
      <4>1. \A d \in Callers : d # c => task'[d] = task[d]
        BY <3>1 DEF Others
      <4>2. RulesRecorded'
        BY <1>0, <3>1, <3>3 DEF RulesInv, RulesRecorded
      <4>3. \A d \in Callers : task'[d].pc \in OnFiles \cup {"input"} /\ task'[d].key \notin pinned'
                             => d # c /\ task[d].key \notin pinned
        BY <3>1, <3>3, <4>1
      <4>4. \A d \in Callers : task'[d].pc \in {"author", "store_rules"} => d # c
        BY <3>3
      <4> QED BY <1>0, <3>1, <4>1, <4>2, <4>3, <4>4 DEF RulesInv
    <3> QED BY <3>1, <3>2, <3>3
  <2>12. ASSUME NEW i \in Submissions, Register(c, i) PROVE RulesInv'
    BY <1>0, <2>1, <2>12, RegisterFacts DEF SameLists
  <2>13. ASSUME NEW i \in Submissions, Extract(c, i) PROVE RulesInv'
    BY <1>0, <1>2, <2>13 DEF Extract
  <2>14. ASSUME NEW i \in Submissions, Evaluate(c, i) \/ Amend(c, i) PROVE RulesInv'
    <3>1. PICK e : Published(c, i, e)
      BY <1>0, <2>14, KeyedSteps, EvaluateFacts, AmendFacts
    <3>2. UNCHANGED <<runs, authored, pinned>> /\ \A d \in Callers : task'[d].pc = task[d].pc /\ task'[d].key = task[d].key
      BY <2>14, <3>1 DEF Evaluate, Amend, Published, Others
    <3>3. e.key = e.input[1] /\ e.key \notin pinned => runs[RulesKey].state = "completed"
      <4>1. CASE Evaluate(c, i)
        BY <1>0, <3>1, <4>1 DEF Evaluate, Doing, RulesInv, Published
      <4>2. CASE Amend(c, i)
        BY <3>1, <4>2 DEF Amend, Doing, EngineInv, ListsInv, Published, Correcting
      <4> QED BY <2>14, <4>1, <4>2
    <3>4. RulesRecorded'
      BY <1>0, <3>1, <3>2, <3>3, PublishedFacts DEF RulesInv, RulesRecorded
    <3> QED BY <1>0, <3>2, <3>4 DEF RulesInv
  <2> QED BY <1>4, <2>2, <2>3, <2>4, <2>5, <2>6, <2>7, <2>8, <2>9, <2>10, <2>11, <2>12, <2>13, <2>14
          DEF StepOf
<1> QED BY <1>1, <1>3, <1>4, StepCases

(* A claim is never undone, a key becomes unknown only by its caller, and the *)
(* generation is claimed by one that asks for it.                             *)
LEMMA RowsKept ==
    ASSUME EngineInv, [Next]_vars
    PROVE  /\ \A k \in Keys : runs[k].state # "absent" => runs'[k].state # "absent"
           /\ \A k \in Keys : runs'[k].state = "unknown" =>
                 \/ runs[k].state = "unknown"
                 \/ \E c \in Callers : task[c].pc = "raised" /\ task[c].key = k
           /\ runs'[RulesKey].state # "absent" =>
                 \/ runs[RulesKey].state # "absent"
                 \/ \E c \in Callers : task[c].pc = "claim_rules"
<1> USE DEF Key, Running
<1>0. TypeOK /\ KeysHeld /\ RulesKey \notin Keys
  BY EngineAssumption DEF EngineInv
<1>1. CASE UNCHANGED runs
  BY <1>1
<1>2. ASSUME NEW c \in Callers, StepOf(c)
      PROVE  \/ UNCHANGED runs
             \/ \E k \in Keys :
                   /\ \A j \in RunKeys : j # k => runs'[j] = runs[j]
                   /\ \/ runs'[k].state = runs[k].state
                      \/ runs'[k].state \notin {"absent", "unknown"}
                      \/ task[c].pc = "raised" /\ task[c].key = k /\ runs'[k].state = "unknown"
             \/ /\ task[c].pc \in {"claim_rules", "author", "store_rules"}
                /\ \A k \in Keys : runs'[k] = runs[k]
                /\ runs[RulesKey].state # "absent" \/ task[c].pc = "claim_rules"
  <2>1. CASE Moves(c) \/ Die(c) \/ AuthorRules(c) \/ \E i \in Submissions :
                Register(c, i) \/ Extract(c, i) \/ Evaluate(c, i) \/ Amend(c, i)
    <3>1. CASE Moves(c) \/ Die(c) \/ AuthorRules(c)
      BY <1>0, <3>1, MovesFacts, DieFacts, AuthorRulesFacts
    <3>2. CASE \E i \in Submissions : Register(c, i) \/ Extract(c, i) \/ Evaluate(c, i) \/ Amend(c, i)
      BY <3>2 DEF Register, Extract, Evaluate, Amend
    <3> QED BY <2>1, <3>1, <3>2
  <2>2. CASE Intend(c)
    BY <1>0, <2>2, KeyedSteps, IntendFacts DEF ClaimFacts, NewState, RunKeys
  <2>3. ASSUME NEW k \in Keys, Start(c, k)
        PROVE  /\ \A j \in RunKeys : j # k => runs'[j] = runs[j]
               /\ runs'[k].state \notin {"absent", "unknown"}
    BY <1>0, <2>3, StartFacts DEF ClaimFacts, NewState, RunKeys
  <2>4. CASE ClaimRules(c) \/ StoreRules(c) \/ RulesFail(c)
    <3>1. \A k \in Keys : runs'[k] = runs[k]
      BY <1>0, <2>4, ClaimRulesFacts, StoreRulesFacts, RulesFailFacts DEF NewState, RunKeys
    <3>2. task[c].pc \in {"author", "store_rules"} => runs[RulesKey].state # "absent"
      BY DEF EngineInv, RulesInv, PcIn
    <3>3. task[c].pc \in {"claim_rules", "author", "store_rules"}
      BY <1>0, <2>4, ClaimRulesFacts, StoreRulesFacts, RulesFailFacts
    <3> QED BY <3>1, <3>2, <3>3
  <2>5. CASE SetInput(c) \/ Freeze(c)
    BY <1>0, <2>5, KeyedSteps, SetInputFacts, FreezeFacts DEF NewPolicy, RunKeys
  <2>6. CASE Finish(c)
    BY <1>0, <2>6, KeyedSteps, FinishFacts DEF NewState, RunKeys, Summary
  <2>7. CASE GiveUp(c)
    BY <1>0, <2>7, KeyedSteps, GiveUpFacts DEF NewState, RunKeys
  <2> QED BY <1>2, <2>1, <2>2, <2>3, <2>4, <2>5, <2>6, <2>7 DEF StepOf
<1>3. ASSUME NEW t \in reviewing, ReviewWork(t) PROVE UNCHANGED runs
  BY <1>0, <1>3, ReviewWorkFacts
<1>4. CASE Stutters
  BY <1>1, <1>4 DEF Stutters, vars
<1>5. \A k \in Keys : k \in RunKeys /\ k # RulesKey
  BY <1>0 DEF RunKeys
<1>6. RulesKey \in RunKeys
  BY DEF RunKeys
<1> QED BY <1>1, <1>2, <1>3, <1>4, <1>5, <1>6, StepCases

(* Faults are counted, never forgotten. *)
LEMMA FaultsCounted ==
    ASSUME TypeOK, [Next]_vars
    PROVE  faults \in Nat /\ faults' \in Nat /\ faults' >= faults
<1>1. faults \in Nat
  BY DEF TypeOK
<1>2. faults' = faults \/ faults' = faults + 1
  <2>1. CASE Stutters
    BY <2>1 DEF Stutters, vars
  <2>2. ASSUME NEW t \in reviewing, ReviewWork(t) PROVE faults' = faults \/ faults' = faults + 1
    BY <2>2 DEF ReviewWork, ClaimReview, CallReviewer, StoreReview, FinishReview, ReviewFails,
                ReviewBreaks, ReviewSurfaces
  <2>3. ASSUME NEW c \in Callers, StepOf(c) PROVE faults' = faults \/ faults' = faults + 1
    <3>1. CASE Moves(c)
      BY <3>1 DEF Moves, ReuseRules, MissRules, RefuseRules, TakeHistory, Return, SnapshotHistory, Raise,
                  NotEvaluated, SelectRows, SameReviews
    <3>2. CASE ~Moves(c)
      BY <2>3, <3>2 DEF StepOf, Intend, ClaimRules, AuthorRules, StoreRules, RulesFail, SetInput, Freeze,
                        Finish, GiveUp, Die, Start, Register, Extract, Evaluate, Amend, SameReviews
    <3> QED BY <3>1, <3>2
  <2> QED BY <2>1, <2>2, <2>3, StepCases
<1> QED BY <1>1, <1>2

LEMMA FilesKept ==
    ASSUME EngineInv, [Next]_vars
    PROVE  FilesInv'
<1> USE DEF PcIn, Key, Asking
<1>0. /\ TypeOK /\ KeysHeld /\ FilesInv
      /\ \A c \in Callers : task[c].pc \in Asking => task[c].key \notin pinned
      /\ \A c \in Callers : task[c].pc = "raised" /\ task[c].key \in pinned => faults > 0
      /\ \A t \in reviewing : t.at = "broken" => faults > 0
      /\ \A k \in pinned : runs[k].state # "absent"
  BY DEF EngineInv, FilesInv
<1>1. faults \in Nat /\ faults' \in Nat /\ faults' >= faults
  BY <1>0, FaultsCounted
(* A key is given a file as it is claimed. *)
<1>a. ASSUME NEW c \in Callers, StepOf(c), ~\E k \in Keys : Start(c, k) PROVE UNCHANGED pinned
  <2>1. CASE Moves(c)
    BY <1>0, <2>1, MovesFacts
  <2>2. CASE ~Moves(c)
    BY <1>a, <2>2 DEF StepOf, Intend, ClaimRules, AuthorRules, StoreRules, RulesFail, SetInput, Freeze,
                      Finish, GiveUp, Die, Register, Extract, Evaluate, Amend
  <2> QED BY <2>1, <2>2
<1>b. \A k \in pinned' : k \in pinned \/ (runs[k].state = "absent" /\ runs'[k].state = "running")
  <2>1. ASSUME NEW c \in Callers, NEW k \in Keys, Start(c, k)
        PROVE  /\ runs[k].state = "absent" /\ runs'[k].state = "running"
               /\ UNCHANGED pinned \/ pinned' = pinned \cup {k}
    BY <1>0, <2>1, StartFacts DEF ClaimFacts, NewState
  <2>2. ASSUME NEW t \in reviewing, ReviewWork(t) PROVE UNCHANGED pinned
    BY <1>0, <2>2, ReviewWorkFacts
  <2>3. CASE Stutters
    BY <2>3 DEF Stutters, vars
  <2> QED BY <1>a, <2>1, <2>2, <2>3, StepCases
<1>c. pinned \subseteq Keys /\ pinned' \subseteq Keys
  BY <1>0, TypesKept DEF TypeOK
<1>d. \A k \in pinned' : runs'[k].state # "absent"
  BY <1>0, <1>b, <1>c, RowsKept
<1>2. FileIsEnough'
  <2> SUFFICES ASSUME NEW k \in pinned', runs'[k].state = "unknown" PROVE faults' > 0
    BY DEF FileIsEnough
  <2>1. k \in Keys /\ k \in pinned
    BY <1>b, <1>c
  <2>2. runs[k].state = "unknown" \/ \E c \in Callers : task[c].pc = "raised" /\ task[c].key = k
    BY <2>1, RowsKept
  <2>3. faults > 0
    BY <1>0, <2>1, <2>2 DEF FilesInv, FileIsEnough
  <2> QED BY <1>1, <2>3
<1>3. GenerationWasNeeded'
  <2> SUFFICES ASSUME runs'[RulesKey].state # "absent"
               PROVE  \E k \in Keys \ pinned' : runs'[k].state # "absent"
    BY DEF GenerationWasNeeded
  <2>1. \E k \in Keys \ pinned : runs[k].state # "absent"
    <3>1. CASE runs[RulesKey].state # "absent"
      BY <1>0, <3>1 DEF FilesInv, GenerationWasNeeded
    <3>2. CASE \E c \in Callers : task[c].pc = "claim_rules"
      <4>1. PICK c \in Callers : task[c].pc = "claim_rules"
        BY <3>2
      <4>2. task[c].key \in Keys \ pinned /\ runs[task[c].key].state # "absent"
        BY <1>0, <4>1 DEF KeysHeld, Holding
      <4> QED BY <4>2
    <3> QED BY <3>1, <3>2, RowsKept
  <2>2. PICK k \in Keys \ pinned : runs[k].state # "absent"
    BY <2>1
  <2>3. k \notin pinned' /\ runs'[k].state # "absent"
    BY <1>b, <2>2, RowsKept
  <2> QED BY <2>2, <2>3
(* Who is asking, and who has failed *)
<1>4. ASSUME \A c \in Callers :
                \/ task'[c].pc = task[c].pc /\ task'[c].key = task[c].key
                \/ task'[c].pc \notin Asking \cup {"raised"}
                \/ task'[c].pc \in Asking /\ task'[c].key \notin pinned'
                \/ task'[c].pc = "raised" /\ (task'[c].key \in pinned' => faults' > 0),
             \A t \in reviewing' : t.at = "broken" => faults' > 0
      PROVE  FilesInv'
  <2>1. \A c \in Callers : task[c].pc \in Asking \cup {"raised"} =>
                              (task[c].key \in pinned' => task[c].key \in pinned)
    BY <1>0, <1>b DEF KeysHeld, Holding
  <2>2. \A c \in Callers : task'[c].pc \in Asking => task'[c].key \notin pinned'
    BY <1>0, <1>4, <2>1
  <2>3. \A c \in Callers : task'[c].pc = "raised" /\ task'[c].key \in pinned' => faults' > 0
    BY <1>0, <1>1, <1>4, <2>1
  <2> QED BY <1>2, <1>3, <1>4, <1>d, <2>2, <2>3 DEF FilesInv
<1>5. CASE Stutters
  <2>1. UNCHANGED <<task, reviewing, faults>>
    BY <1>5 DEF Stutters, vars
  <2> QED BY <1>0, <1>4, <2>1
<1>6. ASSUME NEW t \in reviewing, ReviewWork(t) PROVE FilesInv'
  <2>1. \A u \in reviewing' : u.at = "broken" => faults' > 0
    <3>1. CASE ClaimReview(t) \/ CallReviewer(t) \/ StoreReview(t)
      <4>0. PICK at \in {"call", "store", "finish"} : \E v : Step(t, at, v)
        BY <3>1 DEF ClaimReview, CallReviewer, StoreReview
      <4>1. PICK v : Step(t, at, v)
        BY <4>0
      <4>2. t \in ReviewTask
        BY <1>0 DEF TypeOK
      <4>3. [t EXCEPT !.at = at, !.verdict = v].at = at
        BY <4>2 DEF ReviewTask
      <4>4. \A u \in reviewing' : u \in reviewing \/ u.at # "broken"
        BY <4>1, <4>3 DEF Step
      <4> QED BY <1>0, <1>1, <4>4
    <3>2. CASE FinishReview(t) \/ ReviewSurfaces(t)
      BY <1>0, <1>1, <3>2 DEF FinishReview, ReviewSurfaces, Ended
    <3>3. CASE ReviewFails(t) \/ ReviewBreaks(t)
      BY <1>1, <3>3 DEF ReviewFails, ReviewBreaks
    <3> QED BY <1>6, <3>1, <3>2, <3>3 DEF ReviewWork
  <2>2. \A c \in Callers :
           \/ task'[c] = task[c]
           \/ task'[c].pc = "evaluate"
           \/ c = t.by /\ task'[c].pc = "raised" /\ ReviewSurfaces(t)
    <3>1. CASE ReviewSurfaces(t)
      BY <1>0, <1>6, <3>1, ReviewWorkFacts, RestingTasks
    <3>2. CASE ~ReviewSurfaces(t)
      <4>1. task' = task \/ \E errors : Ended(t, errors)
        BY <1>6, <3>2 DEF ReviewWork, ClaimReview, CallReviewer, StoreReview, FinishReview, ReviewFails,
                          ReviewBreaks
      <4>2. UNCHANGED task \/ task[t.by].pc = "evaluate"
        BY <4>1 DEF Ended, Doing
      <4>3. t \in ReviewTask /\ t.by \in Callers /\ task[t.by] \in Task
        BY <1>0 DEF TypeOK, ReviewTask
      <4>4. ASSUME NEW errors, Ended(t, errors), task[t.by].pc = "evaluate"
            PROVE  task'[t.by].pc = "evaluate"
        <5>1. [task[t.by] EXCEPT !.failed = @ \cup errors].pc = "evaluate"
          BY <4>3, <4>4 DEF Task
        <5>2. task'[t.by] = [task[t.by] EXCEPT !.failed = @ \cup errors]
          BY <1>0, <4>3, <4>4 DEF Ended, Doing, Become, TypeOK
        <5> QED BY <5>1, <5>2
      <4> QED BY <1>0, <1>6, <4>1, <4>2, <4>4, ReviewWorkFacts
    <3> QED BY <3>1, <3>2
  <2>3. ReviewSurfaces(t) => faults' > 0
    BY <1>0, <1>1 DEF ReviewSurfaces
  <2> QED BY <1>4, <2>1, <2>2, <2>3
<1>7. ASSUME NEW c \in Callers, StepOf(c) PROVE FilesInv'
  (* No review breaks by a step of its caller. *)
  <2>1. \A t \in reviewing' : t.at = "broken" => faults' > 0
    <3>1. ASSUME reviewing' \subseteq reviewing PROVE \A t \in reviewing' : t.at = "broken" => faults' > 0
      BY <1>0, <1>1, <3>1
    <3>2. CASE Moves(c)
      BY <1>0, <3>1, <3>2, MovesFacts
    <3>3. ASSUME NEW i \in Submissions, Evaluate(c, i)
          PROVE  \A t \in reviewing' : t.at = "broken" => faults' > 0
      <4>1. \A t \in reviewing' : t \in reviewing \/ t = Review(c, i, Len(evaluations) + 1)
        BY <3>3 DEF Evaluate
      <4>2. Review(c, i, Len(evaluations) + 1).at = "claim"
        BY DEF Review
      <4> QED BY <1>0, <1>1, <4>1, <4>2
    <3>4. CASE ~Moves(c) /\ ~\E i \in Submissions : Evaluate(c, i)
      BY <1>7, <3>1, <3>4 DEF StepOf, Intend, ClaimRules, AuthorRules, StoreRules, RulesFail, SetInput, Freeze,
                              Finish, GiveUp, Die, Start, Register, Extract, Amend, SameReviews
    <3> QED BY <3>2, <3>3, <3>4
  <2>2. \A d \in Callers : d # c => task'[d] = task[d]
    <3>1. CASE Moves(c) \/ Intend(c) \/ Die(c) \/ \E k \in Keys : Start(c, k)
      BY <1>0, <3>1, MovesFacts, KeyedSteps, IntendFacts, DieFacts, StartFacts DEF Others
    <3>2. CASE ClaimRules(c) \/ AuthorRules(c) \/ StoreRules(c) \/ RulesFail(c)
      BY <1>0, <3>2, ClaimRulesFacts, AuthorRulesFacts, StoreRulesFacts, RulesFailFacts DEF Others
    <3>3. CASE SetInput(c) \/ Freeze(c) \/ Finish(c) \/ GiveUp(c)
      BY <1>0, <3>3, KeyedSteps, SetInputFacts, FreezeFacts, FinishFacts, GiveUpFacts DEF Others
    <3>4. ASSUME NEW i \in Submissions, Register(c, i) \/ Extract(c, i) \/ Evaluate(c, i) \/ Amend(c, i)
          PROVE  \A d \in Callers : d # c => task'[d] = task[d]
      <4>1. CASE Register(c, i)
        BY <1>0, <4>1, RegisterFacts DEF Others
      <4>2. CASE Extract(c, i)
        BY <4>2 DEF Extract
      <4>3. CASE Evaluate(c, i) \/ Amend(c, i)
        BY <1>0, <4>3, KeyedSteps, EvaluateFacts, AmendFacts DEF Published, Others
      <4> QED BY <3>4, <4>1, <4>2, <4>3
    <3> QED BY <1>7, <3>1, <3>2, <3>3, <3>4 DEF StepOf
  <2>3. \/ task'[c].pc = task[c].pc /\ task'[c].key = task[c].key
        \/ task'[c].pc \notin Asking \cup {"raised"}
        \/ task'[c].pc \in Asking /\ task'[c].key \notin pinned'
        \/ task'[c].pc = "raised" /\ (task'[c].key \in pinned' => faults' > 0)
    <3>1. CASE Moves(c)
      <4>1. Raise(c) => faults' > 0
        BY <1>1 DEF Raise
      <4>2. RefuseRules(c) => task[c].key \notin pinned
        BY <1>0 DEF RefuseRules, Doing
      <4>3. UNCHANGED pinned
        BY <1>0, <3>1, MovesFacts
      <4> QED BY <1>0, <3>1, <4>1, <4>2, <4>3, RestingTasks, MovesFacts
    <3>2. CASE Intend(c) \/ ClaimRules(c) \/ AuthorRules(c) \/ StoreRules(c) \/ RulesFail(c)
      <4>1. CASE Intend(c)
        BY <1>0, <4>1, KeyedSteps, IntendFacts
      <4>2. CASE ClaimRules(c) \/ AuthorRules(c) \/ StoreRules(c) \/ RulesFail(c)
        BY <1>0, <4>2, ClaimRulesFacts, AuthorRulesFacts, StoreRulesFacts, RulesFailFacts, RestingTasks
           DEF SameLists
      <4> QED BY <3>2, <4>1, <4>2
    <3>3. CASE SetInput(c) \/ Freeze(c) \/ Finish(c) \/ GiveUp(c) \/ Die(c)
      BY <1>0, <3>3, KeyedSteps, SetInputFacts, FreezeFacts, FinishFacts, GiveUpFacts, DieFacts, RestingTasks
    <3>4. ASSUME NEW k \in Keys, Start(c, k)
          PROVE  \/ task'[c].pc \notin Asking \cup {"raised"}
                 \/ task'[c].pc \in Asking /\ task'[c].key \notin pinned'
      <4>1. /\ task'[c].key = k /\ runs[k].state = "absent"
            /\ task'[c].pc = "input" \/ (task'[c].pc = "rules" /\ UNCHANGED pinned)
        BY <1>0, <3>4, StartFacts DEF ClaimFacts
      <4>2. k \notin pinned
        BY <1>0, <4>1
      <4> QED BY <4>1, <4>2
    <3>5. ASSUME NEW i \in Submissions, Register(c, i) \/ Extract(c, i) \/ Evaluate(c, i) \/ Amend(c, i)
          PROVE  \/ task'[c].pc = task[c].pc /\ task'[c].key = task[c].key
                 \/ task'[c].pc \notin Asking \cup {"raised"}
      <4>1. CASE Register(c, i)
        BY <1>0, <4>1, RegisterFacts
      <4>2. CASE Extract(c, i)
        BY <4>2 DEF Extract
      <4>3. CASE Evaluate(c, i) \/ Amend(c, i)
        BY <1>0, <4>3, KeyedSteps, EvaluateFacts, AmendFacts DEF Published
      <4> QED BY <3>5, <4>1, <4>2, <4>3
    <3> QED BY <1>7, <3>1, <3>2, <3>3, <3>4, <3>5 DEF StepOf
  <2> QED BY <1>4, <2>1, <2>2, <2>3
<1> QED BY <1>5, <1>6, <1>7, StepCases

-----------------------------------------------------------------------------
(* Review policies *)

LEMMA PolicyKept ==
    ASSUME EngineInv, [Next]_vars
    PROVE  PolicyInv'
<1> USE DEF PcIn, Key, Running, AtWork, Revising, OnRules, Asking, OnFiles, Correcting
<1>0. /\ TypeOK /\ KeysHeld /\ AbsentIsUnused /\ PolicyInv /\ RulesKey \notin Keys
      /\ FALSE # None /\ TRUE # None
  BY EngineAssumption DEF EngineInv
<1>a. /\ \A c \in Callers : task'[c].pc # "idle" => task'[c].key \in Keys /\ task'[c].key \in RunKeys
      /\ \A c \in Callers : \A i \in task'[c].todo : i[1] \in Keys /\ i[1] \in RunKeys
      /\ \A c \in Callers : task[c].pc # "idle" => task[c].key \in Keys /\ task[c].key \in RunKeys
      /\ \A c \in Callers : \A i \in task[c].todo : i[1] \in Keys /\ i[1] \in RunKeys
  BY <1>0, KeysKept, TypesKept DEF KeysHeld, TypeOK, Task, Submissions, RunKeys
<1>b. \A n \in DOMAIN evaluations : evaluations[n].input[1] \in Keys /\ evaluations[n].input[1] \in RunKeys
  <2>1. \A n \in DOMAIN evaluations : evaluations[n] \in Evaluation
    BY <1>0 DEF TypeOK
  <2>2. \A e \in Evaluation : e.input \in Submissions
    BY DEF Evaluation
  <2>3. \A i \in Submissions : i[1] \in Keys /\ i[1] \in RunKeys
    BY DEF Submissions, RunKeys
  <2> QED BY <2>1, <2>2, <2>3
(* The policies stay, and one caller moves on. *)
<1>1. ASSUME \A k \in RunKeys : runs'[k].review = runs[k].review, UNCHANGED evaluations,
             NEW c \in Callers, \A d \in Callers : d # c => task'[d] = task[d],
             task'[c].pc \in OnRules \cup {"snapshot", "freeze"} => runs[task'[c].key].review = None,
             task'[c].pc \in OnFiles => runs[task'[c].key].review = (task'[c].key \in Reviewed),
             task'[c].pc \in Correcting \cup {"intend"} =>
                \A i \in task'[c].todo : runs[i[1]].review = FALSE
      PROVE  PolicyInv'
  <2>1. \A d \in Callers : task'[d].pc \in OnRules \cup {"snapshot", "freeze"} => runs'[task'[d].key].review = None
    BY <1>0, <1>1, <1>a DEF PolicyInv
  <2>2. \A d \in Callers : task'[d].pc \in OnFiles => runs'[task'[d].key].review = (task'[d].key \in Reviewed)
    BY <1>0, <1>1, <1>a DEF PolicyInv
  <2>3. \A d \in Callers : task'[d].pc \in Correcting \cup {"intend"} =>
           \A i \in task'[d].todo : runs'[i[1]].review = FALSE
    BY <1>0, <1>1, <1>a DEF PolicyInv
  <2>4. \A n \in DOMAIN evaluations' : evaluations'[n].key # evaluations'[n].input[1] =>
           runs'[evaluations'[n].input[1]].review = FALSE
    BY <1>0, <1>1, <1>b DEF PolicyInv
  <2> QED BY <2>1, <2>2, <2>3, <2>4 DEF PolicyInv
<1>2. CASE Stutters
  BY <1>0, <1>2 DEF Stutters, vars, PolicyInv
<1>3. ASSUME NEW t \in reviewing, ReviewWork(t) PROVE PolicyInv'
  <2>1. /\ UNCHANGED <<runs, evaluations>> /\ t.by \in Callers
        /\ \A d \in Callers : d # t.by => task'[d] = task[d]
        /\ \/ task'[t.by] = task[t.by]
           \/ task'[t.by].pc = "raised"
           \/ /\ task[t.by].pc = "evaluate" /\ task'[t.by].pc = "evaluate"
              /\ task'[t.by].key = task[t.by].key
    BY <1>0, <1>3, ReviewWorkFacts, RestingTasks
  <2> QED BY <1>0, <1>1, <2>1 DEF PolicyInv
<1>4. ASSUME NEW c \in Callers, StepOf(c) PROVE PolicyInv'
  (* A row that may be corrected *)
  <2>0. ASSUME NEW i \in Submissions, Correctable(i) PROVE runs[i[1]].review = FALSE
    <3>1. CASE LatestEvaluation(i) = 0
      BY <2>0, <3>1 DEF Correctable, RunOfRow
    <3>2. CASE LatestEvaluation(i) # 0
      <4> DEFINE S == {0} \cup EvaluationsOf(i)
      <4>1. S \in SUBSET (0..Len(evaluations)) /\ S # {} /\ Len(evaluations) \in Nat
        BY <1>0 DEF EvaluationsOf, TypeOK
      <4>2. Max(S) \in S
        BY <4>1, LatestExists
      <4>3. LatestEvaluation(i) \in EvaluationsOf(i)
        BY <3>2, <4>2 DEF LatestEvaluation
      <4> QED BY <1>0, <2>0, <3>2, <4>3 DEF Correctable, RunOfRow, EvaluationsOf, PolicyInv
    <3> QED BY <3>1, <3>2
  <2>1. CASE Moves(c)
    <3>1. \A d \in Callers : d # c => task'[d] = task[d]
      BY <1>0, <2>1, MovesFacts
    <3>2. UNCHANGED <<runs, evaluations>> /\ task' \in [Callers -> Task]
      BY <1>0, <2>1, MovesFacts
    <3>3. CASE /\ task'[c].pc = "intend"
               /\ \A i \in task'[c].todo : Correctable(i)
      <4>1. \A i \in task'[c].todo : i \in Submissions
        BY <3>2 DEF Task
      <4>2. \A i \in task'[c].todo : runs[i[1]].review = FALSE
        BY <2>0, <3>3, <4>1
      <4> QED BY <1>1, <3>1, <3>2, <3>3, <4>2
    <3>4. CASE task'[c].pc \in {"idle", "raised"}
      BY <1>1, <3>1, <3>2, <3>4
    <3>5. CASE /\ task[c].pc # "idle" /\ task'[c].key = task[c].key /\ task'[c].todo \subseteq task[c].todo
               /\ \/ task[c].pc \in OnRules /\ task'[c].pc \in OnRules
                  \/ task[c].pc \in OnFiles /\ task'[c].pc \in OnFiles
                  \/ task[c].pc = "snapshot" /\ task'[c].pc = "freeze"
      BY <1>0, <1>1, <3>1, <3>2, <3>5 DEF PolicyInv
    <3> QED BY <1>0, <2>1, <3>3, <3>4, <3>5, MovesFacts, RestingTasks
  (* The policies stay in the other steps that move a caller on. *)
  <2>2. CASE Intend(c)
    <3>1. task[c].pc = "intend" /\ Key(c) \in Keys /\ Others(c) /\ UNCHANGED evaluations
      BY <1>0, <2>2, KeyedSteps, IntendFacts DEF SameSubmissions
    <3>2. CASE ClaimFacts(Key(c)) /\ SameLists(c) /\ task'[c].pc = "snapshot"
      <4>1. runs[task[c].key].review = None
        BY <1>0, <3>1, <3>2 DEF ClaimFacts, AbsentIsUnused
      <4>2. \A k \in RunKeys : runs'[k].review = runs[k].review
        BY <3>2 DEF ClaimFacts, NewState
      <4> QED BY <1>0, <1>1, <3>1, <3>2, <4>1, <4>2 DEF SameLists, Others, PolicyInv
    <3>3. CASE task'[c].pc = "idle" /\ UNCHANGED runs
      BY <1>1, <3>1, <3>3 DEF Others
    <3> QED BY <1>0, <2>2, <3>1, <3>2, <3>3, IntendFacts
  <2>3. CASE ClaimRules(c) \/ AuthorRules(c) \/ StoreRules(c)
    <3>1. /\ task[c].pc \in OnRules /\ task'[c].pc \in OnRules /\ SameLists(c) /\ Others(c)
          /\ UNCHANGED evaluations /\ \A k \in RunKeys : runs'[k].review = runs[k].review
      BY <1>0, <2>3, ClaimRulesFacts, AuthorRulesFacts, StoreRulesFacts DEF SameSubmissions, NewState
    <3> QED BY <1>0, <1>1, <3>1 DEF SameLists, Others, PolicyInv
  <2>4. CASE RulesFail(c) \/ Finish(c) \/ GiveUp(c) \/ Die(c)
    <3>1. /\ task'[c].pc \in {"raised", "finished", "idle"} /\ Others(c)
          /\ UNCHANGED evaluations /\ \A k \in RunKeys : runs'[k].review = runs[k].review
      BY <1>0, <2>4, KeyedSteps, RulesFailFacts, FinishFacts, GiveUpFacts, DieFacts, RestingTasks
         DEF SameSubmissions, NewState
    <3> QED BY <1>1, <3>1 DEF Others
  <2>5. ASSUME NEW b \in BOOLEAN, NewPolicy(task[c].key, b), Others(c), SameLists(c), UNCHANGED evaluations,
               \/ task[c].pc = "input" /\ task'[c].pc = "register" /\ b = (task[c].key \in Reviewed)
               \/ task[c].pc = "freeze" /\ task'[c].pc = "amend"
        PROVE  PolicyInv'
    <3> DEFINE k == task[c].key
    <3>1. k \in Keys /\ k \in RunKeys /\ runs[k].review = None
      BY <1>0, <1>a, <2>5 DEF PolicyInv
    <3>2. runs'[k].review = b /\ \A j \in RunKeys : j # k => runs'[j].review = runs[j].review
      BY <2>5 DEF NewPolicy
    <3>3. \A d \in Callers : d # c /\ Holding(d) => task[d].key # k
      BY <1>0, <2>5 DEF KeysHeld, Holding
    <3>4. \A d \in Callers : d # c => task'[d] = task[d]
      BY <2>5 DEF Others
    <3>5. task'[c].key = k /\ task'[c].todo = task[c].todo
      BY <2>5 DEF SameLists
    <3> HIDE DEF k
    <3>6. \A j \in Keys : runs[j].review = FALSE => runs'[j].review = FALSE
      BY <1>0, <3>1, <3>2 DEF RunKeys
    <3>7. \A d \in Callers : task'[d].pc \in OnRules \cup {"snapshot", "freeze"} => runs'[task'[d].key].review = None
      BY <1>0, <1>a, <2>5, <3>2, <3>3, <3>4 DEF PolicyInv, Holding
    <3>8. \A d \in Callers : task'[d].pc \in OnFiles => runs'[task'[d].key].review = (task'[d].key \in Reviewed)
      <4>1. ASSUME NEW d \in Callers, d # c, task'[d].pc \in OnFiles
            PROVE  runs'[task'[d].key].review = (task'[d].key \in Reviewed)
        <5>1. task'[d] = task[d] /\ task[d].key \in RunKeys /\ task[d].key # k
          BY <1>a, <3>3, <3>4, <4>1 DEF Holding
        <5> QED BY <1>0, <3>2, <4>1, <5>1 DEF PolicyInv
      <4>2. task'[c].pc \in OnFiles => runs'[task'[c].key].review = (task'[c].key \in Reviewed)
        BY <2>5, <3>2, <3>5 DEF k
      <4> QED BY <4>1, <4>2
    <3>9. \A d \in Callers : task'[d].pc \in Correcting \cup {"intend"} =>
             \A i \in task'[d].todo : runs'[i[1]].review = FALSE
      BY <1>0, <1>a, <2>5, <3>4, <3>5, <3>6 DEF PolicyInv
    <3>10. \A n \in DOMAIN evaluations' : evaluations'[n].key # evaluations'[n].input[1] =>
              runs'[evaluations'[n].input[1]].review = FALSE
      BY <1>0, <1>b, <2>5, <3>6 DEF PolicyInv
    <3> QED BY <3>7, <3>8, <3>9, <3>10 DEF PolicyInv
  <2>6. CASE SetInput(c)
    <3>1. (Key(c) \in Reviewed) \in BOOLEAN /\ Key(c) \in Keys
      BY <1>0, <2>6, KeyedSteps
    <3> QED BY <1>0, <2>5, <2>6, <3>1, SetInputFacts DEF SameSubmissions
  <2>7. CASE Freeze(c)
    BY <1>0, <2>5, <2>7, KeyedSteps, FreezeFacts DEF SameSubmissions
  <2>8. ASSUME NEW k \in Keys, Start(c, k) PROVE PolicyInv'
    <3>1. /\ task'[c].pc \in {"rules", "input"} /\ task'[c].key = k /\ Others(c) /\ UNCHANGED evaluations
          /\ \A j \in RunKeys : runs'[j].review = runs[j].review
          /\ runs[k].state = "absent"
      BY <1>0, <2>8, StartFacts DEF ClaimFacts, NewState, SameSubmissions
    <3>2. runs[k].review = None
      BY <1>0, <3>1 DEF AbsentIsUnused
    <3> QED BY <1>1, <3>1, <3>2 DEF Others
  <2>9. ASSUME NEW i \in Submissions, Register(c, i) PROVE PolicyInv'
    BY <1>0, <1>1, <2>9, RegisterFacts DEF PolicyInv, Others, SameLists
  <2>10. ASSUME NEW i \in Submissions, Extract(c, i) PROVE PolicyInv'
    BY <1>0, <2>10 DEF Extract, PolicyInv
  <2>11. ASSUME NEW i \in Submissions, Evaluate(c, i) \/ Amend(c, i) PROVE PolicyInv'
    <3>1. PICK e : Published(c, i, e)
      BY <1>0, <2>11, KeyedSteps, EvaluateFacts, AmendFacts
    <3>2. UNCHANGED runs /\ task[c].pc \in {"evaluate", "amend"}
      BY <2>11 DEF Evaluate, Amend, Doing
    <3>3. e.key # e.input[1] => runs[e.input[1]].review = FALSE
      <4>1. CASE Evaluate(c, i)
        BY <3>1, <4>1 DEF Evaluate, Doing, EngineInv, ListsInv, Published
      <4>2. CASE Amend(c, i)
        BY <1>0, <3>1, <4>2 DEF Amend, Doing, PolicyInv, Published
      <4> QED BY <2>11, <4>1, <4>2
    <3>4. \A n \in DOMAIN evaluations' : evaluations'[n].key # evaluations'[n].input[1] =>
             runs'[evaluations'[n].input[1]].review = FALSE
      BY SMTT(30), <1>0, <3>1, <3>2, <3>3, PublishedFacts DEF PolicyInv
    <3>5. \A d \in Callers : /\ task'[d].pc = task[d].pc /\ task'[d].key = task[d].key
                             /\ task'[d].todo \subseteq task[d].todo
      BY <3>1 DEF Published, Others
    <3> QED BY <1>0, <3>2, <3>4, <3>5 DEF PolicyInv
  <2> QED BY <1>4, <2>1, <2>2, <2>3, <2>4, <2>6, <2>7, <2>8, <2>9, <2>10, <2>11 DEF StepOf
<1> QED BY <1>2, <1>3, <1>4, StepCases

-----------------------------------------------------------------------------
(* Lists of submissions *)

LEMMA ListsKept ==
    ASSUME EngineInv, [Next]_vars
    PROVE  ListsInv'
<1> USE DEF PcIn, Key, Running, AtWork, Revising, OnRules, Asking, OnFiles, Correcting
<1>0. TypeOK /\ KeysHeld /\ AbsentIsUnused /\ PolicyInv /\ ListsInv /\ ReviewInv /\ CallsInv
  BY DEF EngineInv
<1>1. FALSE # None
  BY EngineAssumption
(* A caller moves on with what is left of its list. *)
<1>2. ASSUME UNCHANGED <<evaluations, requests>>,
             \A d \in Callers :
                \/ task'[d].pc \notin Revising \cup Correcting
                \/ /\ task'[d].key = task[d].key /\ task'[d].todo \subseteq task[d].todo
                   /\ task'[d].pc \in Revising => task[d].pc \in Revising
                   /\ task'[d].pc \in Correcting =>
                         task[d].pc \in Correcting \/ \A i \in task[d].todo : i[1] # task[d].key
      PROVE  ListsInv'
  <2>1. \A d \in Callers : task'[d].pc \in Revising => \A i \in task'[d].todo :
           /\ i[1] = task'[d].key
           /\ requests'[i] = "absent"
           /\ \A n \in DOMAIN evaluations : evaluations[n].input = i => evaluations[n].key # i[1]
    BY <1>0, <1>2 DEF ListsInv
  <2>2. \A d \in Callers : task'[d].pc \in Correcting => \A i \in task'[d].todo : i[1] # task'[d].key
    BY <1>0, <1>2 DEF ListsInv
  <2> QED BY <1>2, <2>1, <2>2 DEF ListsInv
<1>3. CASE Stutters
  BY <1>0, <1>3 DEF Stutters, vars, ListsInv
<1>4. ASSUME NEW t \in reviewing, ReviewWork(t) PROVE ListsInv'
  <2>1. /\ UNCHANGED evaluations
        /\ \A d \in Callers : \/ task'[d].pc \notin Revising \cup Correcting
                              \/ /\ task'[d].pc = task[d].pc /\ task'[d].key = task[d].key
                                 /\ task'[d].todo = task[d].todo
    BY <1>0, <1>4, ReviewWorkFacts, RestingTasks
  <2>2. \A q \in Submissions : q # t.request => requests'[q] = requests[q]
    BY <1>0, <1>4, ReviewTableFacts
  <2>3. \A d \in Callers : task[d].pc \in Revising => t.request \notin task[d].todo
    BY <1>0 DEF ReviewInv, ListsInv
  <2>4. \A d \in Callers : task[d].todo \subseteq Submissions
    BY <1>0 DEF TypeOK, Task
  <2>5. \A d \in Callers : task'[d].pc \in Revising => \A i \in task'[d].todo : requests'[i] = requests[i]
    BY <2>1, <2>2, <2>3, <2>4
  <2> QED BY <1>0, <2>1, <2>5 DEF ListsInv
<1>5. ASSUME NEW c \in Callers, StepOf(c) PROVE ListsInv'
  <2>1. CASE Moves(c)
    BY <1>0, <1>2, <2>1, MovesFacts, RestingTasks
  <2>2. CASE Intend(c)
    <3>1. task[c].pc = "intend" /\ Key(c) \in Keys /\ Others(c) /\ UNCHANGED <<evaluations, requests>>
      BY <1>0, <2>2, KeyedSteps, IntendFacts DEF SameSubmissions, SameReviews
    <3>2. CASE ClaimFacts(Key(c)) /\ SameLists(c) /\ task'[c].pc = "snapshot"
      <4>1. runs[task[c].key].review = None
        BY <1>0, <3>1, <3>2 DEF ClaimFacts, AbsentIsUnused
      <4>2. \A i \in task[c].todo : i[1] # task[c].key
        BY <1>0, <1>1, <3>1, <4>1 DEF PolicyInv
      <4> QED BY <1>2, <3>1, <3>2, <4>2 DEF SameLists, Others
    <3>3. CASE task'[c].pc = "idle"
      BY <1>2, <3>1, <3>3 DEF Others
    <3> QED BY <1>0, <2>2, <3>1, <3>2, <3>3, IntendFacts
  <2>3. CASE ClaimRules(c) \/ AuthorRules(c) \/ StoreRules(c) \/ SetInput(c) \/ Freeze(c)
    <3>1. /\ \/ task[c].pc \in Revising /\ task'[c].pc \in Revising
             \/ task[c].pc \in Correcting /\ task'[c].pc \in Correcting
          /\ SameLists(c) /\ Others(c) /\ UNCHANGED <<evaluations, requests>>
      BY <1>0, <2>3, KeyedSteps, ClaimRulesFacts, AuthorRulesFacts, StoreRulesFacts, SetInputFacts,
         FreezeFacts DEF SameSubmissions, SameReviews
    <3> QED BY <1>2, <3>1 DEF SameLists, Others
  <2>4. CASE RulesFail(c) \/ Finish(c) \/ GiveUp(c) \/ Die(c)
    <3>1. /\ task'[c].pc \in {"raised", "finished", "idle"} /\ Others(c)
          /\ UNCHANGED <<evaluations, requests>>
      BY <1>0, <2>4, KeyedSteps, RulesFailFacts, FinishFacts, GiveUpFacts, DieFacts, RestingTasks
         DEF SameSubmissions, SameReviews
    <3> QED BY <1>2, <3>1 DEF Others
  <2>5. ASSUME NEW k \in Keys, Start(c, k) PROVE ListsInv'
    <3>1. /\ task'[c].pc \in {"rules", "input"} /\ task'[c].key = k /\ Others(c)
          /\ UNCHANGED <<evaluations, requests>> /\ runs[k].state = "absent"
          /\ task'[c].todo = {k} \X Batch[k]
      BY <1>0, <2>5, StartFacts DEF ClaimFacts, SameSubmissions, SameReviews
    <3>2. \A i \in task'[c].todo : i \in Submissions /\ i[1] = k
      BY <1>0, <3>1, TypesKept DEF TypeOK, Task
    <3>3. \A i \in task'[c].todo :
             /\ requests[i] = "absent"
             /\ \A n \in DOMAIN evaluations : evaluations[n].input = i => evaluations[n].key # i[1]
      BY <1>0, <3>1, <3>2 DEF AbsentIsUnused
    <3> QED BY <1>0, <3>1, <3>2, <3>3 DEF Others, ListsInv
  <2>6. ASSUME NEW i \in Submissions, Register(c, i) PROVE ListsInv'
    BY <1>0, <1>2, <2>6, RegisterFacts DEF Others, SameLists, SameReviews
  <2>7. ASSUME NEW i \in Submissions, Extract(c, i) PROVE ListsInv'
    BY <1>2, <2>7 DEF Extract, SameReviews
  <2>8. ASSUME NEW i \in Submissions, Evaluate(c, i) \/ Amend(c, i) PROVE ListsInv'
    <3>1. PICK e : Published(c, i, e)
      BY <1>0, <2>8, KeyedSteps, EvaluateFacts, AmendFacts
    <3>2. UNCHANGED requests /\ task[c].pc \in {"evaluate", "amend"}
      BY <2>8 DEF Evaluate, Amend, Doing, SameReviews
    <3>3. \A d \in Callers : /\ task'[d].pc = task[d].pc /\ task'[d].key = task[d].key
                             /\ task'[d].todo \subseteq task[d].todo
      BY <3>1 DEF Published, Others
    <3>4. ASSUME NEW d \in Callers, task'[d].pc \in Revising, NEW j \in task'[d].todo
          PROVE  \A n \in DOMAIN evaluations' : evaluations'[n].input = j => evaluations'[n].key # j[1]
      <4>1. j \in task[d].todo /\ j[1] = task[d].key /\ task[d].pc \in Revising
        BY <1>0, <3>3, <3>4 DEF ListsInv
      <4>2. e.input = j => e.key # j[1]
        <5>1. CASE d = c
          BY <3>1, <3>4, <5>1 DEF Published
        <5>2. CASE d # c
          BY <1>0, <3>1, <3>2, <4>1, <5>2 DEF KeysHeld, Holding, Published
        <5> QED BY <5>1, <5>2
      <4>3. \A n \in DOMAIN evaluations : evaluations[n].input = j => evaluations[n].key # j[1]
        BY <1>0, <4>1 DEF ListsInv
      <4> QED BY <1>0, <3>1, <4>2, <4>3, PublishedFacts
    <3>5. \A d \in Callers : task'[d].pc \in Revising => \A j \in task'[d].todo :
             j[1] = task'[d].key /\ requests'[j] = "absent"
      BY <1>0, <3>2, <3>3 DEF ListsInv
    <3>6. \A d \in Callers : task'[d].pc \in Correcting => \A j \in task'[d].todo : j[1] # task'[d].key
      BY <1>0, <3>3 DEF ListsInv
    <3> QED BY <3>4, <3>5, <3>6 DEF ListsInv
  <2> QED BY <1>5, <2>1, <2>2, <2>3, <2>4, <2>5, <2>6, <2>7, <2>8 DEF StepOf
<1> QED BY <1>3, <1>4, <1>5, StepCases

-----------------------------------------------------------------------------
(* Histories *)

LEMMA HistoryKept ==
    ASSUME EngineInv, [Next]_vars
    PROVE  HistoryInv'
<1> USE DEF PcIn, Key, Running
<1> DEFINE Judging == {"evaluate", "freeze", "amend"}
<1>0. TypeOK /\ KeysHeld /\ AbsentIsUnused /\ HistoryInv
  BY DEF EngineInv
<1>1. /\ Len(evaluations) \in Nat /\ DOMAIN evaluations = 1..Len(evaluations)
      /\ \A n \in DOMAIN evaluations : evaluations[n] \in Evaluation
      /\ \A n \in DOMAIN evaluations : evaluations[n].key \in Keys
      /\ \A k \in Keys : before[k] \in Nat
  <2>1. evaluations \in Seq(Evaluation) /\ before \in [Keys -> Nat]
    BY <1>0 DEF TypeOK
  <2>2. \A e \in Evaluation : e.key \in Keys
    BY DEF Evaluation
  <2> QED BY <2>1, <2>2
(* Callers who judge now have the history that they had, or all there is. *)
<1>2. ASSUME UNCHANGED <<evaluations, before>>,
             \A d \in Callers : task'[d].pc \in Judging =>
                \/ task[d].pc \in Judging /\ task'[d].key = task[d].key /\ task'[d].seen = task[d].seen
                \/ task'[d].seen = History /\ task'[d].key \in Keys
      PROVE  HistoryInv'
  <2>1. \A k \in Keys : \A m \in 1..before[k] : m \in DOMAIN evaluations
    BY <1>0, <1>1 DEF HistoryInv
  <2>2. \A m \in DOMAIN evaluations : evaluations[m].input \in History
    BY <1>1 DEF History, EvaluationsOf, Evaluation
  <2>3. \A d \in Callers : task'[d].pc \in Judging =>
           \A m \in 1..before[task'[d].key] : evaluations[m].input \in task'[d].seen
    BY <1>0, <1>2, <2>1, <2>2 DEF HistoryInv
  <2>4. EarlierSubmissionsSeen'
    BY <1>0, <1>2 DEF HistoryInv, EarlierSubmissionsSeen, Owed
  <2> QED BY <1>0, <1>2, <2>3, <2>4 DEF HistoryInv
<1>3. CASE Stutters
  BY <1>0, <1>3 DEF Stutters, vars, HistoryInv, EarlierSubmissionsSeen, Owed
<1>4. ASSUME NEW t \in reviewing, ReviewWork(t) PROVE HistoryInv'
  <2>1. /\ UNCHANGED <<evaluations, before, pinned>>
        /\ \A d \in Callers : \/ task'[d].pc = "raised"
                              \/ /\ task'[d].pc = task[d].pc /\ task'[d].key = task[d].key
                                 /\ task'[d].seen = task[d].seen
    BY <1>0, <1>4, ReviewWorkFacts, RestingTasks
  <2> QED BY <1>2, <2>1
<1>5. ASSUME NEW c \in Callers, StepOf(c) PROVE HistoryInv'
  <2>1. CASE Moves(c)
    <3>1. /\ UNCHANGED <<evaluations, before, pinned>>
          /\ \A d \in Callers : task'[d].pc \in Judging =>
                \/ task[d].pc \in Judging /\ task'[d].key = task[d].key /\ task'[d].seen = task[d].seen
                \/ task[d].pc # "idle" /\ task'[d].seen = History /\ task'[d].key = task[d].key
      BY <1>0, <2>1, MovesFacts, RestingTasks
    <3> QED BY <1>0, <1>2, <3>1 DEF KeysHeld
  <2>2. CASE ClaimRules(c) \/ AuthorRules(c) \/ StoreRules(c) \/ RulesFail(c) \/ SetInput(c)
             \/ Finish(c) \/ GiveUp(c) \/ Die(c)
    <3>1. task'[c].pc \notin Judging /\ Others(c) /\ UNCHANGED <<evaluations, before, pinned>>
      BY <1>0, <2>2, KeyedSteps, ClaimRulesFacts, AuthorRulesFacts, StoreRulesFacts, RulesFailFacts,
         SetInputFacts, FinishFacts, GiveUpFacts, DieFacts, RestingTasks DEF SameSubmissions
    <3> QED BY <1>2, <3>1 DEF Others
  <2>3. CASE Freeze(c)
    <3>1. /\ task[c].pc = "freeze" /\ task'[c].pc = "amend" /\ SameLists(c) /\ Others(c)
          /\ UNCHANGED <<evaluations, before, pinned>>
      BY <1>0, <2>3, KeyedSteps, FreezeFacts DEF SameSubmissions
    <3> QED BY <1>2, <3>1 DEF Others, SameLists
  (* A claim: no evaluation and no caller has the key yet. *)
  <2>4. ASSUME NEW k \in Keys, ClaimFacts(k), UNCHANGED evaluations, Others(c),
               task'[c].pc \notin Judging
        PROVE  HistoryInv'
    <3>1. /\ \A n \in DOMAIN evaluations : evaluations[n].key # k
          /\ \A d \in Callers : task[d].pc \in Judging => task[d].key # k /\ task[d].key \in Keys
      BY <1>0, <2>4 DEF ClaimFacts, AbsentIsUnused, KeysHeld, Holding
    <3>2. /\ \A j \in Keys : j # k => before'[j] = before[j]
          /\ before'[k] = Len(evaluations)
      BY <2>4 DEF ClaimFacts
    <3>3. \A j \in Keys : before'[j] <= Len(evaluations')
      BY <1>0, <1>1, <2>4, <3>2 DEF HistoryInv
    <3>4. \A n \in DOMAIN evaluations : Owed(evaluations[n])' = Owed(evaluations[n])
      BY <1>1, <2>4, <3>1, <3>2 DEF Owed
    <3>5. EarlierSubmissionsSeen'
      BY <1>0, <2>4, <3>4 DEF HistoryInv, EarlierSubmissionsSeen
    <3>6. \A d \in Callers : task'[d].pc \in Judging => d # c /\ task'[d] = task[d]
      BY <2>4 DEF Others
    <3>7. \A d \in Callers : task'[d].pc \in Judging =>
             \A m \in 1..before'[task'[d].key] : evaluations'[m].input \in task'[d].seen
      BY <1>0, <2>4, <3>1, <3>2, <3>6 DEF HistoryInv
    <3> QED BY <3>3, <3>5, <3>7 DEF HistoryInv
  <2>5. CASE Intend(c)
    <3>1. Key(c) \in Keys /\ Others(c) /\ UNCHANGED evaluations
      BY <1>0, <2>5, KeyedSteps, IntendFacts DEF SameSubmissions
    <3>2. CASE ClaimFacts(Key(c)) /\ task'[c].pc = "snapshot"
      BY <2>4, <3>1, <3>2
    <3>3. CASE task'[c].pc = "idle" /\ UNCHANGED before
      BY <1>2, <3>1, <3>3 DEF Others
    <3> QED BY <1>0, <2>5, <3>1, <3>2, <3>3, IntendFacts
  <2>6. ASSUME NEW k \in Keys, Start(c, k) PROVE HistoryInv'
    BY <1>0, <2>4, <2>6, StartFacts DEF SameSubmissions
  <2>7. ASSUME NEW i \in Submissions, Register(c, i) PROVE HistoryInv'
    BY <1>0, <1>2, <2>7, RegisterFacts DEF Others, SameLists
  <2>8. ASSUME NEW i \in Submissions, Extract(c, i) PROVE HistoryInv'
    BY <1>2, <2>8 DEF Extract
  <2>9. ASSUME NEW i \in Submissions, Evaluate(c, i) \/ Amend(c, i) PROVE HistoryInv'
    <3>1. PICK e : Published(c, i, e)
      BY <1>0, <2>9, KeyedSteps, EvaluateFacts, AmendFacts
    <3>2. UNCHANGED before /\ task[c].pc \in {"evaluate", "amend"} /\ task[c].key \in Keys
      BY <1>0, <2>9, KeyedSteps DEF Evaluate, Amend, Doing
    <3>3. \A d \in Callers : /\ task'[d].pc = task[d].pc /\ task'[d].key = task[d].key
                             /\ task'[d].seen = task[d].seen
      BY <3>1 DEF Published, Others
    <3>4. /\ \A n \in DOMAIN evaluations : evaluations'[n] = evaluations[n]
          /\ DOMAIN evaluations' = DOMAIN evaluations \cup {Len(evaluations) + 1}
          /\ Len(evaluations') = Len(evaluations) + 1
          /\ evaluations'[Len(evaluations) + 1] = e
      BY <1>0, <3>1, PublishedFacts
    <3>5. \A k \in Keys : \A m \in 1..before[k] : m \in DOMAIN evaluations /\ evaluations'[m] = evaluations[m]
      BY <1>0, <1>1, <3>4 DEF HistoryInv
    <3>6. \A d \in Callers : task'[d].pc \in Judging =>
             \A m \in 1..before'[task'[d].key] : evaluations'[m].input \in task'[d].seen
      BY <1>0, <3>2, <3>3, <3>5 DEF HistoryInv, KeysHeld
    <3>7. \A n \in DOMAIN evaluations' : Owed(evaluations[n])' = Owed(evaluations'[n])
      <4>1. \A n \in DOMAIN evaluations' : evaluations'[n].key \in Keys
        BY <1>1, <3>1, <3>2, <3>4 DEF Published
      <4> QED BY <3>2, <3>5, <4>1 DEF Owed
    <3>8. Owed(e) # {} => e.decision = "NO_PAGAR"
      <4>1. ASSUME NEW n \in Owed(e) PROVE Earlier(c, i) # {}
        <5>1. /\ n \in 1..before[Key(c)]
              /\ i[1] = Key(c) \/ evaluations[n].input[2] # i[2]
          BY <3>1, <4>1 DEF Owed, Published
        <5>2. evaluations[n].input \in task[c].seen
          BY <1>0, <3>2, <5>1 DEF HistoryInv
        <5> QED BY <5>1, <5>2 DEF Earlier
      <4> QED BY <3>1, <4>1 DEF Published, Decisions
    <3>9. EarlierSubmissionsSeen'
      <4>1. ASSUME NEW n \in DOMAIN evaluations', Owed(evaluations'[n]) # {}
            PROVE  evaluations'[n].decision = "NO_PAGAR"
        <5>1. CASE n \in DOMAIN evaluations
          BY <1>0, <3>4, <4>1, <5>1 DEF HistoryInv, EarlierSubmissionsSeen
        <5>2. CASE n = Len(evaluations) + 1
          BY <3>4, <3>8, <4>1, <5>2
        <5> QED BY <3>4, <5>1, <5>2
      <4> QED BY <3>7, <4>1 DEF EarlierSubmissionsSeen
    <3>10. \A k \in Keys : before'[k] <= Len(evaluations')
      BY <1>0, <1>1, <3>2, <3>4 DEF HistoryInv
    <3> QED BY <3>6, <3>9, <3>10 DEF HistoryInv
  <2> QED BY <1>5, <2>1, <2>2, <2>3, <2>5, <2>6, <2>7, <2>8, <2>9 DEF StepOf
<1> QED BY <1>3, <1>4, <1>5, StepCases

-----------------------------------------------------------------------------
(* Reviews in progress *)

LEMMA ReviewKept ==
    ASSUME EngineInv, [Next]_vars
    PROVE  ReviewInv'
<1> USE DEF PcIn, Key, Running
<1> DEFINE Owning == {"evaluate", "raised", "finished"}
<1>0. /\ TypeOK /\ KeysHeld /\ ListsInv /\ ReviewInv /\ CallsInv
      /\ \A t \in reviewing : t \in ReviewTask /\ t.by \in Callers
  BY DEF EngineInv, TypeOK, ReviewTask
(* Callers keep the reviews that they started. *)
<1>1. ASSUME UNCHANGED evaluations, reviewing' \subseteq reviewing,
             \A t \in reviewing' : task'[t.by].pc \in Owning /\ task'[t.by].key = task[t.by].key
      PROVE  ReviewInv'
  BY <1>0, <1>1 DEF ReviewInv
<1>2. CASE Stutters
  BY <1>0, <1>2 DEF Stutters, vars, ReviewInv
<1>3. ASSUME NEW t \in reviewing, ReviewWork(t) PROVE ReviewInv'
  <2>1. /\ UNCHANGED evaluations
        /\ \A d \in Callers : \/ task'[d] = task[d]
                              \/ /\ task'[d].pc \in Owning /\ task'[d].key = task[d].key
    BY <1>0, <1>3, ReviewWorkFacts, RestingTasks
  <2>2. \A d \in Callers : task[d].pc \in Owning =>
           task'[d].pc \in Owning /\ task'[d].key = task[d].key
    BY <2>1
  <2>3. CASE reviewing' = reviewing \ {t}
    BY <1>0, <1>1, <2>1, <2>2, <2>3 DEF ReviewInv
  <2>4. ASSUME NEW u, reviewing' = (reviewing \ {t}) \cup {u},
               u.by = t.by, u.request = t.request, u.evaluation = t.evaluation
        PROVE  ReviewInv'
    <3>1. \A v \in reviewing' :
             /\ task'[v.by].pc \in Owning /\ task'[v.by].key = v.request[1]
             /\ v.evaluation \in DOMAIN evaluations'
             /\ evaluations'[v.evaluation].input = v.request
             /\ evaluations'[v.evaluation].key = v.request[1]
      BY <1>0, <2>1, <2>2, <2>4 DEF ReviewInv
    <3>2. \A v, w \in reviewing' : v.request = w.request => v = w
      BY <1>0, <2>4 DEF ReviewInv
    <3> QED BY <3>1, <3>2 DEF ReviewInv
  <2> QED BY <1>0, <1>3, <2>3, <2>4, ReviewTableFacts
<1>4. ASSUME NEW c \in Callers, StepOf(c) PROVE ReviewInv'
  <2>0. ASSUME UNCHANGED evaluations, reviewing' \subseteq reviewing,
               \A d \in Callers : d # c => task'[d] = task[d],
               \/ ReviewsBy(c) = {}
               \/ task[c].pc \notin Owning
               \/ task'[c].pc \in Owning /\ task'[c].key = task[c].key
        PROVE  ReviewInv'
    <3>1. ASSUME NEW t \in reviewing'
          PROVE  task'[t.by].pc \in Owning /\ task'[t.by].key = task[t.by].key
      <4>1. t \in reviewing /\ t.by \in Callers /\ task[t.by].pc \in Owning
        BY <1>0, <2>0, <3>1 DEF ReviewInv
      <4>2. t.by = c => t \in ReviewsBy(c)
        BY <4>1 DEF ReviewsBy
      <4> QED BY <2>0, <4>1, <4>2
    <3> QED BY <1>1, <2>0, <3>1
  <2>1. CASE Moves(c)
    BY <1>0, <2>0, <2>1, MovesFacts, RestingTasks
       DEF AtWork, Revising, OnRules, Asking, OnFiles, Correcting
  <2>2. CASE Intend(c) \/ ClaimRules(c) \/ AuthorRules(c) \/ StoreRules(c) \/ RulesFail(c) \/ SetInput(c)
             \/ Freeze(c)
    <3>1. task[c].pc \notin Owning /\ Others(c) /\ UNCHANGED <<evaluations, reviewing>>
      BY <1>0, <2>2, KeyedSteps, IntendFacts, ClaimRulesFacts, AuthorRulesFacts, StoreRulesFacts,
         RulesFailFacts, SetInputFacts, FreezeFacts DEF SameSubmissions, SameReviews
    <3> QED BY <2>0, <3>1 DEF Others
  <2>3. CASE Finish(c) \/ GiveUp(c)
    <3>1. /\ task'[c].pc \in Owning /\ task'[c].key = task[c].key /\ Others(c)
          /\ UNCHANGED <<evaluations, reviewing>>
      BY <1>0, <2>3, KeyedSteps, FinishFacts, GiveUpFacts, RestingTasks DEF SameSubmissions, SameReviews
    <3> QED BY <2>0, <3>1 DEF Others
  <2>4. CASE Die(c)
    <3>1. /\ reviewing' = reviewing \ ReviewsBy(c) /\ Others(c) /\ UNCHANGED evaluations
      BY <1>0, <2>4, DieFacts DEF SameSubmissions
    <3> QED BY <1>0, <1>1, <3>1 DEF ReviewsBy, Others, ReviewInv
  <2>5. ASSUME NEW k \in Keys, Start(c, k) PROVE ReviewInv'
    <3>1. task[c].pc \notin Owning /\ Others(c) /\ UNCHANGED <<evaluations, reviewing>>
      BY <1>0, <2>5, StartFacts DEF SameSubmissions, SameReviews
    <3> QED BY <2>0, <3>1 DEF Others
  <2>6. ASSUME NEW i \in Submissions, Register(c, i) PROVE ReviewInv'
    <3>1. task[c].pc \notin Owning /\ Others(c) /\ UNCHANGED <<evaluations, reviewing>>
      BY <1>0, <2>6, RegisterFacts DEF SameReviews
    <3> QED BY <2>0, <3>1 DEF Others
  <2>7. ASSUME NEW i \in Submissions, Extract(c, i) PROVE ReviewInv'
    <3>1. UNCHANGED <<evaluations, reviewing, task>>
      BY <2>7 DEF Extract, SameReviews
    <3> QED BY <1>0, <3>1 DEF ReviewInv
  <2>8. ASSUME NEW i \in Submissions, NEW e, Published(c, i, e), reviewing' = reviewing
        PROVE  ReviewInv'
    <3>1. \A d \in Callers : task'[d].pc = task[d].pc /\ task'[d].key = task[d].key
      BY <2>8 DEF Published, Others
    <3> QED BY <1>0, <2>8, <3>1, PublishedFacts DEF ReviewInv
  <2>9. ASSUME NEW i \in Submissions, Amend(c, i) PROVE ReviewInv'
    <3>1. PICK e : Published(c, i, e)
      BY <1>0, <2>9, KeyedSteps, AmendFacts
    <3> QED BY <2>8, <2>9, <3>1 DEF Amend, SameReviews
  <2>10. ASSUME NEW i \in Submissions, Evaluate(c, i) PROVE ReviewInv'
    <3>1. task[c].pc = "evaluate" /\ Key(c) \in Keys
      BY <1>0, <2>10, KeyedSteps DEF Evaluate, Doing
    <3>2. PICK e : /\ Published(c, i, e)
                   /\ reviewing' = reviewing \cup
                         IF Key(c) \in Reviewed /\ e.decision = "PAGAR"
                         THEN {Review(c, i, Len(evaluations) + 1)} ELSE {}
      BY <1>0, <2>10, <3>1, EvaluateFacts
    <3> DEFINE u == Review(c, i, Len(evaluations) + 1)
    <3>3. u.by = c /\ u.request = i /\ u.evaluation = Len(evaluations) + 1
      BY DEF Review
    <3> HIDE DEF u
    <3>4. CASE reviewing' = reviewing
      BY <2>8, <3>2, <3>4
    <3>5. CASE reviewing' = reviewing \cup {u}
      <4>1. \A d \in Callers : task'[d].pc = task[d].pc /\ task'[d].key = task[d].key
        BY <3>2 DEF Published, Others
      <4>2. i \in task[c].todo /\ i[1] = task[c].key
        BY <1>0, <3>1, <3>2 DEF Published, ListsInv, Revising, OnFiles
      <4>3. \A t \in reviewing : t.request # i
        BY <1>0, <3>1, <4>2 DEF ReviewInv, ListsInv, Revising, OnFiles
      <4>4. /\ e.input = i /\ e.key = i[1]
            /\ DOMAIN evaluations' = DOMAIN evaluations \cup {Len(evaluations) + 1}
            /\ \A n \in DOMAIN evaluations : evaluations'[n] = evaluations[n]
            /\ evaluations'[Len(evaluations) + 1] = e
        BY <1>0, <3>2, <4>2, PublishedFacts DEF Published
      <4>5. \A v \in reviewing' :
               /\ task'[v.by].pc \in Owning /\ task'[v.by].key = v.request[1]
               /\ v.evaluation \in DOMAIN evaluations'
               /\ evaluations'[v.evaluation].input = v.request
               /\ evaluations'[v.evaluation].key = v.request[1]
        BY <1>0, <3>1, <3>3, <3>5, <4>1, <4>2, <4>4 DEF ReviewInv
      <4>6. \A v, w \in reviewing' : v.request = w.request => v = w
        BY <1>0, <3>3, <3>5, <4>3 DEF ReviewInv
      <4> QED BY <4>5, <4>6 DEF ReviewInv
    <3> QED BY <3>2, <3>4, <3>5 DEF u
  <2> QED BY <1>4, <2>1, <2>2, <2>3, <2>4, <2>5, <2>6, <2>7, <2>9, <2>10 DEF StepOf
<1> QED BY <1>2, <1>3, <1>4, StepCases

-----------------------------------------------------------------------------
(* Paid reviews *)

(* What the steps of a review do to its own request *)
ReviewStep(t) ==
    \/ /\ t.at = "claim" /\ requests[t.request] = "absent"
       /\ requests' = [requests EXCEPT ![t.request] = "running"]
       /\ Step(t, "call", None) /\ UNCHANGED <<reviews, calls>>
    \/ /\ t.at = "call" /\ \E v \in Verdicts : Step(t, "store", v)
       /\ calls' = [calls EXCEPT ![t.request] = @ + 1] /\ UNCHANGED <<reviews, requests>>
    \/ /\ t.at = "store" /\ Step(t, "finish", t.verdict)
       /\ reviews' = Append(reviews, [evaluation |-> t.evaluation, verdict |-> t.verdict])
       /\ UNCHANGED <<requests, calls>>
    \/ /\ t.at = "finish" /\ reviewing' = reviewing \ {t}
       /\ requests' = [requests EXCEPT ![t.request] = "finished"] /\ UNCHANGED <<reviews, calls>>
    \/ /\ reviewing' = reviewing \ {t} \/ Step(t, "broken", None)
       /\ UnknownReview(t) \/ UNCHANGED requests
       /\ UNCHANGED <<reviews, calls>>

LEMMA ReviewSteps ==
    ASSUME NEW t \in reviewing, ReviewWork(t)
    PROVE  ReviewStep(t)
BY DEF ReviewWork, ReviewStep, ClaimReview, CallReviewer, StoreReview, FinishReview, ReviewFails,
       ReviewBreaks, ReviewSurfaces, Ended, Claimable, Verdicts

LEMMA CallsKept ==
    ASSUME EngineInv, [Next]_vars
    PROVE  CallsInv'
<1> USE DEF PcIn, Key, Running
<1>0. /\ TypeOK /\ KeysHeld /\ ListsInv /\ ReviewInv /\ CallsInv
      /\ \A t \in reviewing : t \in ReviewTask /\ t.by \in Callers /\ t.request \in Submissions
      /\ requests \in [Submissions -> {"absent", "running", "finished", "unknown"}]
      /\ calls \in [Submissions -> Nat]
      /\ reviews \in Seq([evaluation : Nat, verdict : Verdicts])
  BY DEF EngineInv, TypeOK, ReviewTask
<1>1. ASSUME reviewing' \subseteq reviewing, UNCHANGED <<requests, calls, reviews>>
      PROVE  CallsInv'
  BY <1>0, <1>1 DEF CallsInv, ReviewsOf
<1>2. CASE Stutters
  BY <1>1, <1>2 DEF Stutters, vars
<1>3. ASSUME NEW t \in reviewing, ReviewWork(t) PROVE CallsInv'
  <2> DEFINE q == t.request
  <2>0. /\ ReviewStep(t) /\ q \in Submissions /\ t \in ReviewTask /\ t.evaluation \in Nat
        /\ \A v \in reviewing \ {t} : v.request # q /\ v.request \in Submissions
        /\ None \in Verdicts \cup {None}
    BY <1>0, <1>3, ReviewSteps DEF ReviewInv, ReviewTask
  (* The other reviews in progress have other requests. *)
  <2>1. ASSUME \A p \in Submissions : p # q => requests'[p] = requests[p] /\ calls'[p] = calls[p],
               DOMAIN reviews \subseteq DOMAIN reviews',
               \A r \in DOMAIN reviews : reviews'[r] = reviews[r],
               \/ reviewing' = reviewing \ {t}
               \/ \E u \in ReviewTask :
                     /\ reviewing' = (reviewing \ {t}) \cup {u} /\ u.request = q
                     /\ u.evaluation = t.evaluation
                     /\ u.at # "claim"
                     /\ u.at \in {"call", "store", "finish"} => requests'[q] = "running"
                     /\ requests'[q] # "finished"
                     /\ u.at = "call" => calls'[q] = 0
                     /\ u.at \in {"store", "finish"} => u.verdict \in Verdicts
                     /\ u.at = "finish" => \E r \in DOMAIN reviews' :
                           reviews'[r].evaluation = t.evaluation /\ reviews'[r].verdict = u.verdict,
               requests'[q] = "absent" => calls'[q] = 0,
               calls'[q] <= 1
        PROVE  CallsInv'
    <3>1. \A v \in reviewing \ {t} :
             /\ v.at = "claim" => requests'[v.request] = "absent"
             /\ v.at \in {"call", "store", "finish"} => requests'[v.request] = "running"
             /\ requests'[v.request] # "finished"
             /\ v.at = "call" => calls'[v.request] = 0
             /\ v.at \in {"store", "finish"} => v.verdict \in Verdicts
      BY <1>0, <2>0, <2>1 DEF CallsInv
    <3>2. \A v \in reviewing \ {t} : v.at = "finish" => \E r \in DOMAIN reviews' :
             reviews'[r].evaluation = v.evaluation /\ reviews'[r].verdict = v.verdict
      BY <1>0, <2>1 DEF CallsInv, ReviewsOf
    <3>3. \A v \in reviewing' :
             /\ v.at = "claim" => requests'[v.request] = "absent"
             /\ v.at \in {"call", "store", "finish"} => requests'[v.request] = "running"
             /\ requests'[v.request] # "finished"
             /\ v.at = "call" => calls'[v.request] = 0
             /\ v.at \in {"store", "finish"} => v.verdict \in Verdicts
             /\ v.at = "finish" => \E r \in DOMAIN reviews' :
                   reviews'[r].evaluation = v.evaluation /\ reviews'[r].verdict = v.verdict
      BY <2>1, <3>1, <3>2
    <3>4. \A p \in Submissions : (requests'[p] = "absent" => calls'[p] = 0) /\ calls'[p] <= 1
      BY <1>0, <2>1 DEF CallsInv
    <3> QED BY <3>3, <3>4 DEF CallsInv, ReviewsOf
  <2> HIDE DEF q
  <2>2. CASE /\ t.at = "claim" /\ requests[t.request] = "absent"
             /\ requests' = [requests EXCEPT ![t.request] = "running"]
             /\ Step(t, "call", None) /\ UNCHANGED <<reviews, calls>>
    <3>1. PICK u \in ReviewTask :
                 /\ reviewing' = (reviewing \ {t}) \cup {u}
                 /\ u.by = t.by /\ u.request = t.request /\ u.evaluation = t.evaluation
                 /\ u.at = "call" /\ u.verdict = None
      BY <1>0, <2>0, <2>2, StepTypes
    <3>2. requests'[q] = "running" /\ calls'[q] = 0 /\ u.request = q
      BY <1>0, <2>0, <2>2, <3>1 DEF CallsInv, q
    <3> QED BY <1>0, <2>0, <2>1, <2>2, <3>1, <3>2 DEF q
  <2>3. CASE /\ t.at = "call" /\ \E v \in Verdicts : Step(t, "store", v)
             /\ calls' = [calls EXCEPT ![t.request] = @ + 1] /\ UNCHANGED <<reviews, requests>>
    <3>0. PICK v \in Verdicts : Step(t, "store", v)
      BY <2>3
    <3>1. PICK u \in ReviewTask :
                 /\ reviewing' = (reviewing \ {t}) \cup {u}
                 /\ u.by = t.by /\ u.request = t.request /\ u.evaluation = t.evaluation
                 /\ u.at = "store" /\ u.verdict = v
      BY <1>0, <2>0, <3>0, StepTypes
    <3>2. requests'[q] = "running" /\ calls'[q] = 1 /\ u.request = q
      BY <1>0, <2>0, <2>3, <3>1 DEF CallsInv, q
    <3> QED BY <1>0, <2>0, <2>1, <2>3, <3>1, <3>2 DEF q
  <2>4. CASE /\ t.at = "store" /\ Step(t, "finish", t.verdict)
             /\ reviews' = Append(reviews, [evaluation |-> t.evaluation, verdict |-> t.verdict])
             /\ UNCHANGED <<requests, calls>>
    <3>0. t.verdict \in Verdicts
      BY <1>0, <2>4 DEF CallsInv
    <3>1. PICK u \in ReviewTask :
                 /\ reviewing' = (reviewing \ {t}) \cup {u}
                 /\ u.by = t.by /\ u.request = t.request /\ u.evaluation = t.evaluation
                 /\ u.at = "finish" /\ u.verdict = t.verdict
      BY SMTT(30), <1>0, <2>0, <2>4, <3>0, StepTypes
    <3>2. requests'[q] = "running" /\ u.request = q /\ calls'[q] <= 1
      BY <1>0, <2>0, <2>4, <3>1 DEF CallsInv, q
    <3>3. /\ DOMAIN reviews \subseteq DOMAIN reviews'
          /\ \A r \in DOMAIN reviews : reviews'[r] = reviews[r]
          /\ \E r \in DOMAIN reviews' :
                reviews'[r].evaluation = t.evaluation /\ reviews'[r].verdict = u.verdict
      <4>1. /\ reviews' = Append(reviews, [evaluation |-> t.evaluation, verdict |-> t.verdict])
            /\ reviews \in Seq([evaluation : Nat, verdict : Verdicts])
            /\ [evaluation |-> t.evaluation, verdict |-> t.verdict] \in [evaluation : Nat, verdict : Verdicts]
        BY <1>0, <2>0, <2>4, <3>0
      <4>2. /\ Len(reviews) + 1 \in DOMAIN reviews'
            /\ reviews'[Len(reviews) + 1] = [evaluation |-> t.evaluation, verdict |-> t.verdict]
            /\ DOMAIN reviews \subseteq DOMAIN reviews'
            /\ \A r \in DOMAIN reviews : reviews'[r] = reviews[r]
        BY <4>1
      <4>3. /\ reviews'[Len(reviews) + 1].evaluation = t.evaluation
            /\ reviews'[Len(reviews) + 1].verdict = u.verdict
        BY <3>1, <4>2
      <4> QED BY <4>2, <4>3
    <3> QED BY <1>0, <2>0, <2>1, <2>4, <3>0, <3>1, <3>2, <3>3 DEF q
  <2>5. CASE /\ t.at = "finish" /\ reviewing' = reviewing \ {t}
             /\ requests' = [requests EXCEPT ![t.request] = "finished"] /\ UNCHANGED <<reviews, calls>>
    <3>1. requests'[q] = "finished" /\ calls'[q] <= 1
      BY <1>0, <2>0, <2>5 DEF CallsInv, q
    <3> QED BY <1>0, <2>0, <2>1, <2>5, <3>1 DEF q
  <2>6. CASE /\ reviewing' = reviewing \ {t} \/ Step(t, "broken", None)
             /\ UnknownReview(t) \/ UNCHANGED requests
             /\ UNCHANGED <<reviews, calls>>
    <3>1. /\ \A p \in Submissions : p # q => requests'[p] = requests[p] /\ calls'[p] = calls[p]
          /\ requests'[q] = requests[q] \/ requests'[q] = "unknown"
          /\ calls'[q] = calls[q]
      BY <1>0, <2>0, <2>6 DEF UnknownReview, q
    <3>2. /\ requests'[q] = "absent" => calls'[q] = 0
          /\ calls'[q] <= 1 /\ requests'[q] # "finished"
      BY <1>0, <2>0, <3>1 DEF CallsInv, q
    <3>3. CASE reviewing' = reviewing \ {t}
      BY <2>1, <2>6, <3>1, <3>2, <3>3
    <3>4. CASE Step(t, "broken", None)
      <4>1. PICK u \in ReviewTask :
                   /\ reviewing' = (reviewing \ {t}) \cup {u}
                   /\ u.by = t.by /\ u.request = t.request /\ u.evaluation = t.evaluation
                   /\ u.at = "broken" /\ u.verdict = None
        BY <1>0, <2>0, <3>4, StepTypes
      <4>2. u.request = q
        BY <4>1 DEF q
      <4> QED BY <2>1, <2>6, <3>1, <3>2, <4>1, <4>2
    <3> QED BY <2>6, <3>3, <3>4
  <2> QED BY <2>0, <2>2, <2>3, <2>4, <2>5, <2>6 DEF ReviewStep
<1>4. ASSUME NEW c \in Callers, StepOf(c) PROVE CallsInv'
  <2>1. CASE Moves(c) \/ Die(c)
    BY <1>0, <1>1, <2>1, MovesFacts, DieFacts
  <2>2. CASE Intend(c) \/ ClaimRules(c) \/ AuthorRules(c) \/ StoreRules(c) \/ RulesFail(c) \/ SetInput(c)
             \/ Freeze(c) \/ Finish(c) \/ GiveUp(c)
    BY <1>0, <1>1, <2>2, KeyedSteps, IntendFacts, ClaimRulesFacts, AuthorRulesFacts, StoreRulesFacts,
       RulesFailFacts, SetInputFacts, FreezeFacts, FinishFacts, GiveUpFacts DEF SameReviews
  <2>3. ASSUME NEW k \in Keys, Start(c, k) PROVE CallsInv'
    BY <1>1, <2>3 DEF Start, SameReviews
  <2>4. ASSUME NEW i \in Submissions, Register(c, i) \/ Extract(c, i) \/ Amend(c, i) PROVE CallsInv'
    BY <1>1, <2>4 DEF Register, Extract, Amend, SameReviews
  <2>5. ASSUME NEW i \in Submissions, Evaluate(c, i) PROVE CallsInv'
    <3>1. task[c].pc = "evaluate" /\ Key(c) \in Keys /\ i \in task[c].todo
      BY <1>0, <2>5, KeyedSteps DEF Evaluate, Doing, Turn
    <3>2. requests[i] = "absent"
      BY <1>0, <3>1 DEF ListsInv, Revising, OnFiles
    <3>3. UNCHANGED <<requests, calls, reviews>>
      BY <2>5 DEF Evaluate
    <3> DEFINE u == Review(c, i, Len(evaluations) + 1)
    <3>4. u.at = "claim" /\ u.request = i
      BY DEF Review
    <3>5. reviewing' \subseteq reviewing \cup {u}
      BY <1>0, <2>5, <3>1, EvaluateFacts
    <3> HIDE DEF u
    <3> QED BY <1>0, <3>2, <3>3, <3>4, <3>5 DEF CallsInv, ReviewsOf
  <2> QED BY <1>4, <2>1, <2>2, <2>3, <2>4, <2>5 DEF StepOf
<1> QED BY <1>2, <1>3, <1>4, StepCases

-----------------------------------------------------------------------------
(* What a run recorded as completed rests on *)

LEMMA AccountKept ==
    ASSUME EngineInv, [Next]_vars
    PROVE  AccountInv'
<1> USE DEF PcIn, Key, Running
<1>0. /\ TypeOK /\ KeysHeld /\ AbsentIsUnused /\ PolicyInv /\ ListsInv /\ ReviewInv /\ CallsInv /\ AccountInv
      /\ RulesKey \notin Keys
  BY EngineAssumption DEF EngineInv
<1>a. \A d \in Callers : task[d].pc # "idle" => task[d].key \in Keys /\ task[d].key \in RunKeys
  BY <1>0 DEF KeysHeld, RunKeys
(* The tables of submissions and reviews stay, and one caller moves on. *)
<1>1. ASSUME UNCHANGED <<inputs, evaluations, reviews, requests>>,
             NEW c \in Callers, \A d \in Callers : d # c => task'[d] = task[d],
             \A t \in reviewing : t.by # c => t \in reviewing',
             \A d \in Callers : d # c /\ task[d].pc = "evaluate" =>
                runs'[task[d].key].review = runs[task[d].key].review,
             \A k \in Keys : runs'[k].state = "completed" =>
                \/ runs[k].state = "completed" /\ runs'[k].review = runs[k].review
                \/ \A i \in OfRun(k) : RunComplete(k, i) /\ runs'[k].review = runs[k].review,
             CallerAccount(c)'
      PROVE  AccountInv'
  <2>0. \A k : OfRun(k)' = OfRun(k)
    BY <1>1 DEF OfRun
  <2>1. \A i, n : ReviewHad(i, n)' = ReviewHad(i, n)
    BY <1>1 DEF ReviewHad, ReviewsOf
  <2>2. \A i : EvaluationsOf(i)' = EvaluationsOf(i)
    BY <1>1 DEF EvaluationsOf
  <2>3. ASSUME NEW k \in Keys, runs'[k].state = "completed", NEW i \in OfRun(k)
        PROVE  RunComplete(k, i)'
    <3>1. RunComplete(k, i) /\ runs'[k].review = runs[k].review
      BY <1>0, <1>1, <2>3 DEF AccountInv
    <3> QED BY <1>1, <2>1, <2>2, <3>1 DEF RunComplete, Reviewable
  <2>4. ASSUME NEW d \in Callers, d # c PROVE CallerAccount(d)'
    <3>1. CallerAccount(d) /\ task'[d] = task[d]
      BY <1>0, <1>1, <2>4 DEF AccountInv
    <3>2. \A i, n : ReviewPending(d, i, n) => ReviewPending(d, i, n)'
      BY <1>1, <2>4 DEF ReviewPending, ReviewsBy
    <3>3. ASSUME task[d].pc = "evaluate", NEW i \in OfRun(task[d].key)
          PROVE  Accounted(d, i)'
      <4>1. Accounted(d, i)
        BY <3>1, <3>3 DEF CallerAccount
      <4>2. runs'[task[d].key].review = runs[task[d].key].review
        BY <1>1, <2>4, <3>3
      <4> QED BY <1>1, <2>1, <2>2, <3>1, <3>2, <4>1, <4>2 DEF Accounted, Reviewable
    <3> QED BY <2>0, <3>1, <3>3 DEF CallerAccount
  <2> QED BY <1>1, <2>0, <2>3, <2>4 DEF AccountInv
<1>2. CASE Stutters
  <2>1. /\ \A k : OfRun(k)' = OfRun(k)
        /\ \A c \in Callers : CallerAccount(c)' = CallerAccount(c)
        /\ \A k, i : RunComplete(k, i)' = RunComplete(k, i)
    BY <1>2 DEF Stutters, vars, OfRun, CallerAccount, Accounted, EvaluationsOf, RunComplete, Reviewable,
                ReviewHad, ReviewsOf, ReviewPending, ReviewsBy
  <2> QED BY <1>0, <1>2, <2>1 DEF Stutters, vars, AccountInv
<1>3. ASSUME NEW t \in reviewing, ReviewWork(t) PROVE AccountInv'
  <2>0. /\ UNCHANGED <<runs, inputs, evaluations>>
        /\ t.by \in Callers /\ t.request \in Submissions
        /\ ReviewStep(t)
    BY <1>0, <1>3, ReviewWorkFacts, ReviewSteps
  <2>1. /\ \A q \in Submissions : q # t.request => requests'[q] = requests[q]
        /\ DOMAIN reviews \subseteq DOMAIN reviews'
        /\ \A r \in DOMAIN reviews : reviews'[r] = reviews[r]
    BY <1>0, <1>3, ReviewTableFacts
  <2>2. requests[t.request] # "finished"
    BY <1>0 DEF CallsInv
  <2>3. \A i \in Submissions : \A n : ReviewHad(i, n) => ReviewHad(i, n)'
    BY <2>0, <2>1, <2>2 DEF ReviewHad, ReviewsOf
  <2>4. \A k : OfRun(k)' = OfRun(k) /\ OfRun(k) \subseteq Submissions
    <3>1. inputs \in Seq(Submissions)
      BY <1>0 DEF TypeOK
    <3> QED BY <2>0, <3>1 DEF OfRun
  <2>5. \A i : EvaluationsOf(i)' = EvaluationsOf(i)
    BY <2>0 DEF EvaluationsOf
  <2>6. ASSUME NEW k \in Keys, runs'[k].state = "completed", NEW i \in OfRun(k)
        PROVE  RunComplete(k, i)'
    <3>1. RunComplete(k, i) /\ i \in Submissions
      BY <1>0, <2>0, <2>4, <2>6 DEF AccountInv
    <3> QED BY <2>0, <2>3, <2>5, <3>1 DEF RunComplete, Reviewable
  (* A review in progress stays in progress, was had, or failed. *)
  <2>7. ASSUME NEW i \in Submissions, NEW n \in Nat, NEW d \in Callers, ReviewPending(d, i, n),
               task'[d].pc = "evaluate"
        PROVE  ReviewPending(d, i, n)' \/ ReviewHad(i, n)' \/ i \in task'[d].failed
    <3>1. PICK v \in reviewing : v.by = d /\ v.request = i /\ v.evaluation = n
      BY <2>7 DEF ReviewPending, ReviewsBy
    <3>2. CASE v # t
      <4>1. v \in reviewing'
        BY <1>0, <1>3, <3>1, <3>2, ReviewTableFacts
      <4> QED BY <3>1, <4>1 DEF ReviewPending, ReviewsBy
    <3>3. CASE v = t
      <4>1. CASE \E u \in ReviewTask :
                    /\ reviewing' = (reviewing \ {t}) \cup {u}
                    /\ u.by = t.by /\ u.request = t.request /\ u.evaluation = t.evaluation
        BY <3>1, <3>3, <4>1 DEF ReviewPending, ReviewsBy
      <4>2. CASE FinishReview(t)
        <5>1. PICK r \in ReviewsOf(n) : reviews[r].verdict = t.verdict
          BY <1>0, <3>1, <3>3, <4>2 DEF FinishReview, CallsInv
        <5>2. CASE t.verdict # "FAILED"
          <6>1. requests'[i] = "finished"
            BY <1>0, <3>1, <3>3, <4>2 DEF FinishReview, TypeOK
          <6>2. r \in DOMAIN reviews' /\ reviews'[r] = reviews[r] /\ reviews[r].evaluation = n
            BY <2>1, <5>1 DEF ReviewsOf
          <6> QED BY <5>1, <5>2, <6>1, <6>2 DEF ReviewHad, ReviewsOf
        <5>3. CASE t.verdict = "FAILED"
          <6>1. task[d] \in Task /\ task \in [Callers -> Task]
            BY <1>0 DEF TypeOK
          <6>2. task[d].pc = "evaluate"
            BY <1>0, <1>3, <2>0, <2>7, <3>1, <3>3, ReviewWorkFacts
          <6>3. Become(d, [task[d] EXCEPT !.failed = @ \cup {i}])
            BY <3>1, <3>3, <4>2, <5>3, <6>2 DEF FinishReview, Ended, Doing, ErrorOf
          <6> QED BY <6>1, <6>3 DEF Become, Task
        <5> QED BY <5>2, <5>3
      <4>3. CASE ReviewFails(t)
        <5>1. task[d] \in Task /\ task \in [Callers -> Task]
          BY <1>0 DEF TypeOK
        <5>2. task[d].pc = "evaluate"
          BY <1>0, <1>3, <2>0, <2>7, <3>1, <3>3, ReviewWorkFacts
        <5>3. Become(d, [task[d] EXCEPT !.failed = @ \cup {i}])
          BY <3>1, <3>3, <4>3, <5>2 DEF ReviewFails, Ended, Doing, ErrorOf
        <5> QED BY <5>1, <5>3 DEF Become, Task
      <4>4. CASE ReviewSurfaces(t)
        <5>1. task[d].pc = "evaluate"
          BY <1>0, <1>3, <2>0, <2>7, <3>1, <3>3, ReviewWorkFacts
        <5>2. Become(d, Raised(d))
          BY <3>1, <3>3, <4>4, <5>1 DEF ReviewSurfaces, Doing
        <5>3. task'[d].pc = "raised"
          BY <1>0, <5>2, RestingTasks, BecomeFacts
        <5> QED BY <2>7, <5>3
      <4>5. CASE ClaimReview(t) \/ CallReviewer(t) \/ StoreReview(t) \/ ReviewBreaks(t)
        <5>1. \E at \in {"claim", "call", "store", "finish", "broken"}, w \in Verdicts \cup {None} : Step(t, at, w)
          BY <1>0, <4>5 DEF ClaimReview, CallReviewer, StoreReview, ReviewBreaks, CallsInv, Verdicts
        <5> QED BY <1>0, <4>1, <5>1, StepTypes
      <4> QED BY <1>3, <4>2, <4>3, <4>4, <4>5 DEF ReviewWork
    <3> QED BY <3>2, <3>3
  <2>8. ASSUME NEW d \in Callers PROVE CallerAccount(d)'
    <3>0. CallerAccount(d)
      BY <1>0 DEF AccountInv
    <3>1. \/ task'[d] = task[d]
          \/ /\ task[d].pc = "evaluate" /\ task'[d].pc = "evaluate" /\ task'[d].key = task[d].key
             /\ task'[d].todo = task[d].todo /\ task[d].failed \subseteq task'[d].failed
          \/ task'[d].pc = "raised"
      BY <1>0, <1>3, ReviewWorkFacts, RestingTasks
    <3>2. ASSUME task'[d].pc = "evaluate", NEW i \in OfRun(task[d].key)
          PROVE  Accounted(d, i)'
      <4>1. /\ task[d].pc = "evaluate" /\ task'[d].key = task[d].key /\ task'[d].todo = task[d].todo
            /\ task[d].failed \subseteq task'[d].failed
        BY <3>1, <3>2
      <4>2. Accounted(d, i) /\ i \in Submissions
        BY <2>4, <3>0, <3>2, <4>1 DEF CallerAccount
      <4>3. CASE i \in task[d].todo \cup task[d].failed
        BY <4>1, <4>3 DEF Accounted
      <4>4. ASSUME NEW n \in EvaluationsOf(i), evaluations[n].key = task[d].key,
                   Reviewable(task[d].key, n) => ReviewHad(i, n) \/ ReviewPending(d, i, n)
            PROVE  Accounted(d, i)'
        <5>1. n \in Nat /\ n \in EvaluationsOf(i)'
          <6>1. n \in DOMAIN evaluations /\ evaluations \in Seq(Evaluation)
            BY <1>0, <4>4 DEF EvaluationsOf, TypeOK
          <6>2. n \in Nat
            BY <6>1
          <6> QED BY <2>5, <4>4, <6>2
        <5>2. Reviewable(task[d].key, n)' => ReviewHad(i, n)' \/ ReviewPending(d, i, n)' \/ i \in task'[d].failed
          <6>1. Reviewable(task[d].key, n)' = Reviewable(task[d].key, n)
            BY <2>0, <4>1 DEF Reviewable
          <6>2. ReviewHad(i, n) => ReviewHad(i, n)'
            BY <2>3, <4>2
          <6>3. ReviewPending(d, i, n) => ReviewPending(d, i, n)' \/ ReviewHad(i, n)' \/ i \in task'[d].failed
            BY <2>7, <3>2, <4>2, <5>1
          <6> QED BY <4>4, <6>1, <6>2, <6>3
        <5> QED BY <2>0, <4>1, <4>4, <5>1, <5>2 DEF Accounted
      <4> QED BY <4>2, <4>3, <4>4 DEF Accounted
    <3> QED BY <2>4, <3>0, <3>1, <3>2 DEF CallerAccount, Revising, OnRules, Asking, OnFiles, Correcting
  <2> QED BY <2>4, <2>6, <2>8 DEF AccountInv
<1>4. ASSUME NEW c \in Callers, StepOf(c) PROVE AccountInv'
  <2> USE DEF Revising, OnRules, Asking, OnFiles, Correcting
  <2>0. CallerAccount(c) /\ TypeOK'
    BY <1>0, TypesKept DEF AccountInv
  (* Steps of a run that leave every recorded state and policy as it was *)
  <2>1. ASSUME UNCHANGED <<inputs, evaluations, reviews, requests>>, Others(c),
               \A t \in reviewing : t.by # c => t \in reviewing',
               \A k \in Keys : runs'[k].review = runs[k].review,
               \A k \in Keys : runs'[k].state = "completed" => runs[k].state = "completed",
               \/ task'[c].pc \notin Revising \cup Correcting
               \/ /\ task'[c].key = task[c].key /\ task[c].todo \subseteq task'[c].todo
                  /\ \/ task[c].pc \in Revising \ {"evaluate"} /\ task'[c].pc \in Revising \ {"evaluate"}
                     \/ task[c].pc \in Correcting /\ task'[c].pc \in Correcting
               \/ OfRun(task'[c].key) = {}
        PROVE  AccountInv'
    <3>1. \A k : OfRun(k)' = OfRun(k)
      BY <2>1 DEF OfRun
    <3>2. CallerAccount(c)'
      BY <2>0, <2>1, <3>1 DEF CallerAccount
    <3> QED BY <1>1, <1>a, <2>1, <3>2 DEF Others
  <2>2. CASE Moves(c)
    <3>1. /\ UNCHANGED <<runs, inputs, evaluations, reviews, requests, reviewing>> /\ Others(c)
      BY <1>0, <2>2, MovesFacts DEF Others
    <3>2. CASE task'[c].pc \notin Revising \cup Correcting
      BY <2>1, <3>1, <3>2
    <3>3. CASE /\ task'[c].key = task[c].key /\ task'[c].todo = task[c].todo
               /\ \/ task[c].pc = "rules" /\ task'[c].pc \in {"input", "claim_rules"}
                  \/ task[c].pc = "snapshot" /\ task'[c].pc = "freeze"
      BY <2>1, <3>1, <3>3
    <3>4. CASE /\ task[c].pc = "extract" /\ task'[c].pc = "evaluate"
               /\ task'[c].key = task[c].key /\ task'[c].todo = task[c].todo
      <4>1. OfRun(task[c].key)' \subseteq task'[c].todo
        BY <2>0, <3>1, <3>4 DEF CallerAccount, OfRun
      <4>2. CallerAccount(c)'
        BY <3>4, <4>1 DEF CallerAccount, Accounted
      <4> QED BY <1>1, <3>1, <4>2 DEF Others
    <3>5. CASE /\ task[c].pc = "evaluate" /\ task'[c].pc = "evaluate" /\ task'[c].key = task[c].key
               /\ task[c].todo \cup task[c].failed \subseteq task'[c].todo \cup task'[c].failed
      <4>1. \A i : Accounted(c, i) => Accounted(c, i)'
        BY <3>1, <3>5 DEF Accounted, EvaluationsOf, Reviewable, ReviewHad, ReviewsOf, ReviewPending, ReviewsBy
      <4>2. OfRun(task[c].key)' = OfRun(task[c].key)
        BY <3>1, <3>5 DEF OfRun
      <4>3. CallerAccount(c)'
        BY <2>0, <3>5, <4>1, <4>2 DEF CallerAccount
      <4> QED BY <1>1, <3>1, <4>3 DEF Others
    <3> QED BY <1>0, <2>2, <3>2, <3>3, <3>4, <3>5, MovesFacts, RestingTasks
  <2>3. CASE Intend(c)
    <3>1. Key(c) \in Keys /\ Others(c) /\ UNCHANGED <<inputs, evaluations, reviews, requests, reviewing>>
      BY <1>0, <2>3, KeyedSteps, IntendFacts DEF SameSubmissions, SameReviews
    <3>2. CASE ClaimFacts(Key(c)) /\ SameLists(c)
      <4>1. OfRun(task'[c].key) = {}
        BY <1>0, <3>1, <3>2 DEF AbsentIsUnused, ClaimFacts, SameLists
      <4> QED BY <2>1, <3>1, <3>2, <4>1 DEF ClaimFacts, NewState, RunKeys
    <3>3. CASE task'[c].pc = "idle" /\ UNCHANGED runs
      BY <2>1, <3>1, <3>3
    <3> QED BY <1>0, <2>3, <3>1, <3>2, <3>3, IntendFacts
  <2>4. CASE ClaimRules(c) \/ AuthorRules(c) \/ StoreRules(c)
    <3>1. /\ Others(c) /\ UNCHANGED <<inputs, evaluations, reviews, requests, reviewing>>
          /\ SameLists(c) /\ task[c].pc \in Revising \ {"evaluate"} /\ task'[c].pc \in Revising \ {"evaluate"}
          /\ \A k \in Keys : runs'[k] = runs[k]
      BY <1>0, <2>4, ClaimRulesFacts, AuthorRulesFacts, StoreRulesFacts
         DEF SameSubmissions, SameReviews, NewState, RunKeys
    <3> QED BY <2>1, <3>1 DEF SameLists
  <2>5. CASE RulesFail(c) \/ GiveUp(c) \/ Die(c)
    <3>1. /\ Others(c) /\ UNCHANGED <<inputs, evaluations, reviews, requests>>
          /\ reviewing' = reviewing \/ reviewing' = reviewing \ ReviewsBy(c)
          /\ task'[c].pc \in {"raised", "finished", "idle"}
          /\ \A k \in Keys : runs'[k].review = runs[k].review
          /\ \A k \in Keys : runs'[k].state = "completed" => runs[k].state = "completed"
      BY <1>0, <2>5, KeyedSteps, RulesFailFacts, GiveUpFacts, DieFacts, RestingTasks
         DEF SameSubmissions, SameReviews, NewState, RunKeys
    <3> QED BY <2>1, <3>1 DEF ReviewsBy
  <2>6. ASSUME NEW b, NewPolicy(task[c].key, b), Others(c), SameLists(c), Running(task[c].key),
               UNCHANGED <<inputs, evaluations, reviews, requests, reviewing>>,
               \/ task[c].pc = "input" /\ task'[c].pc = "register"
               \/ task[c].pc = "freeze" /\ task'[c].pc = "amend"
        PROVE  AccountInv'
    <3>1. \A k \in RunKeys : k # task[c].key => runs'[k].review = runs[k].review
      BY <2>6 DEF NewPolicy
    <3>2. \A k \in Keys : runs'[k].state = "completed" => runs[k].state = "completed" /\ k # task[c].key
      BY <2>6 DEF NewPolicy, RunKeys
    <3>3. \A d \in Callers : d # c /\ task[d].pc = "evaluate" =>
             task[d].key # task[c].key /\ task[d].key \in RunKeys
      BY <1>0, <1>a, <2>6 DEF KeysHeld, Holding
    <3>4. CallerAccount(c)'
      <4>1. OfRun(task[c].key)' = OfRun(task[c].key)
        BY <2>6 DEF OfRun, SameLists
      <4> QED BY <2>0, <2>6, <4>1 DEF CallerAccount, SameLists
    <3> QED BY <1>1, <2>6, <3>1, <3>2, <3>3, <3>4 DEF Others, RunKeys
  <2>7. CASE SetInput(c)
    <3>1. Key(c) \in Keys /\ Running(Key(c))
      BY <1>0, <2>7, KeyedSteps DEF KeysHeld, AtWork, SetInput, Doing
    <3> QED BY <1>0, <2>6, <2>7, <3>1, SetInputFacts DEF SameSubmissions, SameReviews
  <2>8. CASE Freeze(c)
    <3>1. Key(c) \in Keys /\ Running(Key(c))
      BY <1>0, <2>8, KeyedSteps DEF KeysHeld, AtWork, Freeze, Doing
    <3> QED BY <1>0, <2>6, <2>8, <3>1, FreezeFacts DEF SameSubmissions, SameReviews
  (* Nothing failed, nothing is left and no review is in progress. *)
  <2>9. CASE Finish(c)
    <3>1. /\ Key(c) \in Keys /\ Others(c) /\ task[c].pc \in {"evaluate", "amend"}
          /\ task'[c].pc = "finished" /\ task[c].todo = {} /\ ReviewsBy(c) = {}
          /\ NewState(Key(c), Summary(c))
          /\ UNCHANGED <<inputs, evaluations, reviews, requests, reviewing>>
      BY <1>0, <2>9, KeyedSteps, FinishFacts, RestingTasks DEF SameSubmissions, SameReviews
    <3>2. ASSUME Summary(c) = "completed", NEW i \in OfRun(task[c].key)
          PROVE  RunComplete(task[c].key, i)
      <4>1. task[c].failed = {}
        BY <3>2 DEF Summary
      <4>2. task[c].pc = "evaluate" /\ Accounted(c, i)
        BY <2>0, <3>1, <3>2 DEF CallerAccount
      <4>3. \A n : ~ ReviewPending(c, i, n)
        BY <3>1 DEF ReviewPending
      <4> QED BY <3>1, <4>1, <4>2, <4>3 DEF Accounted, RunComplete
    <3>3. \A k \in Keys : runs'[k].review = runs[k].review
      BY <3>1 DEF NewState, RunKeys
    <3>4. \A k \in Keys : runs'[k].state = "completed" =>
             runs[k].state = "completed" \/ (k = task[c].key /\ Summary(c) = "completed")
      BY <3>1 DEF NewState, RunKeys
    <3>5. CallerAccount(c)'
      BY <3>1 DEF CallerAccount
    <3> QED BY <1>1, <1>a, <3>1, <3>2, <3>3, <3>4, <3>5 DEF Others
  <2>10. ASSUME NEW k \in Keys, Start(c, k) PROVE AccountInv'
    <3>1. /\ ClaimFacts(k) /\ task'[c].key = k /\ Others(c)
          /\ UNCHANGED <<inputs, evaluations, reviews, requests, reviewing>>
      BY <1>0, <2>10, StartFacts DEF SameSubmissions, SameReviews
    <3>2. OfRun(task'[c].key) = {}
      BY <1>0, <3>1 DEF AbsentIsUnused, ClaimFacts
    <3> QED BY <2>1, <3>1, <3>2 DEF ClaimFacts, NewState, RunKeys
  <2>11. ASSUME NEW i \in Submissions, Extract(c, i) PROVE AccountInv'
    <3>1. UNCHANGED <<runs, inputs, evaluations, reviews, requests, reviewing, task>>
      BY <2>11 DEF Extract, SameReviews
    <3>2. CallerAccount(c)' = CallerAccount(c)
      BY <3>1 DEF CallerAccount, Accounted, OfRun, EvaluationsOf, Reviewable, ReviewHad, ReviewsOf,
                  ReviewPending, ReviewsBy
    <3> QED BY <1>1, <2>0, <3>1, <3>2
  <2>12. ASSUME NEW i \in Submissions, Register(c, i) PROVE AccountInv'
    <3>1. /\ Others(c) /\ SameLists(c) /\ task[c].pc = "register"
          /\ task'[c].pc \in {"register", "extract"} /\ i \in task[c].todo
          /\ inputs' = Append(inputs, i)
          /\ UNCHANGED <<runs, evaluations, reviews, requests, reviewing>>
      BY <1>0, <2>12, RegisterFacts DEF SameReviews
    <3>2. i[1] = task[c].key /\ runs[task[c].key].state = "running"
      BY <1>0, <3>1 DEF ListsInv, KeysHeld, AtWork
    <3>3. \A k : OfRun(k)' = OfRun(k) \cup {j \in {i} : j[1] = k}
      BY <1>0, <3>1, OfRunFacts
    <3>4. \A k : k # task[c].key => OfRun(k)' = OfRun(k)
      <4>1. ASSUME NEW k, k # task[c].key PROVE OfRun(k)' = OfRun(k)
        <5>1. OfRun(k)' = OfRun(k) \cup {j \in {i} : j[1] = k}
          BY <3>3
        <5> QED BY <3>2, <4>1, <5>1
      <4> QED BY <4>1
    <3>5. /\ \A d, j : Accounted(d, j) /\ task'[d] = task[d] => Accounted(d, j)'
          /\ \A k, j : RunComplete(k, j)' = RunComplete(k, j)
      BY <3>1 DEF Accounted, RunComplete, EvaluationsOf, Reviewable, ReviewHad, ReviewsOf, ReviewPending, ReviewsBy
    <3>6. \A k \in Keys : runs'[k].state = "completed" => \A j \in OfRun(k)' : RunComplete(k, j)'
      BY <1>0, <3>1, <3>2, <3>4, <3>5 DEF AccountInv
    <3>7. ASSUME NEW d \in Callers, d # c PROVE CallerAccount(d)'
      <4>1. CallerAccount(d) /\ task'[d] = task[d]
        BY <1>0, <3>1, <3>7 DEF AccountInv, Others
      <4>2. ASSUME task[d].pc \in Revising \cup Correcting
            PROVE  OfRun(task[d].key)' = OfRun(task[d].key)
        <5>1. task[d].key # task[c].key
          BY <1>0, <3>1, <3>7, <4>2 DEF KeysHeld, Holding
        <5> QED BY <3>4, <4>1, <5>1
      <4> QED BY <3>5, <4>1, <4>2 DEF CallerAccount
    <3>8. CallerAccount(c)'
      <4>1. task'[c].key = task[c].key /\ task'[c].todo = task[c].todo
        BY <3>1 DEF SameLists
      <4>2. OfRun(task[c].key)' = OfRun(task[c].key) \cup {j \in {i} : j[1] = task[c].key}
        BY <3>3, <4>1
      <4>3. OfRun(task[c].key) \subseteq task[c].todo
        BY <2>0, <3>1 DEF CallerAccount
      <4>4. OfRun(task[c].key)' \subseteq task'[c].todo
        BY <3>1, <4>1, <4>2, <4>3
      <4>5. task'[c].pc # "evaluate" /\ task'[c].pc \notin Correcting
        BY <3>1
      <4> QED BY <4>4, <4>5 DEF CallerAccount
    <3> QED BY <3>6, <3>7, <3>8 DEF AccountInv
  <2>13. ASSUME NEW i \in Submissions, Evaluate(c, i) \/ Amend(c, i) PROVE AccountInv'
    <3>0. Key(c) \in Keys
      BY <1>0, <2>13, KeyedSteps
    <3>1. PICK e : /\ Published(c, i, e)
                   /\ reviewing \subseteq reviewing'
                   /\ task[c].pc = "evaluate" =>
                         (Key(c) \in Reviewed /\ e.decision = "PAGAR" =>
                            Review(c, i, Len(evaluations) + 1) \in reviewing')
      BY <1>0, <2>13, <3>0, EvaluateFacts, AmendFacts DEF SameReviews
    <3>2. UNCHANGED <<runs, inputs, reviews, requests>> /\ task[c].pc \in {"evaluate", "amend"}
      BY <2>13 DEF Evaluate, Amend, Doing, SameReviews
    <3>3. /\ \A n \in DOMAIN evaluations : evaluations'[n] = evaluations[n]
          /\ DOMAIN evaluations' = DOMAIN evaluations \cup {Len(evaluations) + 1}
          /\ evaluations'[Len(evaluations) + 1] = e
      BY <1>0, <3>1, PublishedFacts
    <3>4. \A k : OfRun(k)' = OfRun(k)
      BY <3>2 DEF OfRun
    <3>5. \A j, n : ReviewHad(j, n)' = ReviewHad(j, n)
      BY <3>2 DEF ReviewHad, ReviewsOf
    <3>6. \A d, j, n : ReviewPending(d, j, n) => ReviewPending(d, j, n)'
      BY <3>1 DEF ReviewPending, ReviewsBy
    <3>7. \A j : \A n \in EvaluationsOf(j) :
             /\ n \in EvaluationsOf(j)' /\ evaluations'[n].key = evaluations[n].key
             /\ \A k : Reviewable(k, n)' = Reviewable(k, n)
      BY <3>2, <3>3 DEF EvaluationsOf, Reviewable
    <3>8. \A k, j : RunComplete(k, j) => RunComplete(k, j)'
      BY <3>5, <3>7 DEF RunComplete
    <3>9. \A k \in Keys : runs'[k].state = "completed" => \A j \in OfRun(k)' : RunComplete(k, j)'
      BY <1>0, <3>2, <3>4, <3>8 DEF AccountInv
    <3>10. \A d \in Callers : /\ task'[d].pc = task[d].pc /\ task'[d].key = task[d].key
                              /\ task'[d].failed = task[d].failed
      BY <3>1 DEF Published, Others
    <3>11. ASSUME NEW d \in Callers, NEW j, Accounted(d, j), d # c \/ j # i
           PROVE  Accounted(d, j)'
      <4>1. CASE j \in task[d].todo \cup task[d].failed
        <5>1. j \in task'[d].todo \cup task'[d].failed
          BY <3>1, <3>11, <4>1 DEF Published, Others
        <5> QED BY <5>1 DEF Accounted
      <4>2. ASSUME NEW n \in EvaluationsOf(j), evaluations[n].key = task[d].key,
                   Reviewable(task[d].key, n) => ReviewHad(j, n) \/ ReviewPending(d, j, n)
            PROVE  Accounted(d, j)'
        <5>1. task'[d].key = task[d].key
          BY <3>10
        <5>2. n \in EvaluationsOf(j)' /\ evaluations'[n].key = task'[d].key
          BY <3>7, <4>2, <5>1
        <5>3. Reviewable(task[d].key, n)' => ReviewHad(j, n)' \/ ReviewPending(d, j, n)'
          <6>1. Reviewable(task[d].key, n)' = Reviewable(task[d].key, n)
            BY <3>2, <3>3, <4>2, <5>1 DEF Reviewable, EvaluationsOf
          <6> QED BY <3>5, <3>6, <4>2, <6>1
        <5> QED BY <5>2, <5>3 DEF Accounted
      <4> QED BY <3>11, <4>1, <4>2 DEF Accounted
    <3>12. task[c].pc = "evaluate" => Accounted(c, i)'
      <4> SUFFICES ASSUME task[c].pc = "evaluate" PROVE Accounted(c, i)'
        OBVIOUS
      <4> DEFINE u == Review(c, i, Len(evaluations) + 1)
      <4>0. ASSUME NEW m, m = Len(evaluations) + 1 PROVE Accounted(c, i)'
        <5>1. /\ m \in EvaluationsOf(i)' /\ evaluations'[m].key = task[c].key /\ evaluations'[m] = e
          BY <3>1, <3>3, <4>0 DEF EvaluationsOf, Published
        <5>2. runs[task[c].key].review = (task[c].key \in Reviewed)
          BY <1>0 DEF PolicyInv
        <5>3. u.by = c /\ u.request = i /\ u.evaluation = m
          BY <4>0 DEF Review
        <5> HIDE DEF u
        <5>4. Reviewable(task[c].key, m)' => u \in reviewing'
          <6>1. task'[c].key = task[c].key
            BY <3>10
          <6> QED BY <3>1, <3>2, <5>1, <5>2, <6>1 DEF Reviewable, u
        <5>5. u \in reviewing' => ReviewPending(c, i, m)'
          BY <5>3 DEF ReviewPending, ReviewsBy
        <5>6. task'[c].key = task[c].key
          BY <3>10
        <5> QED BY <5>1, <5>4, <5>5, <5>6 DEF Accounted
      <4> QED BY <4>0
    <3>13. ASSUME NEW d \in Callers PROVE CallerAccount(d)'
      <4>1. CallerAccount(d) /\ task'[d].pc = task[d].pc /\ task'[d].key = task[d].key
        BY <1>0, <3>10 DEF AccountInv
      <4>2. task[d].pc \in Revising \ {"evaluate"} => task'[d].todo = task[d].todo
        BY <3>1, <3>2 DEF Published, Others
      <4>3. OfRun(task[d].key)' = OfRun(task[d].key)
        BY ZenonT(60), <3>4, <4>1 DEF OfRun
      <4>4. task[d].pc = "evaluate" => \A j \in OfRun(task[d].key) : Accounted(d, j)'
        <5>1. ASSUME task[d].pc = "evaluate", NEW j \in OfRun(task[d].key) PROVE Accounted(d, j)'
          <6>1. Accounted(d, j)
            BY <4>1, <5>1 DEF CallerAccount
          <6>2. CASE d = c /\ j = i
            BY <3>12, <5>1, <6>2
          <6> QED BY <3>11, <6>1, <6>2
        <5> QED BY <5>1
      <4> QED BY <4>1, <4>2, <4>3, <4>4 DEF CallerAccount
    <3> QED BY <3>9, <3>13 DEF AccountInv
  <2> QED BY <1>4, <2>2, <2>3, <2>4, <2>5, <2>7, <2>8, <2>9, <2>10, <2>11, <2>12, <2>13 DEF StepOf
<1> QED BY <1>2, <1>3, <1>4, StepCases

-----------------------------------------------------------------------------
(* Invariance *)

LEMMA InitInvariant == Init => EngineInv
<1> SUFFICES ASSUME Init PROVE EngineInv
  OBVIOUS
<1> USE DEF PcIn, Key, Running, Holding, AtWork, Revising, OnRules, Asking, OnFiles, Correcting
<1>0. /\ \A c \in Callers : task[c] = Idle /\ task[c].pc = "idle"
      /\ \A k \in RunKeys : runs[k].state = "absent" /\ runs[k].review = None
      /\ inputs = <<>> /\ evaluations = <<>> /\ reviews = <<>> /\ reviewing = {} /\ authored = 0
      /\ \A k \in Keys : k \in RunKeys
      /\ RulesKey \in RunKeys
      /\ \A q \in Submissions : requests[q] = "absent" /\ calls[q] = 0
      /\ \A k \in Keys : before[k] = 0
      /\ pinned = {}
  BY DEF Init, Idle, RunKeys
<1>1. TypeOK
  <2>1. Idle \in Task
    BY DEF Idle, Task, Locations
  <2>2. runs \in [RunKeys -> [state : RunStates, review : BOOLEAN \cup {None}]]
    BY DEF Init, RunStates
  <2> QED BY <2>1, <2>2 DEF Init, TypeOK
<1>2. KeysHeld
  BY <1>0 DEF KeysHeld
<1>3. AbsentIsUnused
  BY <1>0 DEF AbsentIsUnused, OfRun
<1>4. RulesInv /\ FilesInv
  <2>1. RulesInv
    BY <1>0 DEF RulesInv, RulesRecorded
  <2>2. FilesInv
    BY <1>0 DEF FilesInv, GenerationWasNeeded, FileIsEnough
  <2> QED BY <2>1, <2>2
<1>5. PolicyInv
  BY <1>0 DEF PolicyInv
<1>6. ListsInv
  BY <1>0 DEF ListsInv
<1>7. HistoryInv
  BY <1>0 DEF HistoryInv, EarlierSubmissionsSeen
<1>8. ReviewInv
  BY <1>0 DEF ReviewInv
<1>9. CallsInv
  BY <1>0 DEF CallsInv
<1>10. AccountInv
  BY <1>0 DEF AccountInv, CallerAccount
<1> QED BY <1>1, <1>2, <1>3, <1>4, <1>5, <1>6, <1>7, <1>8, <1>9, <1>10 DEF EngineInv

(* What the tables of runs, submissions, evaluations and reviews say of each *)
(* other and of the callers at work (claim_run, claim_review, revisar_lote,  *)
(* correct_existing) holds in every reachable state.                         *)
THEOREM EngineInvariant == Spec => []EngineInv
<1>1. EngineInv /\ [Next]_vars => EngineInv'
  <2> SUFFICES ASSUME EngineInv, [Next]_vars PROVE EngineInv'
    OBVIOUS
  <2> QED BY TypesKept, KeysKept, AbsentKept, RulesKept, FilesKept, PolicyKept, ListsKept, HistoryKept,
             ReviewKept, CallsKept, AccountKept DEF EngineInv
<1> QED BY <1>1, InitInvariant, PTL DEF Spec

-----------------------------------------------------------------------------
(* Theorems *)

(* Rules are authored once and each review key is paid once, however many    *)
(* callers repeat a request and whatever dies in between (claim_run,         *)
(* claim_review).                                                            *)
THEOREM NothingPaidTwice == Spec => []PaidOnce
<1>1. EngineInv => PaidOnce
  BY DEF EngineInv, RulesInv, CallsInv, PaidOnce
<1> QED BY <1>1, EngineInvariant, PTL

(* An evaluation that had to count an earlier submission did, although the    *)
(* history was read some steps before the decision was published              *)
(* (processed_history_snapshot, same_file_policy).                            *)
THEOREM DuplicatesAreSeen == Spec => []EarlierSubmissionsSeen
<1>1. EngineInv => EarlierSubmissionsSeen
  BY DEF EngineInv, HistoryInv
<1> QED BY <1>1, EngineInvariant, PTL

(* No revision decides by rules whose generation is not recorded as complete, *)
(* unless it brought its ruleset; and with that it neither starts a           *)
(* generation nor is refused for one (revisar_lote, reusable_rules).          *)
THEOREM RulesAreRecorded == Spec => []DecidedByRecordedRules
<1>1. EngineInv => DecidedByRecordedRules
  BY DEF EngineInv, RulesInv, FilesInv, DecidedByRecordedRules
<1> QED BY <1>1, EngineInvariant, PTL

(* What was submitted under review leaves as PAGAR only if the reviewer of    *)
(* that evaluation confirmed it, and a run recorded as complete had the       *)
(* reviews it asked for (decide_output, revisar_lote, correct_existing).      *)
THEOREM ReviewBinds == Spec => []ReviewIsBinding
<1>1. EngineInv => ReviewIsBinding
  <2> SUFFICES ASSUME EngineInv PROVE NothingLeavesUnreviewed /\ CompletedIsComplete
    BY DEF ReviewIsBinding
  <2>0. /\ TypeOK /\ PolicyInv /\ AccountInv
        /\ FALSE # None /\ TRUE # None
    BY EngineAssumption DEF EngineInv
  <2>1. ASSUME NEW f \in Files, InputsOf(f) # {}, NEW i, i = LatestInput(f),
               runs[i[1]].review = TRUE, Output(i) = "PAGAR"
        PROVE  Confirmed(LatestEvaluation(i))
    <3> DEFINE n == LatestEvaluation(i)
               S == {0} \cup EvaluationsOf(i)
    <3>1. S \in SUBSET (0..Len(evaluations)) /\ S # {} /\ Len(evaluations) \in Nat
      BY <2>0 DEF EvaluationsOf, TypeOK
    <3>2. Max(S) \in S
      BY <3>1, LatestExists
    <3>3. n # 0 /\ Released(n, runs[RunOfRow(i)].review)
      BY <2>1 DEF Output
    <3>4. n \in DOMAIN evaluations /\ evaluations[n].input = i
      BY <3>2, <3>3 DEF EvaluationsOf, LatestEvaluation
    <3>5. RunOfRow(i) = evaluations[n].key
      BY <3>3 DEF RunOfRow
    <3> HIDE DEF n
    (* A correction is of a submission for which review was disabled. *)
    <3>6. RunOfRow(i) = i[1]
      BY <2>0, <2>1, <3>4, <3>5 DEF PolicyInv
    <3> QED BY <2>1, <3>3, <3>6 DEF Released, n
  <2>2. NothingLeavesUnreviewed
    BY <2>1 DEF NothingLeavesUnreviewed
  <2>3. ASSUME NEW k \in Keys, runs[k].state = "completed", NEW i \in OfRun(k)
        PROVE  \E n \in EvaluationsOf(i) :
                  /\ evaluations[n].key = k
                  /\ runs[k].review /\ evaluations[n].decision = "PAGAR"
                     => requests[i] = "finished" /\ \E r \in ReviewsOf(n) : reviews[r].verdict # "FAILED"
    <3>1. PICK n \in EvaluationsOf(i) : evaluations[n].key = k /\ (Reviewable(k, n) => ReviewHad(i, n))
      BY <2>0, <2>3 DEF AccountInv, RunComplete
    <3>2. ASSUME runs[k].review, evaluations[n].decision = "PAGAR"
          PROVE  requests[i] = "finished" /\ \E r \in ReviewsOf(n) : reviews[r].verdict # "FAILED"
      <4>1. Reviewable(k, n)
        BY <3>2 DEF Reviewable
      <4> QED BY <3>1, <4>1 DEF ReviewHad
    <3> QED BY <3>1, <3>2
  <2>4. CompletedIsComplete
    BY <2>3 DEF CompletedIsComplete
  <2> QED BY <2>2, <2>4
<1> QED BY <1>1, EngineInvariant, PTL
=============================================================================
