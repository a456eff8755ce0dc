----------------------------- MODULE EngineRuns -----------------------------
(***************************************************************************)
(* Revisions of invoices (backend/run_revision.py), corrections of stored  *)
(* submissions (backend/correct_revision.py) and contextual reviews        *)
(* (rules_ingestion/engine.py), over the tables of                         *)
(* rules_ingestion/engine_storage.py.  A caller is a process running one   *)
(* command: it claims a request key, and if it dies what it had claimed    *)
(* stays "running".  What leaves is export_outcomes.decide_output of what  *)
(* the tables then hold.                                                   *)
(*                                                                         *)
(* Different invoices never meet, so every file shows the same invoice.    *)
(***************************************************************************)
EXTENDS Naturals, Sequences, FiniteSets, FiniteSetsExt

CONSTANTS Callers,     \* processes: the API's background thread, the CLIs
          Keys,        \* request keys of revisions and corrections
          RulesKey,    \* the key reusable_rules derives from its inputs
          Files,       \* names of PDFs, numbered in the order they are listed in
          Batch,       \* the files a revision submits under each key
          Reviewed,    \* the keys revised with REVISION_REVIEW_ENABLED
          WithFile,    \* the keys that may be revised with a ruleset file (--ruleset)
          None,
          MaxFaults    \* bound: exceptions of a run or a review, deaths of a process

Submissions == Keys \X Files
RunKeys == Keys \cup {RulesKey}

ASSUME EngineAssumption ==
    /\ RulesKey \notin Keys
    /\ None \notin RunKeys \cup BOOLEAN
    /\ Files \subseteq Nat /\ Batch \in [Keys -> (SUBSET Files) \ {{}}]
    /\ Reviewed \subseteq Keys /\ WithFile \subseteq Keys
    /\ MaxFaults \in Nat

VARIABLES
    runs,        \* engine_runs: the state, and the review policy of the run's input
    inputs,      \* submissions <<key, file>>, in the order they were registered
    extracted,   \* status of the input_results row of each submission
    evaluations, \* engine_records of kind evaluation, in order
    reviews,     \* engine_records of kind review, in order
    requests,    \* states of engine_review_requests, by the submission in their key
    task,        \* what each caller is doing
    reviewing,   \* reviews in progress, in threads of their callers
    authored,    \* history: paid generations of rules
    calls,       \* history: paid reviews by request key
    before,      \* history: how many evaluations there were when a key was claimed
    pinned,      \* the keys whose request brought a ruleset file
    faults

vars == <<runs, inputs, extracted, evaluations, reviews, requests, task, reviewing,
          authored, calls, before, pinned, faults>>

-----------------------------------------------------------------------------
(* Runs *)

(* Wrong variants of a definition, each the kind of slip a property is      *)
(* there to catch, precede the definition they replace in a mutation run.   *)
ClaimableUnlessRunning(state) == state # "running"

(* The INSERT of claim_run and claim_review finds no row with the key. *)
Claimable(state) == state = "absent"

Running(k) == runs[k].state = "running"
InState(k, s) == [runs EXCEPT ![k].state = s]

(* unknown_run *)
Unknown(k) == IF Running(k) THEN InState(k, "unknown") ELSE runs

-----------------------------------------------------------------------------
(* What the tables show: latest_results and decide_output *)

EvaluationsOf(i) == {n \in DOMAIN evaluations : evaluations[n].input = i}
ReviewsOf(n) == {r \in DOMAIN reviews : reviews[r].evaluation = n}
InputsOf(f) == {n \in DOMAIN inputs : inputs[n][2] = f}

LatestInput(f) == inputs[Max(InputsOf(f))]
LatestEvaluation(i) == Max({0} \cup EvaluationsOf(i))

(* The run a row shows: a correction's own, else that of the submission's batch *)
RunOfRow(i) ==
    IF LatestEvaluation(i) = 0 THEN i[1] ELSE evaluations[LatestEvaluation(i)].key

(* The latest review of an evaluation neither failed nor challenged it. *)
Confirmed(n) == ReviewsOf(n) # {} /\ reviews[Max(ReviewsOf(n))].verdict = "COMPLETED"

Released(n, policy) == policy = FALSE \/ Confirmed(n)

(* decide_output *)
Output(i) ==
    LET n == LatestEvaluation(i) IN
    IF n = 0 \/ extracted[i] = "failed" THEN "ESCALAR"
    ELSE IF evaluations[n].decision # "PAGAR" THEN evaluations[n].decision
    ELSE IF Released(n, runs[RunOfRow(i)].review) THEN "PAGAR" ELSE "ESCALAR"

-----------------------------------------------------------------------------
Idle == [pc |-> "idle", key |-> None, todo |-> {}, seen |-> {}, failed |-> {}]

Init ==
    /\ runs = [k \in RunKeys |-> [state |-> "absent", review |-> None]]
    /\ inputs = <<>> /\ evaluations = <<>> /\ reviews = <<>>
    /\ extracted = [i \in Submissions |-> "absent"]
    /\ requests = [q \in Submissions |-> "absent"]
    /\ task = [c \in Callers |-> Idle]
    /\ reviewing = {}
    /\ authored = 0
    /\ calls = [q \in Submissions |-> 0]
    /\ before = [k \in Keys |-> 0]
    /\ pinned = {}
    /\ faults = 0

Doing(c, pc) == task[c].pc = pc
Become(c, t) == task' = [task EXCEPT ![c] = t]
Goto(c, pc) == Become(c, [task[c] EXCEPT !.pc = pc])
Key(c) == task[c].key
Raised(c) == [Idle EXCEPT !.pc = "raised", !.key = Key(c)]
Closing(c) == [Idle EXCEPT !.pc = "finished", !.key = Key(c)]
ReviewsBy(c) == {t \in reviewing : t.by = c}

SameSubmissions == UNCHANGED <<inputs, extracted, evaluations>>
SameReviews == UNCHANGED <<reviews, requests, reviewing, calls, faults>>

ClaimRun(c, k) ==
    /\ runs' = InState(k, "running")
    /\ before' = [before EXCEPT ![k] = Len(evaluations)]

-----------------------------------------------------------------------------
(* revisar_lote *)

RulesOnlyFromTheCache(file) == "rules"

(* A revision that brings its ruleset, in a file, asks for no generation and *)
(* looks at none: its input records the rules as 'pinned'.                   *)
RulesFrom(file) == IF file THEN "input" ELSE "rules"

(* Files, review policy and ruleset file are part of the request: with       *)
(* others, the key is refused.                                               *)
Start(c, k) ==
    /\ Doing(c, "idle")
    /\ Claimable(runs[k].state)
    /\ ClaimRun(c, k)
    /\ \E file \in BOOLEAN :
          /\ file => k \in WithFile
          /\ pinned' = IF file THEN pinned \cup {k} ELSE pinned
          /\ Become(c, [Idle EXCEPT !.pc = RulesFrom(file), !.key = k, !.todo = {k} \X Batch[k]])
    /\ SameSubmissions /\ SameReviews /\ UNCHANGED authored

(* run_status: a key that exists is answered, or refused for other inputs. *)
Answer(c, k) == Doing(c, "idle") /\ ~Claimable(runs[k].state) /\ UNCHANGED vars

UsableIfClaimed(state) == state \in {"running", "completed"}

(* reusable_rules takes nothing from a generation that is not known complete. *)
Usable(state) == state = "completed"

ReuseRules(c) ==
    /\ Doing(c, "rules") /\ Usable(runs[RulesKey].state)
    /\ Goto(c, "input")
    /\ SameSubmissions /\ SameReviews /\ UNCHANGED <<runs, authored, before, pinned>>

MissRules(c) ==
    /\ Doing(c, "rules") /\ runs[RulesKey].state = "absent"
    /\ Goto(c, "claim_rules")
    /\ SameSubmissions /\ SameReviews /\ UNCHANGED <<runs, authored, before, pinned>>

UnusableOnceUnknown(state) == state = "unknown"

(* A generation in progress is not waited for. *)
Unusable(state) == state # "absent" /\ ~Usable(state)

RefuseRules(c) ==
    /\ Doing(c, "rules") /\ Unusable(runs[RulesKey].state)
    /\ Become(c, Raised(c))
    /\ SameSubmissions /\ SameReviews /\ UNCHANGED <<runs, authored, before, pinned>>

(* claim_run; the loser looks at the row it lost to. *)
ClaimRules(c) ==
    /\ Doing(c, "claim_rules")
    /\ IF Claimable(runs[RulesKey].state)
       THEN runs' = InState(RulesKey, "running") /\ Goto(c, "author")
       ELSE UNCHANGED runs /\ Goto(c, "rules")
    /\ SameSubmissions /\ SameReviews /\ UNCHANGED <<authored, before, pinned>>

(* build_frozen_rules *)
AuthorRules(c) ==
    /\ Doing(c, "author")
    /\ authored' = authored + 1
    /\ Goto(c, "store_rules")
    /\ SameSubmissions /\ SameReviews /\ UNCHANGED <<runs, before, pinned>>

(* finish_run of the generation *)
StoreRules(c) ==
    /\ Doing(c, "store_rules")
    /\ runs' = InState(RulesKey, "completed")
    /\ Goto(c, "input")
    /\ SameSubmissions /\ SameReviews /\ UNCHANGED <<authored, before, pinned>>

RulesFail(c) ==
    /\ task[c].pc \in {"author", "store_rules"}
    /\ runs' = Unknown(RulesKey)
    /\ Become(c, Raised(c))
    /\ SameSubmissions /\ SameReviews /\ UNCHANGED <<authored, before, pinned>>

(* set_run_input: the review policy is frozen with the rest of the input. *)
SetInput(c) ==
    /\ Doing(c, "input")
    /\ runs' = [runs EXCEPT ![Key(c)].review = Key(c) \in Reviewed]
    /\ Goto(c, "register")
    /\ SameSubmissions /\ SameReviews /\ UNCHANGED <<authored, before, pinned>>

(* The files of a command are gone through in the order they are listed. *)
Turn(c, i) == i \in task[c].todo /\ \A j \in task[c].todo : i[2] <= j[2]

Registered(i) == \E n \in DOMAIN inputs : inputs[n] = i

(* The row of a file in the batch of its run *)
RegisterInput(i) == inputs' = Append(inputs, i)

(* create_batch and set_run_batch, then register_input of each file *)
Register(c, i) ==
    /\ Doing(c, "register") /\ i \in task[c].todo /\ ~Registered(i)
    /\ \A j \in task[c].todo : j[2] < i[2] => Registered(j)
    /\ RegisterInput(i)
    /\ Goto(c, IF \A j \in task[c].todo \ {i} : Registered(j) THEN "extract" ELSE "register")
    /\ SameReviews /\ UNCHANGED <<runs, extracted, evaluations, authored, before, pinned>>

(* Pipeline.run: one result for each input *)
Extract(c, i) ==
    /\ Doing(c, "extract") /\ i \in task[c].todo /\ extracted[i] = "absent"
    /\ \E s \in {"completed", "failed"} : extracted' = [extracted EXCEPT ![i] = s]
    /\ SameReviews /\ UNCHANGED <<runs, inputs, evaluations, task, authored, before, pinned>>

(* processed_history_snapshot: the submissions that have an evaluation *)
History == {i \in Submissions : EvaluationsOf(i) # {}}

(* Taken once, for every file of the run *)
TakeHistory(c) ==
    /\ Doing(c, "extract") /\ \A i \in task[c].todo : extracted[i] # "absent"
    /\ Become(c, [task[c] EXCEPT !.pc = "evaluate", !.seen = History])
    /\ SameSubmissions /\ SameReviews /\ UNCHANGED <<runs, authored, before, pinned>>

EarlierOtherName(c, i) == {j \in task[c].seen : j[2] # i[2]}

(* same_file_policy: a revision counts every earlier submission, a correction *)
(* those of other names.                                                      *)
Earlier(c, i) == {j \in task[c].seen : i[1] = Key(c) \/ j[2] # i[2]}

(* A confirmed duplicate outranks what the other rules say. *)
Decisions(c, i) == IF Earlier(c, i) # {} THEN {"NO_PAGAR"} ELSE {"PAGAR", "ESCALAR", "NO_PAGAR"}

Publish(c, i, d) ==
    evaluations' = Append(evaluations, [input |-> i, key |-> Key(c), decision |-> d])

Review(c, q, n) == [by |-> c, request |-> q, evaluation |-> n, at |-> "claim", verdict |-> None]

(* Only a PAGAR is reviewed: the reviewer is a veto. *)
Evaluate(c, i) ==
    /\ Doing(c, "evaluate") /\ Turn(c, i) /\ extracted[i] = "completed"
    /\ \E d \in Decisions(c, i) :
          /\ Publish(c, i, d)
          /\ reviewing' = reviewing \cup IF Key(c) \in Reviewed /\ d = "PAGAR"
                                        THEN {Review(c, i, Len(evaluations) + 1)} ELSE {}
    /\ Become(c, [task[c] EXCEPT !.todo = @ \ {i}])
    /\ UNCHANGED <<runs, inputs, extracted, reviews, requests, authored, calls, before, pinned, faults>>

(* No usable extraction, or a ContextError: the error of that file *)
NotEvaluated(c, i) ==
    /\ Doing(c, "evaluate") /\ Turn(c, i)
    /\ Become(c, [task[c] EXCEPT !.todo = @ \ {i}, !.failed = @ \cup {i}])
    /\ SameSubmissions /\ SameReviews /\ UNCHANGED <<runs, authored, before, pinned>>

OfRun(k) == {inputs[n] : n \in {m \in DOMAIN inputs : inputs[m][1] = k}}

(* The state finish_run records *)
Summary(c) ==
    IF task[c].failed = {} THEN "completed"
    ELSE IF task[c].failed = OfRun(Key(c)) THEN "failed" ELSE "partial"

(* Every review has been awaited. *)
Finish(c) ==
    /\ task[c].pc \in {"evaluate", "amend"} /\ task[c].todo = {} /\ ReviewsBy(c) = {}
    /\ Running(Key(c))
    /\ runs' = InState(Key(c), Summary(c))
    /\ Become(c, Closing(c))
    /\ SameSubmissions /\ SameReviews /\ UNCHANGED <<authored, before, pinned>>

(* Any exception, KeyboardInterrupt included, before the return *)
Raise(c) ==
    /\ task[c].pc \in {"rules", "claim_rules", "input", "register", "extract", "evaluate",
                       "snapshot", "freeze", "amend", "finished"}
    /\ faults < MaxFaults /\ faults' = faults + 1
    /\ Become(c, Raised(c))
    /\ SameSubmissions
    /\ UNCHANGED <<runs, authored, before, pinned, reviews, requests, reviewing, calls>>

GiveUp(c) ==
    /\ Doing(c, "raised")
    /\ runs' = Unknown(Key(c))
    /\ Become(c, Closing(c))
    /\ SameSubmissions /\ SameReviews /\ UNCHANGED <<authored, before, pinned>>

(* The finally clause: reviews in progress are awaited. *)
Return(c) ==
    /\ Doing(c, "finished") /\ ReviewsBy(c) = {}
    /\ Become(c, Idle)
    /\ SameSubmissions /\ SameReviews /\ UNCHANGED <<runs, authored, before, pinned>>

-----------------------------------------------------------------------------
(* correct_existing *)

CorrectableUnderReview(i) ==
    extracted[i] = "completed" /\ ~Running(RunOfRow(i))

(* What is required of the row a correction starts from *)
Correctable(i) ==
    /\ extracted[i] = "completed"
    /\ ~Running(RunOfRow(i))
    /\ runs[RunOfRow(i)].review = FALSE

SelectRows(c, k, files) ==
    /\ Doing(c, "idle")
    /\ \A f \in files : InputsOf(f) # {} /\ Correctable(LatestInput(f))
    /\ Become(c, [Idle EXCEPT !.pc = "intend", !.key = k, !.todo = {LatestInput(f) : f \in files}])
    /\ SameSubmissions /\ SameReviews /\ UNCHANGED <<runs, authored, before, pinned>>

(* claim_run; an intent that exists is reported, not repeated. *)
Intend(c) ==
    /\ Doing(c, "intend")
    /\ IF Claimable(runs[Key(c)].state)
       THEN ClaimRun(c, Key(c)) /\ Goto(c, "snapshot")
       ELSE Become(c, Idle) /\ UNCHANGED <<runs, before>>
    /\ SameSubmissions /\ SameReviews /\ UNCHANGED <<authored, pinned>>

SnapshotHistory(c) ==
    /\ Doing(c, "snapshot")
    /\ Become(c, [task[c] EXCEPT !.pc = "freeze", !.seen = History])
    /\ SameSubmissions /\ SameReviews /\ UNCHANGED <<runs, authored, before, pinned>>

(* set_run_input: review is disabled. *)
Freeze(c) ==
    /\ Doing(c, "freeze")
    /\ runs' = [runs EXCEPT ![Key(c)].review = FALSE]
    /\ Goto(c, "amend")
    /\ SameSubmissions /\ SameReviews /\ UNCHANGED <<authored, before, pinned>>

(* A further evaluation of a submission, while the intent is running *)
Amend(c, i) ==
    /\ Doing(c, "amend") /\ i \in task[c].todo
    /\ Running(Key(c))
    /\ \E d \in Decisions(c, i) : Publish(c, i, d)
    /\ Become(c, [task[c] EXCEPT !.todo = @ \ {i}])
    /\ SameReviews /\ UNCHANGED <<runs, inputs, extracted, authored, before, pinned>>

-----------------------------------------------------------------------------
(* InvoiceDecisionEngine.review *)

Step(t, at, verdict) ==
    reviewing' = (reviewing \ {t}) \cup {[t EXCEPT !.at = at, !.verdict = verdict]}

(* The submission whose result in the run's summary carries the error *)
ErrorOf(i) == {i}

Ended(t, errors) ==
    /\ reviewing' = reviewing \ {t}
    /\ IF Doing(t.by, "evaluate")
       THEN Become(t.by, [task[t.by] EXCEPT !.failed = @ \cup errors]) ELSE UNCHANGED task

(* claim_review.  The key is derived from that of the run, which only this *)
(* caller has claimed.                                                     *)
ClaimReview(t) ==
    /\ t.at = "claim" /\ Claimable(requests[t.request])
    /\ requests' = [requests EXCEPT ![t.request] = "running"]
    /\ Step(t, "call", None)
    /\ SameSubmissions /\ UNCHANGED <<runs, reviews, task, authored, calls, before, pinned, faults>>

(* The provider answers, or its failure becomes the review. *)
CallReviewer(t) ==
    /\ t.at = "call"
    /\ calls' = [calls EXCEPT ![t.request] = @ + 1]
    /\ \E v \in {"COMPLETED", "CHALLENGED", "FAILED"} : Step(t, "store", v)
    /\ SameSubmissions /\ UNCHANGED <<runs, reviews, requests, task, authored, before, pinned, faults>>

(* save_packet *)
StoreReview(t) ==
    /\ t.at = "store"
    /\ reviews' = Append(reviews, [evaluation |-> t.evaluation, verdict |-> t.verdict])
    /\ Step(t, "finish", t.verdict)
    /\ SameSubmissions /\ UNCHANGED <<runs, requests, task, authored, calls, before, pinned, faults>>

FinishReview(t) ==
    /\ t.at = "finish"
    /\ requests' = [requests EXCEPT ![t.request] = "finished"]
    /\ Ended(t, IF t.verdict = "FAILED" THEN ErrorOf(t.request) ELSE {})
    /\ SameSubmissions /\ UNCHANGED <<runs, reviews, authored, calls, before, pinned, faults>>

(* unknown_review, once the request is claimed *)
UnknownReview(t) ==
    requests' = IF t.at = "claim" THEN requests ELSE [requests EXCEPT ![t.request] = "unknown"]

(* An exception that fill_review catches: the error of that file *)
ReviewFails(t) ==
    /\ t.at # "broken" /\ faults < MaxFaults /\ faults' = faults + 1
    /\ UnknownReview(t)
    /\ Ended(t, ErrorOf(t.request))
    /\ SameSubmissions /\ UNCHANGED <<runs, reviews, authored, calls, before, pinned>>

(* One that it does not catch, such as an ArchiveError *)
ReviewBreaks(t) ==
    /\ t.at # "broken" /\ faults < MaxFaults /\ faults' = faults + 1
    /\ UnknownReview(t)
    /\ Step(t, "broken", None)
    /\ SameSubmissions /\ UNCHANGED <<runs, reviews, task, authored, calls, before, pinned>>

(* It surfaces when every file has been evaluated and reviews are awaited. *)
ReviewSurfaces(t) ==
    /\ t.at = "broken"
    /\ reviewing' = reviewing \ {t}
    /\ IF Doing(t.by, "evaluate")
       THEN task[t.by].todo = {} /\ Become(t.by, Raised(t.by)) ELSE UNCHANGED task
    /\ SameSubmissions /\ UNCHANGED <<runs, reviews, requests, authored, calls, before, pinned, faults>>

(* The process of a caller dies; its claims stay as they are. *)
Die(c) ==
    /\ ~Doing(c, "idle") /\ faults < MaxFaults
    /\ faults' = faults + 1
    /\ Become(c, Idle)
    /\ reviewing' = reviewing \ ReviewsBy(c)
    /\ SameSubmissions /\ UNCHANGED <<runs, reviews, requests, authored, calls, before, pinned>>

-----------------------------------------------------------------------------
Command(c) ==
    \/ \E k \in Keys : Start(c, k) \/ Answer(c, k)
    \/ \E k \in Keys, files \in (SUBSET Files) \ {{}} : SelectRows(c, k, files)

Work(c) ==
    \/ ReuseRules(c) \/ MissRules(c) \/ RefuseRules(c) \/ ClaimRules(c) \/ AuthorRules(c)
    \/ StoreRules(c) \/ RulesFail(c) \/ SetInput(c) \/ TakeHistory(c) \/ Finish(c)
    \/ GiveUp(c) \/ Return(c) \/ Intend(c) \/ SnapshotHistory(c) \/ Freeze(c)
    \/ \E i \in Submissions :
          Register(c, i) \/ Extract(c, i) \/ Evaluate(c, i) \/ NotEvaluated(c, i) \/ Amend(c, i)

ReviewWork(t) ==
    \/ ClaimReview(t) \/ CallReviewer(t) \/ StoreReview(t) \/ FinishReview(t)
    \/ ReviewFails(t) \/ ReviewBreaks(t) \/ ReviewSurfaces(t)

Next ==
    \/ \E c \in Callers : Command(c) \/ Work(c) \/ Raise(c) \/ Die(c)
    \/ \E t \in reviewing : ReviewWork(t)

Spec == Init /\ [][Next]_vars

-----------------------------------------------------------------------------
(* Properties *)

(* Repeating a request key never buys anything again, whatever was the end of *)
(* the first use: rules are authored once for one set of inputs, and a review *)
(* key is used for one call (claim_run, claim_review).                        *)
PaidOnce == authored <= 1 /\ \A q \in Submissions : calls[q] <= 1

(* The evaluations a decision had to count as earlier submissions: all that    *)
(* existed when its key was claimed, for a correction those of other names     *)
Owed(e) ==
    {n \in 1..before[e.key] : e.input[1] = e.key \/ evaluations[n].input[2] # e.input[2]}

(* A submission evaluated before the request of another one was even claimed   *)
(* is seen by it as a duplicate, so the invoice is not recommended twice       *)
(* (processed_history_snapshot, same_file_policy).                             *)
EarlierSubmissionsSeen ==
    \A n \in DOMAIN evaluations :
        Owed(evaluations[n]) # {} => evaluations[n].decision = "NO_PAGAR"

(* What was submitted under review does not leave as PAGAR unless a reviewer   *)
(* answered for that very evaluation without challenging it, whatever failed,  *)
(* died or was corrected in between (decide_output, correct_existing).         *)
NothingLeavesUnreviewed ==
    \A f \in Files : InputsOf(f) # {} =>
        LET i == LatestInput(f) IN
        runs[i[1]].review = TRUE /\ Output(i) = "PAGAR" => Confirmed(LatestEvaluation(i))

(* A run recorded as completed has an evaluation of each of its submissions,   *)
(* and a stored, finished review of each PAGAR when review was enabled         *)
(* (the summary of revisar_lote).                                              *)
CompletedIsComplete ==
    \A k \in Keys : runs[k].state = "completed" =>
        \A i \in OfRun(k) : \E n \in EvaluationsOf(i) :
            /\ evaluations[n].key = k
            /\ runs[k].review /\ evaluations[n].decision = "PAGAR"
               => requests[i] = "finished" /\ \E r \in ReviewsOf(n) : reviews[r].verdict # "FAILED"

(* Review asked for is review had, by the decision that leaves and by the run  *)
(* that is recorded as complete.                                               *)
ReviewIsBinding == NothingLeavesUnreviewed /\ CompletedIsComplete

(* A revision that brought no ruleset decides only by rules whose generation   *)
(* was recorded as complete (reusable_rules).  A correction brings its own.    *)
RulesRecorded ==
    \A n \in DOMAIN evaluations :
        /\ evaluations[n].key = evaluations[n].input[1]
        /\ evaluations[n].key \notin pinned
        => runs[RulesKey].state = "completed"

(* A generation is claimed, and paid for, only on behalf of such a revision.   *)
GenerationWasNeeded ==
    runs[RulesKey].state # "absent" => \E k \in Keys \ pinned : runs[k].state # "absent"

(* One that brought its ruleset is not refused for what became of a generation: *)
(* only an exception of its own or a death leaves it unknown.                  *)
FileIsEnough == \A k \in pinned : runs[k].state = "unknown" => faults > 0

(* The rules a revision decides by are a recorded generation or the file it    *)
(* was given, never a generation that is in progress, failed or unknown; and   *)
(* the file neither starts a generation nor waits for one (revisar_lote,       *)
(* reusable_rules: "supply a verified pinned ruleset").                        *)
DecidedByRecordedRules == RulesRecorded /\ GenerationWasNeeded /\ FileIsEnough

(* No caller waits for another process: whatever the tables hold, one that     *)
(* lives can go on by itself, or with the answer of its reviewer, so a run     *)
(* ends unless its process dies (reusable_rules refuses a generation that is   *)
(* in progress).                                                               *)
NobodyWaits ==
    \A c \in Callers : Doing(c, "idle") \/ ENABLED Work(c)
                      \/ \E t \in ReviewsBy(c) : ENABLED ReviewWork(t)
=============================================================================
