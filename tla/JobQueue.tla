------------------------------ MODULE JobQueue ------------------------------
(***************************************************************************)
(* The durable job queue of the ingestion worker: ingestion/pipeline.py    *)
(* run by several processes (ingest, resume, retry) over the tables        *)
(* ingestion.jobs, attempts and input_results of ingestion/storage.py.     *)
(* One job is one external, billable unit of work of an input: the reading *)
(* of a page or the interpretation of a reading.  A process runs one       *)
(* coroutine per input on one event loop; every repository call is one     *)
(* short transaction, and between two of them any other process may act.   *)
(***************************************************************************)
EXTENDS Naturals, FiniteSets

CONSTANTS Procs,        \* operating-system processes running the CLI
          Items,        \* the inputs of the batch
          None,         \* SQL NULL
          MaxAttempts,  \* jobs.max_attempts
          MaxJobs,      \* bound: generations of all work keys together
          Recoverable   \* the provider is fal: a request ID can be polled

ASSUME ConstantsAssumption ==
    /\ MaxAttempts \in Nat \ {0}
    /\ MaxJobs \in Nat
    /\ Recoverable \in BOOLEAN
    /\ None \notin Procs
    /\ None \notin Items
    /\ None \notin Nat

JobIds == 1..MaxJobs            \* in created_at order
AttemptIds == 1..MaxAttempts

Finished == {"succeeded", "needs_review"}
JobStates == Finished \cup {"absent", "pending", "running", "retry_wait", "failed", "unknown"}
AttemptStates == Finished \cup {"absent", "running", "failed", "unknown"}
CallStates == {"none", "open", "dropped", "settled"}
Phases == {"off", "reconciled", "retry", "retry_unknown", "active"}

(* Where a coroutine can be suspended, and where it holds the event loop.   *)
Suspended == {"idle", "ensure", "look", "sent", "poll", "sleep", "done"}
Locations == Suspended \cup {"claim", "missed", "begin", "ready", "received", "failing", "publish"}
Verdicts == {"none", "claim", "recover", "retry", "definite", "unknown",
             "completed", "needs_review", "failed", "live"}

VARIABLES
    jobs,      \* ingestion.jobs
    attempts,  \* ingestion.attempts, by job and attempt_number
    results,   \* ingestion.input_results
    phase,     \* what each process is doing
    selected,  \* rows a retry statement is about to insert: generation -> parent
    stopped,   \* processes whose provider queue is stopped
    task,      \* the coroutine of each process and input
    calls      \* history: what became of the call of each attempt

db == <<jobs, attempts, results>>
vars == <<jobs, attempts, results, phase, selected, stopped, task, calls>>

-----------------------------------------------------------------------------
(* Rows *)

NoJob == [state |-> "absent", item |-> None, parent |-> None, consent |-> FALSE,
          count |-> 0, token |-> None, live |-> FALSE, due |-> TRUE, erred |-> FALSE]

NewJob(i, parent, consent) ==
    [NoJob EXCEPT !.state = "pending", !.item = i, !.parent = parent, !.consent = consent]

NoAttempt == [status |-> "absent", request |-> FALSE]

NewTask(pc) == [pc |-> pc, job |-> None, attempt |-> 0, verdict |-> "none"]

JobType == [state: JobStates, item: Items \cup {None}, parent: JobIds \cup {None},
            consent: BOOLEAN, count: 0..MaxAttempts, token: Procs \cup {None},
            live: BOOLEAN, due: BOOLEAN, erred: BOOLEAN]
AttemptType == [status: AttemptStates, request: BOOLEAN]
TaskType == [pc: Locations, job: JobIds \cup {None}, attempt: 0..MaxAttempts, verdict: Verdicts]

(* Every shape of the state: tables, coroutines and the call history. *)
TypeOK ==
    /\ jobs \in [JobIds -> JobType]
    /\ attempts \in [JobIds -> [AttemptIds -> AttemptType]]
    /\ results \in [Items -> Finished \cup {"none", "completed", "failed"}]
    /\ phase \in [Procs -> Phases]
    /\ selected \in [Procs -> [JobIds -> JobIds \cup {None}]]
    /\ stopped \in SUBSET Procs
    /\ task \in [Procs -> [Items -> TaskType]]
    /\ calls \in [JobIds -> [AttemptIds -> CallStates]]

Init ==
    /\ jobs = [j \in JobIds |-> NoJob]
    /\ attempts = [j \in JobIds |-> [n \in AttemptIds |-> NoAttempt]]
    /\ results = [i \in Items |-> "none"]
    /\ phase = [p \in Procs |-> "off"]
    /\ selected = [p \in Procs |-> [j \in JobIds |-> None]]
    /\ stopped = {}
    /\ task = [p \in Procs |-> [i \in Items |-> NewTask("idle")]]
    /\ calls = [j \in JobIds |-> [n \in AttemptIds |-> "none"]]

(* A row takes its created_at when its transaction starts, so a retry       *)
(* statement in flight has already fixed the place of its rows.             *)
Taken == {j \in JobIds : jobs[j].state # "absent" \/ \E p \in Procs : selected[p][j] # None}

JobsOf(i) == {j \in JobIds : jobs[j].item = i}

(* ensure_job's ORDER BY created_at DESC LIMIT 1 over a work key's generations. *)
Newest(j, i) == j \in JobsOf(i) /\ \A k \in JobsOf(i) : k <= j

(* Wrong variants of a definition, each the kind of slip its property is    *)
(* there to catch, precede the definition they replace in a mutation run.   *)
EndAttemptsNever(j, status) == attempts[j]

(* The attempts a settled or expired job still shows as running take the
   given status. *)
EndAttempts(j, status) ==
    [n \in AttemptIds |->
        IF attempts[j][n].status = "running"
        THEN [attempts[j][n] EXCEPT !.status = status] ELSE attempts[j][n]]

-----------------------------------------------------------------------------
(* Commands: _command of pipeline.py *)

(* reconcile_expired, the first statement of resume and of retry.  The      *)
(* ingest command starts on an empty batch, where it changes nothing.       *)
ExpiredInAnyState(j) == jobs[j].state # "absent" /\ ~jobs[j].live

Expired(j) == jobs[j].state = "running" /\ ~jobs[j].live

Expire(j) ==
    [jobs[j] EXCEPT !.state = "unknown", !.token = None, !.erred = TRUE]

Reconcile(p) ==
    /\ phase[p] = "off"
    /\ phase' = [phase EXCEPT ![p] = "reconciled"]
    /\ jobs' = [j \in JobIds |-> IF Expired(j) THEN Expire(j) ELSE jobs[j]]
    /\ attempts' = [j \in JobIds |-> IF Expired(j) THEN EndAttempts(j, "unknown") ELSE attempts[j]]
    /\ UNCHANGED <<results, selected, stopped, task, calls>>

Start(p) ==
    /\ phase' = [phase EXCEPT ![p] = "active"]
    /\ task' = [task EXCEPT ![p] = [i \in Items |-> NewTask("ensure")]]

Resume(p) ==
    /\ phase[p] = "reconciled"
    /\ Start(p)
    /\ UNCHANGED <<jobs, attempts, results, selected, stopped, calls>>

RetryableWithoutConsent(unknownToo) ==
    {j \in JobIds : /\ jobs[j].state \in {"failed", "needs_review", "unknown"}
                    /\ \A k \in JobIds : jobs[k].parent # j}

(* The snapshot of retry_jobs' INSERT .. SELECT: the stopped jobs of the    *)
(* allowed states that no other generation was derived from.                *)
Retryable(unknownToo) ==
    {j \in JobIds : /\ \/ jobs[j].state \in {"failed", "needs_review"}
                       \/ unknownToo /\ jobs[j].state = "unknown"
                    /\ \A k \in JobIds : jobs[k].parent # j}

RetrySelect(p) ==
    /\ phase[p] = "reconciled"
    /\ \E unknownToo \in BOOLEAN :
       \E rows \in [JobIds -> Retryable(unknownToo) \cup {None}] :
          /\ \A j \in Retryable(unknownToo) :
                \E k \in JobIds : rows[k] = j /\ \A l \in JobIds : rows[l] = j => l = k
          /\ \A k \in JobIds : rows[k] # None =>
                /\ \A l \in Taken : l < k
                /\ k = 1 \/ k - 1 \in Taken \/ rows[k - 1] # None
          /\ selected' = [selected EXCEPT ![p] = rows]
          /\ phase' = [phase EXCEPT ![p] = IF unknownToo THEN "retry_unknown" ELSE "retry"]
    /\ UNCHANGED <<jobs, attempts, results, stopped, task, calls>>

(* The commit of retry_jobs, and the run that follows it. *)
RetryInsert(p) ==
    /\ phase[p] \in {"retry", "retry_unknown"}
    /\ jobs' = [j \in JobIds |->
          IF selected[p][j] # None
          THEN NewJob(jobs[selected[p][j]].item, selected[p][j], phase[p] = "retry_unknown")
          ELSE jobs[j]]
    /\ selected' = [selected EXCEPT ![p] = [j \in JobIds |-> None]]
    /\ Start(p)
    /\ UNCHANGED <<attempts, results, stopped, calls>>

(* asyncio.gather has every outcome and the command returns. *)
Finish(p) ==
    /\ phase[p] = "active"
    /\ \A i \in Items : task[p][i].pc = "done"
    /\ phase' = [phase EXCEPT ![p] = "off"]
    /\ stopped' = stopped \ {p}
    /\ task' = [task EXCEPT ![p] = [i \in Items |-> NewTask("idle")]]
    /\ UNCHANGED <<jobs, attempts, results, selected, calls>>

(* The process dies or is cancelled: only what it kept in memory is lost. *)
Crash(p) ==
    /\ phase[p] # "off"
    /\ phase' = [phase EXCEPT ![p] = "off"]
    /\ selected' = [selected EXCEPT ![p] = [j \in JobIds |-> None]]
    /\ stopped' = stopped \ {p}
    /\ task' = [task EXCEPT ![p] = [i \in Items |-> NewTask("idle")]]
    /\ UNCHANGED <<jobs, attempts, results, calls>>

-----------------------------------------------------------------------------
(* Coroutines: Pipeline.job and the publication in _process_input *)

(* The coroutine of input i is at pc, and no other one of its process holds *)
(* the event loop.                                                          *)
At(p, i, pc) ==
    /\ task[p][i].pc = pc
    /\ \A k \in Items \ {i} : task[p][k].pc \in Suspended

Goto(p, i, pc) == task' = [task EXCEPT ![p][i] = [@ EXCEPT !.pc = pc]]

GotoWith(p, i, pc, verdict) ==
    task' = [task EXCEPT ![p][i] = [@ EXCEPT !.pc = pc, !.verdict = verdict]]

(* The outcome an input gets from a finished job, and from a StageError. *)
Reuse(p, i, j) ==
    GotoWith(p, i, "publish", IF jobs[j].state = "succeeded" THEN "completed" ELSE "needs_review")

Raise(p, i) == GotoWith(p, i, "publish", "failed")

Adopt(p, i, j, state) ==
    task' = [task EXCEPT ![p][i] = [@ EXCEPT
        !.job = j,
        !.pc = IF state \in Finished \/ p \in stopped THEN "publish" ELSE "look",
        !.verdict = IF state = "succeeded" THEN "completed"
                    ELSE IF state = "needs_review" THEN "needs_review"
                    ELSE IF p \in stopped THEN "failed" ELSE "none"]]

(* ensure_job, then the reuse of a finished job and the stopped provider. *)
EnsureExisting(p, i) ==
    /\ At(p, i, "ensure")
    /\ \E j \in JobIds : Newest(j, i) /\ Adopt(p, i, j, jobs[j].state)
    /\ UNCHANGED <<db, phase, selected, stopped, calls>>

EnsureNew(p, i) ==
    /\ At(p, i, "ensure")
    /\ JobsOf(i) = {}
    /\ \E j \in JobIds :
          /\ \A k \in Taken : k < j
          /\ j = 1 \/ j - 1 \in Taken
          /\ jobs' = [jobs EXCEPT ![j] = NewJob(i, None, FALSE)]
          /\ Adopt(p, i, j, "pending")
    /\ UNCHANGED <<attempts, results, phase, selected, stopped, calls>>

(* The head of the loop: get_job decides how the job will be claimed. *)
Look(p, i) ==
    /\ At(p, i, "look")
    /\ LET job == jobs[task[p][i].job] IN
       IF p \in stopped THEN Raise(p, i)
       ELSE GotoWith(p, i, "claim",
                IF job.state = "unknown" /\ Recoverable THEN "recover" ELSE "claim")
    /\ UNCHANGED <<db, phase, selected, stopped, calls>>

Claimable(j) ==
    jobs[j].state \in {"pending", "retry_wait"} /\ jobs[j].due /\ jobs[j].count < MaxAttempts

Leased(j, p) ==
    jobs' = [jobs EXCEPT ![j] = [@ EXCEPT !.state = "running", !.token = p, !.live = TRUE]]

Claim(p, i) ==
    /\ At(p, i, "claim") /\ task[p][i].verdict = "claim"
    /\ LET j == task[p][i].job IN
       IF Claimable(j) THEN Leased(j, p) /\ GotoWith(p, i, "begin", "none")
                       ELSE UNCHANGED jobs /\ GotoWith(p, i, "missed", "none")
    /\ UNCHANGED <<attempts, results, phase, selected, stopped, calls>>

ResumableWithoutRequest(j) == jobs[j].state = "unknown" /\ jobs[j].count # 0

(* claim_recovery: only when the LAST attempt has a saved request ID. *)
Resumable(j) ==
    /\ jobs[j].state = "unknown"
    /\ jobs[j].count # 0
    /\ attempts[j][jobs[j].count].request

ClaimRecovery(p, i) ==
    /\ At(p, i, "claim") /\ task[p][i].verdict = "recover"
    /\ LET j == task[p][i].job IN
       IF Resumable(j)
       THEN /\ Leased(j, p)
            /\ task' = [task EXCEPT ![p][i] =
                  [@ EXCEPT !.pc = "poll", !.verdict = "none", !.attempt = jobs[j].count]]
       ELSE UNCHANGED jobs /\ GotoWith(p, i, "missed", "none")
    /\ UNCHANGED <<attempts, results, phase, selected, stopped, calls>>

(* Nothing claimed: reuse a job another process finished, else raise the    *)
(* job's last error, or its bare state when it has none.                    *)
NotClaimed(p, i) ==
    /\ At(p, i, "missed")
    /\ LET j == task[p][i].job IN
       IF jobs[j].state \in Finished THEN Reuse(p, i, j)
       ELSE IF ~jobs[j].erred /\ jobs[j].state \in {"running", "pending", "retry_wait"}
            THEN GotoWith(p, i, "publish", "live")
            ELSE Raise(p, i)
    /\ UNCHANGED <<db, phase, selected, stopped, calls>>

Owns(p, j) == jobs[j].state = "running" /\ jobs[j].token = p

(* begin_attempt: the durable intent.  Outside the try, so a lost lease     *)
(* leaves the job as it is and fails the input.                             *)
BeginAttempt(p, i) ==
    /\ At(p, i, "begin")
    /\ LET j == task[p][i].job
           n == jobs[j].count + 1 IN
       IF Owns(p, j) /\ jobs[j].live /\ jobs[j].count < MaxAttempts
       THEN /\ jobs' = [jobs EXCEPT ![j] = [@ EXCEPT !.count = n]]
            /\ attempts' = [attempts EXCEPT ![j][n] = [status |-> "running", request |-> FALSE]]
            /\ task' = [task EXCEPT ![p][i] = [@ EXCEPT !.pc = "ready", !.attempt = n]]
       ELSE Raise(p, i) /\ UNCHANGED <<jobs, attempts>>
    /\ UNCHANGED <<results, phase, selected, stopped, calls>>

(* The request artifact could not be stored: nothing was submitted, and the *)
(* storage error is classified like any other.                              *)
RequestNotStored(p, i) ==
    /\ At(p, i, "ready")
    /\ \E class \in {"retry", "definite", "unknown"} : GotoWith(p, i, "failing", class)
    /\ UNCHANGED <<db, phase, selected, stopped, calls>>

(* The request leaves for the provider: from here on it may be billed. *)
Send(p, i) ==
    /\ At(p, i, "ready")
    /\ calls' = [calls EXCEPT ![task[p][i].job][task[p][i].attempt] = "open"]
    /\ Goto(p, i, "sent")
    /\ UNCHANGED <<db, phase, selected, stopped>>

(* The provider refuses: 429 and 5xx are retryable, 401 and 403 also stop   *)
(* the queue of this process, anything else is final.                       *)
Refused(p, i) ==
    /\ At(p, i, "sent")
    /\ \/ \E class \in {"retry", "definite"} : GotoWith(p, i, "failing", class) /\ UNCHANGED stopped
       \/ GotoWith(p, i, "failing", "definite") /\ stopped' = stopped \cup {p}
    /\ UNCHANGED <<db, phase, selected, calls>>

(* Read or write timeout, broken connection, wait_for timeout, or an answer *)
(* whose raw bytes could not be stored.                                     *)
Unclear(p, i) ==
    /\ At(p, i, "sent")
    /\ GotoWith(p, i, "failing", "unknown")
    /\ UNCHANGED <<db, phase, selected, stopped, calls>>

(* Only an interpretation can come back needing review. *)
Answered(p, i) ==
    /\ At(p, i, "sent")
    /\ \/ GotoWith(p, i, "received", "completed")
       \/ ~Recoverable /\ GotoWith(p, i, "received", "needs_review")
    /\ UNCHANGED <<db, phase, selected, stopped, calls>>

(* interpret() has the provider's answer, and storing its native form       *)
(* raises a storage error before the operation returns.                     *)
AnswerDropped(p, i) ==
    /\ ~Recoverable
    /\ At(p, i, "sent")
    /\ calls' = [calls EXCEPT ![task[p][i].job][task[p][i].attempt] = "dropped"]
    /\ \E class \in {"retry", "definite", "unknown"} : GotoWith(p, i, "failing", class)
    /\ UNCHANGED <<db, phase, selected, stopped>>

(* save_request_id of ocr_call: the write is not guarded by the lease. *)
RequestSaved(j, n) == [attempts EXCEPT ![j][n] = [@ EXCEPT !.request = TRUE]]

(* FalOCR.run, when fal queued the request: its ID is saved, then polled.   *)
(* When that fails the ID is already on the attempt in memory, which makes  *)
(* the outcome unknown.                                                     *)
Queued(p, i) ==
    /\ Recoverable
    /\ At(p, i, "sent")
    /\ LET j == task[p][i].job
           n == task[p][i].attempt IN
       \/ attempts' = RequestSaved(j, n) /\ Goto(p, i, "poll")
       \/ UNCHANGED attempts /\ GotoWith(p, i, "failing", "unknown")
    /\ UNCHANGED <<jobs, results, phase, selected, stopped, calls>>

(* FalOCR.resume: a result, a definite provider failure, or anything else,  *)
(* which leaves the outcome of a request with an ID unknown.                *)
Polled(p, i) ==
    /\ At(p, i, "poll")
    /\ \/ GotoWith(p, i, "received", "completed") /\ UNCHANGED stopped
       \/ GotoWith(p, i, "failing", "definite") /\ UNCHANGED stopped
       \/ GotoWith(p, i, "failing", "unknown") /\ stopped' \in {stopped, stopped \cup {p}}
    /\ UNCHANGED <<db, phase, selected, calls>>

ArtifactErrorIgnored(p, i) ==
    /\ At(p, i, "received")
    /\ Goto(p, i, "publish")
    /\ UNCHANGED <<db, phase, selected, stopped, calls>>

(* An answer in hand whose artifact or metadata cannot be stored. *)
ArtifactNotStored(p, i) ==
    /\ At(p, i, "received")
    /\ GotoWith(p, i, "failing", "unknown")
    /\ UNCHANGED <<db, phase, selected, stopped, calls>>

(* complete: the lease must be ours and unexpired.  It settles running      *)
(* attempts, and a recovered last attempt that was left unknown.            *)
Completed(j, status) ==
    [n \in AttemptIds |->
        IF \/ attempts[j][n].status = "running"
           \/ attempts[j][n].status = "unknown" /\ n = jobs[j].count
        THEN [attempts[j][n] EXCEPT !.status = status] ELSE attempts[j][n]]

Complete(p, i) ==
    /\ At(p, i, "received")
    /\ LET j == task[p][i].job
           status == IF task[p][i].verdict = "completed" THEN "succeeded" ELSE "needs_review" IN
       IF Owns(p, j) /\ jobs[j].live
       THEN /\ jobs' = [jobs EXCEPT ![j] = [@ EXCEPT !.state = status, !.token = None,
                                                   !.live = FALSE, !.erred = FALSE]]
            /\ attempts' = [attempts EXCEPT ![j] = Completed(j, status)]
            /\ calls' = [calls EXCEPT ![j][task[p][i].attempt] = "settled"]
            /\ Goto(p, i, "publish")
       ELSE GotoWith(p, i, "failing", "unknown") /\ UNCHANGED <<jobs, attempts, calls>>
    /\ UNCHANGED <<results, phase, selected, stopped>>

FailedWithoutUnknown(j, class) ==
    IF class = "retry" /\ jobs[j].count < MaxAttempts THEN "retry_wait" ELSE "failed"

(* fail: the token must be ours, expired or not.  PermissionError escapes   *)
(* to the input, whose outcome becomes failed.                              *)
FailedState(j, class) ==
    IF class = "unknown" THEN "unknown"
    ELSE IF class = "retry" /\ jobs[j].count < MaxAttempts THEN "retry_wait" ELSE "failed"

Settle(j, n, class) ==
    IF class # "unknown" /\ calls[j][n] = "open" THEN "settled" ELSE calls[j][n]

Fail(p, i) ==
    /\ At(p, i, "failing")
    /\ LET j == task[p][i].job
           n == task[p][i].attempt
           class == task[p][i].verdict
           state == FailedState(j, class) IN
       IF Owns(p, j)
       THEN /\ jobs' = [jobs EXCEPT ![j] = [@ EXCEPT !.state = state, !.token = None, !.live = FALSE,
                                        !.erred = TRUE, !.due = (state # "retry_wait")]]
            /\ attempts' = [attempts EXCEPT ![j] =
                  EndAttempts(j, IF class = "unknown" THEN "unknown" ELSE "failed")]
            /\ calls' = [calls EXCEPT ![j][n] = Settle(j, n, class)]
            /\ IF state = "retry_wait" THEN GotoWith(p, i, "sleep", "none") ELSE Raise(p, i)
       ELSE Raise(p, i) /\ UNCHANGED <<jobs, attempts, calls>>
    /\ UNCHANGED <<results, phase, selected, stopped>>

WakeWhenDue(p, i) ==
    /\ At(p, i, "sleep")
    /\ jobs[task[p][i].job].state = "retry_wait" /\ jobs[task[p][i].job].due
    /\ Goto(p, i, "look")
    /\ UNCHANGED <<db, phase, selected, stopped, calls>>

(* asyncio.sleep covers the delay written to next_attempt_at. *)
Wake(p, i) ==
    /\ At(p, i, "sleep")
    /\ LET job == jobs[task[p][i].job] IN
       job.state = "retry_wait" /\ job.count = task[p][i].attempt => job.due
    /\ Goto(p, i, "look")
    /\ UNCHANGED <<db, phase, selected, stopped, calls>>

(* set_result is an upsert, whatever the row said. *)
SetResult(i, status) == [results EXCEPT ![i] = status]

(* The end of _process_input: a job that runs elsewhere leaves the result   *)
(* alone, everything else overwrites it.                                    *)
Publish(p, i) ==
    /\ At(p, i, "publish")
    /\ results' = IF task[p][i].verdict = "live" THEN results
                  ELSE SetResult(i, task[p][i].verdict)
    /\ task' = [task EXCEPT ![p][i] = NewTask("done")]
    /\ UNCHANGED <<jobs, attempts, phase, selected, stopped, calls>>

-----------------------------------------------------------------------------
(* The clock of the database *)

LeaseExpires(j) ==
    /\ jobs[j].state = "running" /\ jobs[j].live
    /\ jobs' = [jobs EXCEPT ![j] = [@ EXCEPT !.live = FALSE]]
    /\ UNCHANGED <<attempts, results, phase, selected, stopped, task, calls>>

BackoffElapses(j) ==
    /\ jobs[j].state = "retry_wait" /\ ~jobs[j].due
    /\ jobs' = [jobs EXCEPT ![j] = [@ EXCEPT !.due = TRUE]]
    /\ UNCHANGED <<attempts, results, phase, selected, stopped, task, calls>>

-----------------------------------------------------------------------------
Command(p) == Reconcile(p) \/ Resume(p) \/ RetrySelect(p) \/ RetryInsert(p) \/ Finish(p) \/ Crash(p)

Step(p, i) ==
    \/ EnsureExisting(p, i) \/ EnsureNew(p, i) \/ Look(p, i)
    \/ Claim(p, i) \/ ClaimRecovery(p, i) \/ NotClaimed(p, i) \/ BeginAttempt(p, i)
    \/ RequestNotStored(p, i) \/ Send(p, i)
    \/ Refused(p, i) \/ Unclear(p, i) \/ Answered(p, i) \/ AnswerDropped(p, i)
    \/ Queued(p, i) \/ Polled(p, i)
    \/ ArtifactNotStored(p, i) \/ Complete(p, i) \/ Fail(p, i) \/ Wake(p, i) \/ Publish(p, i)

Clock(j) == LeaseExpires(j) \/ BackoffElapses(j)

Next ==
    \/ \E p \in Procs : Command(p) \/ \E i \in Items : Step(p, i)
    \/ \E j \in JobIds : Clock(j)

Spec == Init /\ [][Next]_vars

(* An await of the pipeline is bounded (wait_for, asyncio.sleep) and the    *)
(* event loop keeps running a coroutine that can go on.                     *)
FairSpec ==
    /\ Spec
    /\ \A p \in Procs, i \in Items : WF_vars(Step(p, i))
    /\ \A j \in JobIds : WF_vars(BackoffElapses(j))
-----------------------------------------------------------------------------
(* Correctness *)

Open(j, n) == calls[j][n] = "open"

(* No paid call is repeated behind the operator's back: while the outcome   *)
(* of a call is not known, its job makes no further attempt, and a          *)
(* generation derived from its job exists only with --include-unknown       *)
(* (reconcile_expired: "never silently resubmit an external call").         *)
NoSilentResubmission ==
    \A j \in JobIds, n \in AttemptIds :
        Open(j, n) => /\ n = jobs[j].count
                      /\ \A k \in JobIds : jobs[k].parent = j => jobs[k].consent

(* A call whose outcome is not known always shows in the jobs table: its    *)
(* job is running or unknown, never pending, in backoff, failed or finished,*)
(* whatever crashed in between.                                             *)
OutstandingIsVisible ==
    \A j \in JobIds, n \in AttemptIds :
        Open(j, n) => jobs[j].state \in {"running", "unknown"}

(* An attempt is shown as running only while its job is, and only the last  *)
(* one: expiry, failure and completion all close what they leave behind.    *)
RunningAttemptIsCurrent ==
    \A j \in JobIds, n \in AttemptIds :
        attempts[j][n].status = "running" => jobs[j].state = "running" /\ n = jobs[j].count

(* A finished job agrees with the last attempt it shows, a recovered one    *)
(* included, and that attempt's call is settled.                            *)
FinishedOwesNothing ==
    \A j \in JobIds : jobs[j].state \in Finished =>
        \E n \in AttemptIds : /\ n = jobs[j].count
                              /\ attempts[j][n].status = jobs[j].state
                              /\ calls[j][n] = "settled"

(* A job waiting to be tried again can be claimed: claim asks for           *)
(* attempt_count < max_attempts, so a job parked without budget would wait  *)
(* for ever.                                                                *)
BackoffHasBudget ==
    \A j \in JobIds : jobs[j].state \in {"pending", "retry_wait"} => jobs[j].count < MaxAttempts

(* What the two tables show agrees with each other and with what was sent,  *)
(* row by row, whoever expired, failed or recovered the job.                *)
TablesAgree == RunningAttemptIsCurrent /\ FinishedOwesNothing /\ BackoffHasBudget

(* An input is reported completed only on the strength of a job that        *)
(* succeeded: neither a lost lease nor another process's failure makes a    *)
(* success out of nothing.                                                  *)
CompletedIsBacked ==
    \A i \in Items : results[i] = "completed" =>
        \E j \in JobsOf(i) : jobs[j].state = "succeeded"

(* A finished job is never touched again: no late worker, expired lease or  *)
(* retry reopens it or changes its verdict.                                 *)
FinishedStays == \A j \in JobIds : jobs[j].state \in Finished => jobs'[j].state = jobs[j].state

FinishedIsFinal == [][FinishedStays]_jobs

(* Every input a process takes up gets its outcome, or the process ends:    *)
(* no lost lease, backoff or competing process leaves a coroutine waiting.  *)
EveryInputEnds ==
    \A p \in Procs, i \in Items :
        task[p][i].pc = "ensure" ~> task[p][i].pc \in {"done", "idle"}

(* A completed result is not overwritten ("Do not overwrite previous        *)
(* attempts, results, or accepted run configurations").                     *)
CompletedResultKept ==
    [][\A i \in Items : results[i] = "completed" => results'[i] = "completed"]_results

(* A call the provider answered is not made again by the same job: a second *)
(* billable call takes an explicit retry.                                   *)
AnswerNotPaidTwice ==
    \A j \in JobIds, n \in AttemptIds :
        calls[j][n] = "dropped" => \A m \in AttemptIds : m > n => calls[j][m] = "none"

-----------------------------------------------------------------------------
(* The queue implements PaidWork. *)

Verdict(j) ==
    IF jobs[j].state = "absent" THEN "none"
    ELSE IF jobs[j].state \in {"pending", "running", "retry_wait"} THEN "open"
    ELSE IF jobs[j].state \in Finished THEN "accepted"
    ELSE IF jobs[j].state = "failed" THEN "refused" ELSE "unresolved"

Paid == INSTANCE PaidWork WITH
            Work <- JobIds,
            verdict <- [j \in JobIds |-> Verdict(j)],
            debt <- [j \in JobIds |-> \E n \in AttemptIds : Open(j, n)],
            origin <- [j \in JobIds |-> jobs[j].parent],
            consent <- [j \in JobIds |-> jobs[j].consent]

(* The jobs table with its leases, attempts, crashes and retries keeps the  *)
(* promises of PaidWork about billable work.                                *)
ImplementsPaidWork == Paid!Spec

-----------------------------------------------------------------------------
(* Why NoSilentResubmission holds: an inductive invariant. *)

Engaged == Locations \ {"idle", "ensure", "publish", "done"}
Attempting == {"ready", "sent", "poll", "received", "failing"}

(* What a coroutine knows: the job of its own input, the attempt it made,   *)
(* and an outcome by the time it publishes.                                 *)
TaskOK ==
    \A p \in Procs, i \in Items :
        LET t == task[p][i] IN
        /\ t.pc \in Engaged => t.job # None
        /\ t.job # None => jobs[t.job].item = i /\ jobs[t.job].state # "absent"
        /\ t.pc \in Attempting => t.attempt # 0
        /\ t.pc = "received" => t.verdict \in {"completed", "needs_review"}
        /\ t.pc = "publish" => t.verdict \in {"completed", "needs_review", "failed", "live"}

(* A row that was not inserted is blank, and only attempts that were        *)
(* recorded have made a call.                                               *)
RowsOK ==
    \A j \in JobIds :
        /\ jobs[j].state = "absent" => jobs[j].item = None /\ jobs[j].count = 0
        /\ \A n \in AttemptIds : n > jobs[j].count => calls[j][n] = "none"

(* A retry statement in flight will insert rows nobody else uses, derived   *)
(* from jobs that are final or whose repetition the operator accepted.      *)
SelectedOK ==
    \A p \in Procs, k \in JobIds : selected[p][k] # None =>
        /\ jobs[k].state = "absent"
        /\ \A q \in Procs \ {p} : selected[q][k] = None
        /\ phase[p] = "retry_unknown" \/ jobs[selected[p][k]].state \in {"failed", "needs_review"}

DerivedOK ==
    \A j, k \in JobIds : jobs[k].parent = j =>
        jobs[k].consent \/ jobs[j].state \in {"failed", "needs_review"}

(* The owner of a lease that has yet to begin its attempt owes nothing, and *)
(* one that has works on the last attempt.                                  *)
OwnerOK ==
    \A p \in Procs, i \in Items :
        LET t == task[p][i] IN
        t.job # None /\ Owns(p, t.job) =>
            /\ t.pc = "begin" => \A n \in AttemptIds : ~Open(t.job, n)
            /\ t.pc \in Attempting => t.attempt = jobs[t.job].count

(* An attempt about to make its call is the last one of its job, has no     *)
(* request ID, and so cannot be recovered: its job stays where it is or     *)
(* becomes unknown, and no other coroutine can be about to make that call.  *)
ReadyOK ==
    \A p \in Procs, i \in Items :
        LET t == task[p][i] IN
        t.pc = "ready" =>
            /\ t.attempt = jobs[t.job].count
            /\ ~attempts[t.job][t.attempt].request
            /\ calls[t.job][t.attempt] = "none"
            /\ \A n \in AttemptIds : ~Open(t.job, n)
            /\ jobs[t.job].state = "unknown" \/ Owns(p, t.job)
            /\ \A q \in Procs \ {p} : task[q][i].pc = "ready" => task[q][i].job # t.job

SentOK ==
    \A p \in Procs, i \in Items :
        LET t == task[p][i] IN t.pc = "sent" => calls[t.job][t.attempt] # "none"

OpenOK ==
    \A j \in JobIds, n \in AttemptIds :
        Open(j, n) => n = jobs[j].count /\ jobs[j].state \in {"running", "unknown"}

QueueInv ==
    /\ TypeOK /\ TaskOK /\ RowsOK /\ SelectedOK /\ DerivedOK
    /\ OwnerOK /\ ReadyOK /\ SentOK /\ OpenOK
=============================================================================
