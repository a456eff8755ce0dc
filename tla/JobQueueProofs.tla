--------------------------- MODULE JobQueueProofs ---------------------------
(***************************************************************************)
(* Proofs about the job queue, for any number of processes, inputs,        *)
(* attempts and generations: who may write a job, that its tables agree    *)
(* with each other and with what was reported, and that the queue          *)
(* implements PaidWork.                                                    *)
(***************************************************************************)
EXTENDS JobQueue, TLAPS

-----------------------------------------------------------------------------
(* Coroutines stay well formed *)

TaskFunctions == [Procs -> [Items -> TaskType]]

LEMMA NewTaskType ==
    ASSUME NEW pc \in Locations
    PROVE  NewTask(pc) \in TaskType
BY ConstantsAssumption DEF NewTask, TaskType, Verdicts

LEMMA GotoType ==
    ASSUME TypeOK, NEW p \in Procs, NEW i \in Items, NEW pc \in Locations, Goto(p, i, pc)
    PROVE  task' \in TaskFunctions
<1>1. task[p][i] \in TaskType
  BY DEF TypeOK
<1>2. [task[p][i] EXCEPT !.pc = pc] \in TaskType
  BY <1>1 DEF TaskType
<1> QED BY <1>1, <1>2 DEF Goto, TypeOK, TaskFunctions

LEMMA GotoWithType ==
    ASSUME TypeOK, NEW p \in Procs, NEW i \in Items, NEW pc \in Locations, NEW v \in Verdicts,
           GotoWith(p, i, pc, v)
    PROVE  task' \in TaskFunctions
<1>1. task[p][i] \in TaskType
  BY DEF TypeOK
<1>2. [task[p][i] EXCEPT !.pc = pc, !.verdict = v] \in TaskType
  BY <1>1 DEF TaskType
<1> QED BY <1>1, <1>2 DEF GotoWith, TypeOK, TaskFunctions

LEMMA AdoptType ==
    ASSUME TypeOK, NEW p \in Procs, NEW i \in Items, NEW j \in JobIds, NEW s, Adopt(p, i, j, s)
    PROVE  task' \in TaskFunctions
<1> DEFINE pc == IF s \in Finished \/ p \in stopped THEN "publish" ELSE "look"
           v == IF s = "succeeded" THEN "completed"
                ELSE IF s = "needs_review" THEN "needs_review"
                ELSE IF p \in stopped THEN "failed" ELSE "none"
<1>1. task[p][i] \in TaskType
  BY DEF TypeOK
<1>2. pc \in Locations /\ v \in Verdicts
  BY DEF Locations, Suspended, Verdicts
<1>3. task' = [task EXCEPT ![p][i] = [@ EXCEPT !.job = j, !.pc = pc, !.verdict = v]]
  BY DEF Adopt
<1> HIDE DEF pc, v
<1>4. [task[p][i] EXCEPT !.job = j, !.pc = pc, !.verdict = v] \in TaskType
  BY <1>1, <1>2 DEF TaskType
<1> QED BY <1>3, <1>4 DEF TypeOK, TaskFunctions

(* A coroutine that goes to a known place with a known verdict. *)
LEMMA RaiseType ==
    ASSUME TypeOK, NEW p \in Procs, NEW i \in Items, Raise(p, i)
    PROVE  task' \in TaskFunctions
<1>1. "publish" \in Locations /\ "failed" \in Verdicts
  BY DEF Locations, Verdicts
<1> QED BY <1>1, GotoWithType DEF Raise

LEMMA TaskNext ==
    ASSUME TypeOK, TaskOK, NEW p \in Procs, NEW i \in Items, Step(p, i)
    PROVE  task' \in TaskFunctions
<1>1. /\ "publish" \in Locations /\ "claim" \in Locations /\ "begin" \in Locations
      /\ "missed" \in Locations /\ "failing" \in Locations /\ "received" \in Locations
      /\ "sent" \in Locations /\ "poll" \in Locations /\ "ready" \in Locations
      /\ "sleep" \in Locations /\ "look" \in Locations /\ "done" \in Locations
  BY DEF Locations, Suspended
<1>2. /\ "none" \in Verdicts /\ "claim" \in Verdicts /\ "recover" \in Verdicts
      /\ "retry" \in Verdicts /\ "definite" \in Verdicts /\ "unknown" \in Verdicts
      /\ "completed" \in Verdicts /\ "needs_review" \in Verdicts /\ "live" \in Verdicts
  BY DEF Verdicts
<1>3. task \in TaskFunctions /\ task[p][i] \in TaskType
  BY DEF TypeOK, TaskFunctions
<1>4. CASE EnsureExisting(p, i)
  BY <1>4, AdoptType DEF EnsureExisting
<1>5. CASE EnsureNew(p, i)
  BY <1>5, AdoptType DEF EnsureNew
<1>6. CASE Look(p, i)
  BY <1>6, <1>1, <1>2, RaiseType, GotoWithType DEF Look
<1>7. CASE Claim(p, i)
  BY <1>7, <1>1, <1>2, GotoWithType DEF Claim
<1>8. CASE ClaimRecovery(p, i)
  <2>1. task[p][i].pc \in Engaged
    BY <1>8 DEF ClaimRecovery, At, Engaged, Locations
  <2>2. task[p][i].job \in JobIds
    BY <2>1, <1>3 DEF TaskOK, TaskType
  <2>3. jobs[task[p][i].job].count \in 0..MaxAttempts
    BY <2>2 DEF TypeOK, JobType
  <2>4. [task[p][i] EXCEPT !.pc = "poll", !.verdict = "none",
                           !.attempt = jobs[task[p][i].job].count] \in TaskType
    BY <1>1, <1>2, <1>3, <2>3 DEF TaskType
  <2>5. CASE Resumable(task[p][i].job)
    BY <1>8, <2>4, <2>5, <1>3 DEF ClaimRecovery, TaskFunctions
  <2> QED BY <1>8, <1>1, <1>2, <2>5, GotoWithType DEF ClaimRecovery
<1>9. CASE NotClaimed(p, i)
  BY <1>9, <1>1, <1>2, RaiseType, GotoWithType DEF NotClaimed, Reuse
<1>10. CASE BeginAttempt(p, i)
  <2> DEFINE n == jobs[task[p][i].job].count + 1
  <2>1. CASE Raise(p, i)
    BY <2>1, RaiseType
  <2>2. CASE /\ task' = [task EXCEPT ![p][i] = [@ EXCEPT !.pc = "ready", !.attempt = n]]
             /\ jobs[task[p][i].job].count < MaxAttempts
    <3>1. task[p][i].pc \in Engaged
      BY <1>10 DEF BeginAttempt, At, Engaged, Locations
    <3>2. task[p][i].job \in JobIds
      BY <3>1, <1>3 DEF TaskOK, TaskType
    <3>3. n \in 0..MaxAttempts
      BY <3>2, <2>2, ConstantsAssumption DEF TypeOK, JobType
    <3> HIDE DEF n
    <3>4. [task[p][i] EXCEPT !.pc = "ready", !.attempt = n] \in TaskType
      BY <1>1, <1>3, <3>3 DEF TaskType
    <3> QED BY <2>2, <3>4, <1>3 DEF TaskFunctions
  <2> QED BY <1>10, <2>1, <2>2 DEF BeginAttempt
<1>11. CASE RequestNotStored(p, i)
  BY <1>11, <1>1, <1>2, GotoWithType DEF RequestNotStored
<1>12. CASE Send(p, i)
  BY <1>12, <1>1, GotoType DEF Send
<1>13. CASE Refused(p, i)
  BY <1>13, <1>1, <1>2, GotoWithType DEF Refused
<1>14. CASE Unclear(p, i)
  BY <1>14, <1>1, <1>2, GotoWithType DEF Unclear
<1>15. CASE Answered(p, i)
  BY <1>15, <1>1, <1>2, GotoWithType DEF Answered
<1>16. CASE AnswerDropped(p, i)
  BY <1>16, <1>1, <1>2, GotoWithType DEF AnswerDropped
<1>17. CASE Queued(p, i)
  BY <1>17, <1>1, <1>2, GotoType, GotoWithType DEF Queued, RequestSaved
<1>18. CASE Polled(p, i)
  BY <1>18, <1>1, <1>2, GotoWithType DEF Polled
<1>19. CASE ArtifactNotStored(p, i)
  BY <1>19, <1>1, <1>2, GotoWithType DEF ArtifactNotStored
<1>20. CASE Complete(p, i)
  BY <1>20, <1>1, <1>2, GotoType, GotoWithType DEF Complete
<1>21. CASE Fail(p, i)
  BY <1>21, <1>1, <1>2, RaiseType, GotoWithType DEF Fail
<1>22. CASE Wake(p, i)
  BY <1>22, <1>1, GotoType DEF Wake
<1>23. CASE Publish(p, i)
  BY <1>23, <1>1, <1>3, NewTaskType DEF Publish, SetResult, TaskFunctions
<1> QED BY <1>4, <1>5, <1>6, <1>7, <1>8, <1>9, <1>10, <1>11, <1>12, <1>13, <1>14, <1>15,
           <1>16, <1>17, <1>18, <1>19, <1>20, <1>21, <1>22, <1>23 DEF Step

-----------------------------------------------------------------------------
(* The tables stay well formed *)

JobFunctions == [JobIds -> JobType]
AttemptFunctions == [JobIds -> [AttemptIds -> AttemptType]]
CallFunctions == [JobIds -> [AttemptIds -> CallStates]]

LEMMA NewJobType ==
    ASSUME NEW i \in Items \cup {None}, NEW parent \in JobIds \cup {None}, NEW consent \in BOOLEAN
    PROVE  NewJob(i, parent, consent) \in JobType
<1>1. "pending" \in JobStates /\ "absent" \in JobStates
  BY DEF JobStates
<1>2. NoJob \in JobType
  BY <1>1, ConstantsAssumption DEF NoJob, JobType
<1> QED BY <1>1, <1>2 DEF NewJob, JobType

LEMMA EndAttemptsType ==
    ASSUME attempts \in AttemptFunctions, NEW j \in JobIds, NEW status \in AttemptStates
    PROVE  EndAttempts(j, status) \in [AttemptIds -> AttemptType]
<1>1. ASSUME NEW n \in AttemptIds
      PROVE  [attempts[j][n] EXCEPT !.status = status] \in AttemptType
  <2>1. attempts[j][n] \in AttemptType
    BY DEF AttemptFunctions
  <2> QED BY <2>1 DEF AttemptType
<1> QED BY <1>1 DEF EndAttempts, AttemptFunctions

LEMMA CompletedType ==
    ASSUME attempts \in AttemptFunctions, NEW j \in JobIds, NEW status \in AttemptStates
    PROVE  Completed(j, status) \in [AttemptIds -> AttemptType]
<1>1. ASSUME NEW n \in AttemptIds
      PROVE  [attempts[j][n] EXCEPT !.status = status] \in AttemptType
  <2>1. attempts[j][n] \in AttemptType
    BY DEF AttemptFunctions
  <2> QED BY <2>1 DEF AttemptType
<1> QED BY <1>1 DEF Completed, AttemptFunctions

LEMMA EngagedJob ==
    ASSUME TypeOK, TaskOK, NEW p \in Procs, NEW i \in Items, task[p][i].pc \in Engaged
    PROVE  task[p][i].job \in JobIds
BY DEF TypeOK, TaskOK, TaskType

LEMMA JobsNext ==
    ASSUME TypeOK, TaskOK, NEW p \in Procs, NEW i \in Items, Step(p, i)
    PROVE  jobs' \in JobFunctions
<1>1. jobs \in JobFunctions
  BY DEF TypeOK, JobFunctions
<1>2. /\ "running" \in JobStates /\ "unknown" \in JobStates /\ "failed" \in JobStates
      /\ "retry_wait" \in JobStates /\ "succeeded" \in JobStates /\ "needs_review" \in JobStates
  BY DEF JobStates, Finished
<1>3. CASE UNCHANGED jobs
  BY <1>1, <1>3
<1>4. CASE \E j \in JobIds : jobs' = [jobs EXCEPT ![j] = NewJob(i, None, FALSE)]
  <2>1. NewJob(i, None, FALSE) \in JobType
    BY NewJobType
  <2> QED BY <1>1, <1>4, <2>1 DEF JobFunctions
<1>5. CASE \E j \in JobIds : Leased(j, p)
  <2>1. PICK j \in JobIds : Leased(j, p)
    BY <1>5
  <2>2. [jobs[j] EXCEPT !.state = "running", !.token = p, !.live = TRUE] \in JobType
    BY <1>1, <1>2 DEF JobFunctions, JobType
  <2> QED BY <1>1, <2>1, <2>2 DEF Leased, JobFunctions
<1>6. CASE BeginAttempt(p, i)
  <2> DEFINE j == task[p][i].job
             n == jobs[j].count + 1
  <2>1. task[p][i].pc \in Engaged
    BY <1>6 DEF BeginAttempt, At, Engaged, Locations
  <2>2. j \in JobIds
    BY <2>1, EngagedJob
  <2>3. CASE jobs[j].count < MaxAttempts /\ jobs' = [jobs EXCEPT ![j] = [@ EXCEPT !.count = n]]
    <3>1. n \in 0..MaxAttempts
      BY <1>1, <2>2, <2>3, ConstantsAssumption DEF JobFunctions, JobType
    <3> HIDE DEF n
    <3>2. [jobs[j] EXCEPT !.count = n] \in JobType
      BY <1>1, <2>2, <3>1 DEF JobFunctions, JobType
    <3> QED BY <1>1, <2>2, <2>3, <3>2 DEF JobFunctions
  <2> QED BY <1>3, <1>6, <2>3 DEF BeginAttempt
<1>7. CASE Complete(p, i)
  <2> DEFINE j == task[p][i].job
             status == IF task[p][i].verdict = "completed" THEN "succeeded" ELSE "needs_review"
  <2>1. task[p][i].pc \in Engaged
    BY <1>7 DEF Complete, At, Engaged, Locations
  <2>2. j \in JobIds
    BY <2>1, EngagedJob
  <2>3. CASE jobs' = [jobs EXCEPT ![j] = [@ EXCEPT !.state = status, !.token = None,
                                                   !.live = FALSE, !.erred = FALSE]]
    <3>1. status \in JobStates
      BY <1>2
    <3> HIDE DEF status
    <3>2. jobs[j] \in JobType
      BY <1>1, <2>2 DEF JobFunctions
    <3> HIDE DEF j
    <3>3. [jobs[j] EXCEPT !.state = status, !.token = None, !.live = FALSE, !.erred = FALSE] \in JobType
      BY <3>1, <3>2 DEF JobType
    <3> QED BY <1>1, <2>2, <2>3, <3>3 DEF JobFunctions
  <2> QED BY <1>3, <1>7, <2>3 DEF Complete
<1>8. CASE Fail(p, i)
  <2> DEFINE j == task[p][i].job
             state == FailedState(j, task[p][i].verdict)
  <2>1. task[p][i].pc \in Engaged
    BY <1>8 DEF Fail, At, Engaged, Locations
  <2>2. j \in JobIds
    BY <2>1, EngagedJob
  <2>3. CASE jobs' = [jobs EXCEPT ![j] = [@ EXCEPT !.state = state, !.token = None, !.live = FALSE,
                                        !.erred = TRUE, !.due = (state # "retry_wait")]]
    <3>1. state \in JobStates
      BY <1>2 DEF FailedState
    <3> HIDE DEF state
    <3>2. jobs[j] \in JobType
      BY <1>1, <2>2 DEF JobFunctions
    <3> HIDE DEF j
    <3>3. [jobs[j] EXCEPT !.state = state, !.token = None, !.live = FALSE,
                          !.erred = TRUE, !.due = (state # "retry_wait")] \in JobType
      BY <3>1, <3>2 DEF JobType
    <3> QED BY <1>1, <2>2, <2>3, <3>3 DEF JobFunctions
  <2> QED BY <1>3, <1>8, <2>3 DEF Fail
<1>9. CASE Claim(p, i) \/ ClaimRecovery(p, i)
  <2>1. task[p][i].pc \in Engaged
    BY <1>9 DEF Claim, ClaimRecovery, At, Engaged, Locations
  <2>2. task[p][i].job \in JobIds
    BY <2>1, EngagedJob
  <2> QED BY <1>3, <1>5, <1>9, <2>2 DEF Claim, ClaimRecovery
<1>10. CASE EnsureNew(p, i)
  BY <1>4, <1>10 DEF EnsureNew
<1> QED BY <1>3, <1>6, <1>7, <1>8, <1>9, <1>10 DEF Step, EnsureExisting, Look, NotClaimed,
           RequestNotStored, Send, Refused, Unclear, Answered, AnswerDropped, Queued, Polled,
           ArtifactNotStored, Wake, Publish, db

LEMMA AttemptsNext ==
    ASSUME TypeOK, TaskOK, NEW p \in Procs, NEW i \in Items, Step(p, i)
    PROVE  attempts' \in AttemptFunctions
<1>1. attempts \in AttemptFunctions
  BY DEF TypeOK, AttemptFunctions
<1>2. CASE UNCHANGED attempts
  BY <1>1, <1>2
<1>3. CASE BeginAttempt(p, i)
  <2>1. [status |-> "running", request |-> FALSE] \in AttemptType
    BY DEF AttemptType, AttemptStates
  <2> QED BY <1>1, <1>2, <1>3, <2>1 DEF BeginAttempt, AttemptFunctions
<1>4. CASE Queued(p, i)
  <2>1. ASSUME NEW j \in JobIds, NEW n \in AttemptIds
        PROVE  [attempts[j][n] EXCEPT !.request = TRUE] \in AttemptType
    <3>1. attempts[j][n] \in AttemptType
      BY <1>1 DEF AttemptFunctions
    <3> QED BY <3>1 DEF AttemptType
  <2> DEFINE j == task[p][i].job
             n == task[p][i].attempt
  <2>2. CASE attempts' = [attempts EXCEPT ![j][n] = [@ EXCEPT !.request = TRUE]]
    <3> HIDE DEF j, n
    <3>1. CASE j \in JobIds /\ n \in AttemptIds
      BY <1>1, <2>1, <2>2, <3>1 DEF AttemptFunctions
    <3>2. CASE ~(j \in JobIds /\ n \in AttemptIds)
      BY <1>1, <2>2, <3>2 DEF AttemptFunctions
    <3> QED BY <3>1, <3>2
  <2> QED BY <1>2, <1>4, <2>2 DEF Queued, RequestSaved
<1>5. CASE Complete(p, i)
  <2>1. ASSUME NEW j \in JobIds, NEW status \in {"succeeded", "needs_review"}
        PROVE  Completed(j, status) \in [AttemptIds -> AttemptType]
    BY <1>1, CompletedType DEF AttemptStates, Finished
  <2> QED BY <1>1, <1>2, <1>5, <2>1 DEF Complete, AttemptFunctions
<1>6. CASE Fail(p, i)
  <2>1. ASSUME NEW j \in JobIds, NEW status \in {"unknown", "failed"}
        PROVE  EndAttempts(j, status) \in [AttemptIds -> AttemptType]
    BY <1>1, EndAttemptsType DEF AttemptStates
  <2> QED BY <1>1, <1>2, <1>6, <2>1 DEF Fail, AttemptFunctions
<1> QED BY <1>2, <1>3, <1>4, <1>5, <1>6 DEF Step, EnsureExisting, EnsureNew, Look, Claim,
           ClaimRecovery, NotClaimed, RequestNotStored, Send, Refused, Unclear, Answered,
           AnswerDropped, Polled, ArtifactNotStored, Wake, Publish, db

LEMMA CallsNext ==
    ASSUME TypeOK, NEW p \in Procs, NEW i \in Items, Step(p, i)
    PROVE  calls' \in CallFunctions
<1>1. calls \in CallFunctions
  BY DEF TypeOK, CallFunctions
<1>2. CASE UNCHANGED calls
  BY <1>1, <1>2
<1>3. ASSUME NEW j, NEW n, NEW c \in CallStates, calls' = [calls EXCEPT ![j][n] = c]
      PROVE  calls' \in CallFunctions
  <2>1. CASE j \in JobIds /\ n \in AttemptIds
    BY <1>1, <1>3, <2>1 DEF CallFunctions
  <2>2. CASE ~(j \in JobIds /\ n \in AttemptIds)
    BY <1>1, <1>3, <2>2 DEF CallFunctions
  <2> QED BY <2>1, <2>2
<1>4. "open" \in CallStates /\ "dropped" \in CallStates /\ "settled" \in CallStates
  BY DEF CallStates
<1>5. CASE Fail(p, i)
  <2> DEFINE j == task[p][i].job
             n == task[p][i].attempt
  <2>1. CASE calls' = [calls EXCEPT ![j][n] = Settle(j, n, task[p][i].verdict)]
    <3>1. CASE j \in JobIds /\ n \in AttemptIds
      <4>1. Settle(j, n, task[p][i].verdict) \in CallStates
        BY <1>1, <1>4, <3>1 DEF Settle, CallFunctions
      <4> QED BY <1>3, <2>1, <4>1
    <3>2. CASE ~(j \in JobIds /\ n \in AttemptIds)
      BY <1>1, <2>1, <3>2 DEF CallFunctions
    <3> QED BY <3>1, <3>2
  <2> QED BY <1>2, <1>5, <2>1 DEF Fail
<1>6. CASE Send(p, i)
  BY <1>3, <1>4, <1>6 DEF Send
<1>7. CASE AnswerDropped(p, i)
  BY <1>3, <1>4, <1>7 DEF AnswerDropped
<1>8. CASE Complete(p, i)
  <2>1. CASE calls' = [calls EXCEPT ![task[p][i].job][task[p][i].attempt] = "settled"]
    BY <1>3, <1>4, <2>1
  <2> QED BY <1>2, <1>8, <2>1 DEF Complete
<1> QED BY <1>2, <1>5, <1>6, <1>7, <1>8 DEF Step, EnsureExisting, EnsureNew, Look, Claim, ClaimRecovery,
           NotClaimed, BeginAttempt, RequestNotStored, Refused, Unclear, Answered, Queued, Polled,
           ArtifactNotStored, Wake, Publish


LEMMA StepType ==
    ASSUME TypeOK, TaskOK, NEW p \in Procs, NEW i \in Items, Step(p, i)
    PROVE  TypeOK'
<1>1. task' \in TaskFunctions /\ jobs' \in JobFunctions /\ attempts' \in AttemptFunctions
      /\ calls' \in CallFunctions
  BY TaskNext, JobsNext, AttemptsNext, CallsNext
<1>2. phase' = phase /\ selected' = selected
  BY DEF Step, EnsureExisting, EnsureNew, Look, Claim, ClaimRecovery, NotClaimed, BeginAttempt,
         RequestNotStored, Send, Refused, Unclear, Answered, AnswerDropped, Queued, Polled,
         ArtifactNotStored, Complete, Fail, Wake, Publish
<1>3. stopped' \in SUBSET Procs
  <2>1. stopped' \in {stopped, stopped \cup {p}}
    BY DEF Step, EnsureExisting, EnsureNew, Look, Claim, ClaimRecovery, NotClaimed, BeginAttempt,
           RequestNotStored, Send, Refused, Unclear, Answered, AnswerDropped, Queued, Polled,
           ArtifactNotStored, Complete, Fail, Wake, Publish
  <2> QED BY <2>1 DEF TypeOK
<1>4. results' \in [Items -> Finished \cup {"none", "completed", "failed"}]
  <2>1. CASE UNCHANGED results
    BY <2>1 DEF TypeOK
  <2>2. CASE Publish(p, i)
    <3>1. task[p][i].verdict \in {"completed", "needs_review", "failed", "live"}
      BY <2>2 DEF Publish, At, TaskOK
    <3> QED BY <2>2, <3>1 DEF Publish, SetResult, TypeOK, Finished
  <2> QED BY <2>1, <2>2 DEF Step, EnsureExisting, EnsureNew, Look, Claim, ClaimRecovery, NotClaimed,
         BeginAttempt, RequestNotStored, Send, Refused, Unclear, Answered, AnswerDropped, Queued,
         Polled, ArtifactNotStored, Complete, Fail, Wake, db
<1> QED BY <1>1, <1>2, <1>3, <1>4 DEF TypeOK, TaskFunctions, JobFunctions, AttemptFunctions, CallFunctions

LEMMA RestartType ==
    ASSUME TypeOK, NEW p \in Procs, NEW pc \in {"ensure", "idle"},
           task' = [task EXCEPT ![p] = [i \in Items |-> NewTask(pc)]]
    PROVE  task' \in TaskFunctions
<1>1. NewTask(pc) \in TaskType
  BY NewTaskType DEF Locations, Suspended
<1> QED BY <1>1 DEF TypeOK, TaskFunctions

LEMMA CommandType ==
    ASSUME TypeOK, NEW p \in Procs, Command(p)
    PROVE  TypeOK'
<1>1. \A ph \in Phases : [phase EXCEPT ![p] = ph] \in [Procs -> Phases]
  BY DEF TypeOK
<1>2. "off" \in Phases /\ "reconciled" \in Phases /\ "active" \in Phases /\ "retry" \in Phases
      /\ "retry_unknown" \in Phases
  BY DEF Phases
<1>3. CASE Reconcile(p)
  <2>1. "unknown" \in JobStates /\ "unknown" \in AttemptStates
    BY DEF JobStates, AttemptStates
  <2>2. ASSUME NEW j \in JobIds
        PROVE  [jobs[j] EXCEPT !.state = "unknown", !.token = None, !.erred = TRUE] \in JobType
    <3>1. jobs[j] \in JobType
      BY DEF TypeOK
    <3> QED BY <2>1, <3>1 DEF JobType
  <2>3. \A j \in JobIds : EndAttempts(j, "unknown") \in [AttemptIds -> AttemptType]
    BY <2>1, EndAttemptsType DEF TypeOK, AttemptFunctions
  <2>4. jobs' \in JobFunctions
    BY <1>3, <2>2 DEF Reconcile, Expire, TypeOK, JobFunctions
  <2>5. attempts' \in AttemptFunctions
    BY <1>3, <2>3 DEF Reconcile, TypeOK, AttemptFunctions
  <2> QED BY <1>1, <1>2, <1>3, <2>4, <2>5 DEF Reconcile, TypeOK, JobFunctions, AttemptFunctions
<1>4. CASE Resume(p)
  BY <1>1, <1>2, <1>4, RestartType DEF Resume, Start, TypeOK, TaskFunctions
<1>5. CASE RetrySelect(p)
  <2>1. selected' \in [Procs -> [JobIds -> JobIds \cup {None}]]
    BY <1>5 DEF RetrySelect, Retryable, TypeOK
  <2>2. phase' \in [Procs -> Phases]
    BY <1>1, <1>2, <1>5 DEF RetrySelect
  <2> QED BY <1>5, <2>1, <2>2 DEF RetrySelect, TypeOK
<1>6. CASE RetryInsert(p)
  <2>1. ASSUME NEW j \in JobIds, selected[p][j] # None
        PROVE  NewJob(jobs[selected[p][j]].item, selected[p][j], phase[p] = "retry_unknown") \in JobType
    <3>1. selected[p][j] \in JobIds
      BY <2>1 DEF TypeOK
    <3>2. jobs[selected[p][j]].item \in Items \cup {None}
      BY <3>1 DEF TypeOK, JobType
    <3> QED BY <3>1, <3>2, NewJobType
  <2>2. jobs' \in JobFunctions
    BY <1>6, <2>1 DEF RetryInsert, TypeOK, JobFunctions
  <2>3. selected' \in [Procs -> [JobIds -> JobIds \cup {None}]]
    BY <1>6 DEF RetryInsert, TypeOK
  <2>4. task' \in TaskFunctions /\ phase' \in [Procs -> Phases]
    BY <1>1, <1>2, <1>6, RestartType DEF RetryInsert, Start
  <2> QED BY <1>6, <2>2, <2>3, <2>4 DEF RetryInsert, TypeOK, JobFunctions, TaskFunctions
<1>7. CASE Finish(p)
  BY <1>1, <1>2, <1>7, RestartType DEF Finish, TypeOK, TaskFunctions
<1>8. CASE Crash(p)
  <2>1. selected' \in [Procs -> [JobIds -> JobIds \cup {None}]]
    BY <1>8 DEF Crash, TypeOK
  <2> QED BY <1>1, <1>2, <1>8, <2>1, RestartType DEF Crash, TypeOK, TaskFunctions
<1> QED BY <1>3, <1>4, <1>5, <1>6, <1>7, <1>8 DEF Command

LEMMA ClockType ==
    ASSUME TypeOK, NEW j \in JobIds, Clock(j)
    PROVE  TypeOK'
<1>1. [jobs[j] EXCEPT !.live = FALSE] \in JobType /\ [jobs[j] EXCEPT !.due = TRUE] \in JobType
  BY ZenonT(60) DEF TypeOK, JobType
<1>2. jobs' \in JobFunctions
  BY <1>1 DEF Clock, LeaseExpires, BackoffElapses, TypeOK, JobFunctions
<1> QED BY <1>2 DEF Clock, LeaseExpires, BackoffElapses, TypeOK, JobFunctions


-----------------------------------------------------------------------------
(* Steps that only move a coroutine *)

Others(p, i) ==
    \A q \in Procs, k \in Items : q # p \/ k # i => task'[q][k] = task[q][k]

(* The coroutine keeps its job and starts neither a claim nor a call. *)
Moves(p, i) ==
    /\ Others(p, i)
    /\ LET t == task[p][i]
           u == task'[p][i] IN
       /\ t.job # None /\ u.job = t.job
       /\ u.pc \notin {"begin", "ready", "sent"}
       /\ u.pc \in Attempting => t.pc \in Attempting /\ u.attempt = t.attempt
       /\ u.pc = "received" => u.verdict \in {"completed", "needs_review"}
       /\ u.pc = "publish" => u.verdict \in {"completed", "needs_review", "failed", "live"}

LEMMA GotoWithFrame ==
    ASSUME TypeOK, NEW p \in Procs, NEW i \in Items, NEW pc, NEW v, GotoWith(p, i, pc, v)
    PROVE  /\ Others(p, i)
           /\ task'[p][i].pc = pc /\ task'[p][i].verdict = v
           /\ task'[p][i].job = task[p][i].job
           /\ task'[p][i].attempt = task[p][i].attempt
BY DEF GotoWith, TypeOK, TaskType, Others

LEMMA GotoFrame ==
    ASSUME TypeOK, NEW p \in Procs, NEW i \in Items, NEW pc, Goto(p, i, pc)
    PROVE  /\ Others(p, i)
           /\ task'[p][i].pc = pc
           /\ task'[p][i].verdict = task[p][i].verdict
           /\ task'[p][i].job = task[p][i].job
           /\ task'[p][i].attempt = task[p][i].attempt
BY DEF Goto, TypeOK, TaskType, Others

LEMMA RaiseMoves ==
    ASSUME TypeOK, TaskOK, NEW p \in Procs, NEW i \in Items,
           task[p][i].pc \in Engaged, Raise(p, i)
    PROVE  Moves(p, i)
<1>1. /\ Others(p, i) /\ task'[p][i].pc = "publish" /\ task'[p][i].verdict = "failed"
      /\ task'[p][i].job = task[p][i].job
  BY GotoWithFrame DEF Raise
<1>2. task[p][i].job # None
  BY DEF TaskOK
<1> QED BY <1>1, <1>2 DEF Moves, Attempting

LEMMA FailingMoves ==
    ASSUME TypeOK, TaskOK, NEW p \in Procs, NEW i \in Items, NEW v,
           task[p][i].pc \in {"ready", "sent", "poll", "received"}, GotoWith(p, i, "failing", v)
    PROVE  Moves(p, i)
<1>1. /\ Others(p, i) /\ task'[p][i].pc = "failing" /\ task'[p][i].attempt = task[p][i].attempt
      /\ task'[p][i].job = task[p][i].job
  BY GotoWithFrame
<1>2. task[p][i].job # None
  BY DEF TaskOK, Engaged, Locations, Suspended
<1> QED BY <1>1, <1>2 DEF Moves, Attempting

LEMMA ReceivedMoves ==
    ASSUME TypeOK, TaskOK, NEW p \in Procs, NEW i \in Items, NEW v \in {"completed", "needs_review"},
           task[p][i].pc \in {"sent", "poll"}, GotoWith(p, i, "received", v)
    PROVE  Moves(p, i)
<1>1. /\ Others(p, i) /\ task'[p][i].pc = "received" /\ task'[p][i].attempt = task[p][i].attempt
      /\ task'[p][i].job = task[p][i].job /\ task'[p][i].verdict = v
  BY GotoWithFrame
<1>2. task[p][i].job # None
  BY DEF TaskOK, Engaged, Locations, Suspended
<1> QED BY <1>1, <1>2 DEF Moves, Attempting

(* Places where a coroutine neither attempts nor publishes. *)
LEMMA PlainMoves ==
    ASSUME TypeOK, TaskOK, NEW p \in Procs, NEW i \in Items, task[p][i].pc \in Engaged,
           \/ \E pc \in {"claim", "missed", "sleep"}, v \in Verdicts : GotoWith(p, i, pc, v)
           \/ Goto(p, i, "look")
    PROVE  Moves(p, i)
BY GotoWithFrame, GotoFrame DEF Moves, TaskOK, Attempting

(* A moved coroutine keeps what TaskOK says, if rows keep their inputs. *)
LEMMA MovesTask ==
    ASSUME TaskOK, NEW p \in Procs, NEW i \in Items, Moves(p, i),
           \A j \in JobIds : jobs[j].state # "absent" =>
                jobs'[j].item = jobs[j].item /\ jobs'[j].state # "absent",
           TypeOK
    PROVE  TaskOK'
<1> SUFFICES ASSUME NEW q \in Procs, NEW k \in Items
             PROVE  LET u == task'[q][k] IN
                    /\ u.pc \in Engaged => u.job # None
                    /\ u.job # None => jobs'[u.job].item = k /\ jobs'[u.job].state # "absent"
                    /\ u.pc \in Attempting => u.attempt # 0
                    /\ u.pc = "received" => u.verdict \in {"completed", "needs_review"}
                    /\ u.pc = "publish" => u.verdict \in {"completed", "needs_review", "failed", "live"}
  BY DEF TaskOK
<1>1. task[q][k].job # None => task[q][k].job \in JobIds
  BY DEF TypeOK, TaskType
<1>2. CASE q # p \/ k # i
  BY <1>1, <1>2 DEF TaskOK, Moves, Others
<1>3. CASE q = p /\ k = i
  BY <1>1, <1>3 DEF TaskOK, Moves
<1> QED BY <1>2, <1>3

(* What a move leaves of every coroutine. *)
LEMMA MovesStep ==
    ASSUME NEW p \in Procs, NEW i \in Items, Moves(p, i), NEW q \in Procs, NEW k \in Items
    PROVE  LET t == task[q][k]
               u == task'[q][k] IN
           /\ u.job = t.job
           /\ u.pc \in {"begin", "ready", "sent"} => u = t
           /\ u.pc \in Attempting => t.pc \in Attempting /\ u.attempt = t.attempt
<1>1. CASE q = p /\ k = i
  BY <1>1 DEF Moves
<1>2. CASE q # p \/ k # i
  BY <1>2 DEF Moves, Others
<1> QED BY <1>1, <1>2

LEMMA QuietInv ==
    ASSUME QueueInv, TypeOK', NEW p \in Procs, NEW i \in Items, Moves(p, i),
           UNCHANGED <<jobs, attempts, calls, phase, selected>>
    PROVE  QueueInv'
<1>1. TaskOK'
  BY MovesTask DEF QueueInv
<1>2. RowsOK' /\ SelectedOK' /\ DerivedOK' /\ OpenOK'
  BY DEF QueueInv, RowsOK, SelectedOK, DerivedOK, OpenOK, Open
<1>3. ASSUME NEW q \in Procs, NEW k \in Items
      PROVE  LET t == task[q][k]
                 u == task'[q][k] IN
             /\ u.job = t.job
             /\ u.pc \in {"begin", "ready", "sent"} => u = t
             /\ u.pc \in Attempting => t.pc \in Attempting /\ u.attempt = t.attempt
  BY MovesStep
<1>4. OwnerOK'
  BY <1>3 DEF QueueInv, OwnerOK, Owns, Open
<1>5. ReadyOK'
  BY <1>3 DEF QueueInv, ReadyOK, Owns, Open
<1>6. SentOK'
  BY <1>3 DEF QueueInv, SentOK
<1> QED BY <1>1, <1>2, <1>4, <1>5, <1>6 DEF QueueInv


(* Coroutines that start over, or adopt a job, without a claim. *)
Idles(q, k) ==
    LET u == task'[q][k] IN
    \/ u = task[q][k]
    \/ /\ u.pc \notin Attempting \cup {"begin"}
       /\ u.pc \in Engaged => u.job # None
       /\ u.job # None => jobs'[u.job].item = k /\ jobs'[u.job].state # "absent"
       /\ u.pc = "publish" => u.verdict \in {"completed", "needs_review", "failed", "live"}

LEMMA IdleInv ==
    ASSUME QueueInv, TypeOK', SelectedOK', UNCHANGED <<jobs, attempts, calls>>,
           \A q \in Procs, k \in Items : Idles(q, k)
    PROVE  QueueInv'
<1>1. RowsOK' /\ DerivedOK' /\ OpenOK'
  BY DEF QueueInv, RowsOK, DerivedOK, OpenOK, Open
<1>2. TaskOK'
  BY DEF QueueInv, TaskOK, Idles, Attempting
<1>3. ASSUME NEW q \in Procs, NEW k \in Items
      PROVE  task'[q][k].pc \in Attempting \cup {"begin"} => task'[q][k] = task[q][k]
  BY DEF Idles
<1>4. OwnerOK'
  BY <1>3 DEF QueueInv, OwnerOK, Owns, Open
<1>5. ReadyOK'
  BY <1>3 DEF QueueInv, ReadyOK, Owns, Open, Attempting
<1>6. SentOK'
  BY <1>3 DEF QueueInv, SentOK, Attempting
<1> QED BY <1>1, <1>2, <1>4, <1>5, <1>6 DEF QueueInv

LEMMA RestartIdles ==
    ASSUME TypeOK, NEW p \in Procs, NEW pc \in {"ensure", "idle"},
           task' = [task EXCEPT ![p] = [i \in Items |-> NewTask(pc)]]
    PROVE  \A q \in Procs, k \in Items : Idles(q, k)
BY DEF TypeOK, Idles, NewTask, Attempting, Engaged

LEMMA AdoptIdles ==
    ASSUME TypeOK, TypeOK', RowsOK, NEW p \in Procs, NEW i \in Items, NEW j \in JobIds, NEW s,
           Adopt(p, i, j, s), jobs'[j].item = i, jobs'[j].state # "absent"
    PROVE  \A q \in Procs, k \in Items : Idles(q, k)
<1>1. /\ Others(p, i)
      /\ task'[p][i].job = j
      /\ task'[p][i].pc \in {"publish", "look"}
      /\ task'[p][i].verdict \in {"completed", "needs_review", "failed", "none"}
      /\ task'[p][i].pc = "publish" => task'[p][i].verdict # "none"
  BY DEF Adopt, TypeOK, TaskType, Others, Finished
<1>2. j # None
  BY ConstantsAssumption DEF JobIds
<1> QED BY <1>1, <1>2 DEF Others, Idles, Attempting

LEMMA EnsureExistingInv ==
    ASSUME QueueInv, TypeOK', NEW p \in Procs, NEW i \in Items, EnsureExisting(p, i)
    PROVE  QueueInv'
<1>1. PICK j \in JobIds : Newest(j, i) /\ Adopt(p, i, j, jobs[j].state)
  BY DEF EnsureExisting
<1>2. UNCHANGED <<jobs, attempts, calls, phase, selected>>
  BY DEF EnsureExisting, db
<1>3. jobs'[j].item = i /\ jobs'[j].state # "absent"
  BY <1>1, <1>2, ConstantsAssumption DEF Newest, JobsOf, QueueInv, RowsOK
<1>4. \A q \in Procs, k \in Items : Idles(q, k)
  BY <1>1, <1>3, AdoptIdles DEF QueueInv
<1>5. SelectedOK'
  BY <1>2 DEF QueueInv, SelectedOK
<1> QED BY <1>2, <1>4, <1>5, IdleInv

LEMMA PublishInv ==
    ASSUME QueueInv, TypeOK', NEW p \in Procs, NEW i \in Items, Publish(p, i)
    PROVE  QueueInv'
<1>1. UNCHANGED <<jobs, attempts, calls, phase, selected>>
  BY DEF Publish
<1>2. \A q \in Procs, k \in Items : Idles(q, k)
  BY DEF Publish, QueueInv, TypeOK, Idles, NewTask, Attempting, Engaged
<1>3. SelectedOK'
  BY <1>1 DEF QueueInv, SelectedOK
<1> QED BY <1>1, <1>2, <1>3, IdleInv

(* The steps that change neither a row of jobs or attempts nor a call. *)
LEMMA QuietSteps ==
    ASSUME QueueInv, TypeOK', NEW p \in Procs, NEW i \in Items,
           \/ Look(p, i) \/ NotClaimed(p, i) \/ RequestNotStored(p, i) \/ Refused(p, i)
           \/ Unclear(p, i) \/ Answered(p, i) \/ Polled(p, i) \/ ArtifactNotStored(p, i)
           \/ Wake(p, i)
    PROVE  QueueInv'
<1>1. TypeOK /\ TaskOK
  BY DEF QueueInv
<1>2. UNCHANGED <<jobs, attempts, calls, phase, selected>>
  BY DEF Look, NotClaimed, RequestNotStored, Refused, Unclear, Answered, Polled,
         ArtifactNotStored, Wake, db
<1>3. CASE Look(p, i)
  <2>1. task[p][i].pc \in Engaged
    BY <1>3 DEF Look, At, Engaged, Locations, Suspended
  <2>2. Moves(p, i)
    BY <1>1, <1>3, <2>1, RaiseMoves, PlainMoves DEF Look, Verdicts
  <2> QED BY <1>2, <2>2, QuietInv
<1>4. CASE NotClaimed(p, i)
  <2>1. task[p][i].pc \in Engaged
    BY <1>4 DEF NotClaimed, At, Engaged, Locations, Suspended
  <2>2. CASE Raise(p, i)
    BY <1>1, <1>2, <2>1, <2>2, RaiseMoves, QuietInv
  <2>3. ASSUME NEW v \in {"completed", "needs_review", "live"}, GotoWith(p, i, "publish", v)
        PROVE  QueueInv'
    <3>1. /\ Others(p, i) /\ task'[p][i].pc = "publish" /\ task'[p][i].verdict = v
          /\ task'[p][i].job = task[p][i].job
      BY <1>1, <2>3, GotoWithFrame
    <3>2. task[p][i].job # None
      BY <1>1, <2>1 DEF TaskOK
    <3>3. Moves(p, i)
      BY <3>1, <3>2 DEF Moves, Attempting
    <3> QED BY <1>2, <3>3, QuietInv
  <2> QED BY <1>4, <2>2, <2>3 DEF NotClaimed, Reuse
<1>5. CASE RequestNotStored(p, i) \/ Unclear(p, i) \/ Refused(p, i) \/ ArtifactNotStored(p, i)
  BY <1>1, <1>2, <1>5, FailingMoves, QuietInv
     DEF RequestNotStored, Unclear, Refused, ArtifactNotStored, At
<1>6. CASE Answered(p, i)
  BY <1>1, <1>2, <1>6, ReceivedMoves, QuietInv DEF Answered, At
<1>7. CASE Polled(p, i)
  BY <1>1, <1>2, <1>7, FailingMoves, ReceivedMoves, QuietInv DEF Polled, At
<1>8. CASE Wake(p, i)
  <2>1. task[p][i].pc \in Engaged
    BY <1>8 DEF Wake, At, Engaged, Locations, Suspended
  <2> QED BY <1>1, <1>2, <1>8, <2>1, PlainMoves, QuietInv DEF Wake
<1> QED BY <1>3, <1>4, <1>5, <1>6, <1>7, <1>8

-----------------------------------------------------------------------------
(* Steps that write a row or make a call *)

LEMMA EnsureNewInv ==
    ASSUME QueueInv, TypeOK', NEW p \in Procs, NEW i \in Items, EnsureNew(p, i)
    PROVE  QueueInv'
<1>1. PICK j \in JobIds : /\ \A k \in Taken : k < j
                          /\ jobs' = [jobs EXCEPT ![j] = NewJob(i, None, FALSE)]
                          /\ Adopt(p, i, j, "pending")
  BY DEF EnsureNew
<1>2. UNCHANGED <<attempts, calls, phase, selected>>
  BY DEF EnsureNew
<1>3. j \notin Taken
  BY <1>1 DEF JobIds
<1>4. jobs[j].state = "absent" /\ \A q \in Procs : selected[q][j] = None
  BY <1>3 DEF Taken
<1>5. /\ jobs'[j].state = "pending" /\ jobs'[j].item = i /\ jobs'[j].count = 0
      /\ jobs'[j].parent = None
      /\ \A k \in JobIds : k # j => jobs'[k] = jobs[k]
  BY <1>1 DEF QueueInv, TypeOK, NewJob, NoJob
<1>6. \A q \in Procs, k \in Items : Idles(q, k)
  BY <1>1, <1>5, AdoptIdles DEF QueueInv
<1>7. \A q \in Procs, k \in Items : task[q][k].job # j
  BY <1>4, ConstantsAssumption DEF QueueInv, TaskOK, JobIds
<1>8. \A n \in AttemptIds : calls[j][n] = "none"
  BY <1>4 DEF QueueInv, RowsOK, AttemptIds
<1>9. TaskOK'
  <2>1. ASSUME NEW q \in Procs, NEW k \in Items, task'[q][k] = task[q][k], task[q][k].job # None
        PROVE  jobs'[task[q][k].job] = jobs[task[q][k].job]
    <3>1. task[q][k].job \in JobIds
      BY <2>1 DEF QueueInv, TypeOK, TaskType
    <3> QED BY <1>5, <1>7, <3>1
  <2> QED BY <1>6, <2>1 DEF QueueInv, TaskOK, Idles, Attempting
<1>10. RowsOK'
  BY <1>2, <1>5, <1>8 DEF QueueInv, RowsOK
<1>11. SelectedOK'
  <2>1. ASSUME NEW q \in Procs, NEW k \in JobIds, selected[q][k] # None
        PROVE  /\ k # j
               /\ selected[q][k] \in JobIds
               /\ jobs[selected[q][k]].state \in {"failed", "needs_review"} => selected[q][k] # j
    BY <1>4, <2>1 DEF QueueInv, TypeOK
  <2> QED BY <1>2, <1>5, <2>1 DEF QueueInv, SelectedOK
<1>12. DerivedOK'
  BY <1>4, <1>5, ConstantsAssumption DEF QueueInv, DerivedOK, JobIds
<1>13. OpenOK'
  BY <1>2, <1>5, <1>8 DEF QueueInv, OpenOK, Open
<1>14. ASSUME NEW q \in Procs, NEW k \in Items, task'[q][k].pc \in Attempting \cup {"begin"}
       PROVE  /\ task'[q][k] = task[q][k]
              /\ task[q][k].job # None
              /\ jobs'[task[q][k].job] = jobs[task[q][k].job]
  <2>1. task'[q][k] = task[q][k]
    BY <1>6, <1>14 DEF Idles
  <2>2. task[q][k].job \in JobIds
    BY <1>14, <2>1, EngagedJob DEF QueueInv, Engaged, Attempting, Locations, Suspended
  <2> QED BY <1>5, <1>7, <2>1, <2>2, ConstantsAssumption DEF JobIds
<1>15. OwnerOK'
  BY <1>2, <1>14 DEF QueueInv, OwnerOK, Owns, Open
<1>16. ReadyOK'
  BY <1>2, <1>14 DEF QueueInv, ReadyOK, Owns, Open, Attempting
<1>17. SentOK'
  BY <1>2, <1>14 DEF QueueInv, SentOK, Attempting
<1> QED BY <1>9, <1>10, <1>11, <1>12, <1>13, <1>15, <1>16, <1>17 DEF QueueInv


(* A claim: the job has no owner yet, and no coroutine is about to make a   *)
(* call for it.                                                             *)
LEMMA LeaseInv ==
    ASSUME QueueInv, TypeOK', NEW p \in Procs, NEW i \in Items, NEW j \in JobIds,
           task[p][i].job = j, Leased(j, p), Others(p, i),
           jobs[j].state \in {"pending", "retry_wait", "unknown"},
           \A q \in Procs, k \in Items : task[q][k].pc = "ready" => task[q][k].job # j,
           task'[p][i].job = j,
           \/ task'[p][i].pc = "begin" /\ \A n \in AttemptIds : ~Open(j, n)
           \/ task'[p][i].pc = "poll" /\ task'[p][i].attempt = jobs[j].count /\ jobs[j].count # 0
                                     /\ jobs[j].state = "unknown",
           UNCHANGED <<attempts, calls, phase, selected>>
    PROVE  QueueInv'
<1>1. /\ jobs'[j].state = "running" /\ jobs'[j].token = p
      /\ jobs'[j].item = jobs[j].item /\ jobs'[j].count = jobs[j].count
      /\ jobs'[j].parent = jobs[j].parent /\ jobs'[j].consent = jobs[j].consent
      /\ \A k \in JobIds : k # j => jobs'[k] = jobs[k]
  BY DEF Leased, QueueInv, TypeOK, JobType
<1>2. \A q \in Procs, k \in Items : task[q][k].job # None => task[q][k].job \in JobIds
  BY DEF QueueInv, TypeOK, TaskType
<1>3. j # None
  BY ConstantsAssumption DEF JobIds
<1>4. TaskOK'
  <2>1. ASSUME NEW q \in Procs, NEW k \in Items, task[q][k].job # None
        PROVE  jobs'[task[q][k].job].item = k /\ jobs'[task[q][k].job].state # "absent"
    BY <1>1, <1>2, <2>1 DEF QueueInv, TaskOK
  <2>2. ASSUME NEW q \in Procs, NEW k \in Items, q # p \/ k # i
        PROVE  task'[q][k] = task[q][k]
    BY <2>2 DEF Others
  <2> QED BY <1>3, <2>1, <2>2 DEF QueueInv, TaskOK, Engaged, Attempting
<1>5. RowsOK'
  BY <1>1 DEF QueueInv, RowsOK
<1>6. SelectedOK'
  <2>1. ASSUME NEW q \in Procs, NEW k \in JobIds, selected[q][k] # None
        PROVE  /\ k # j
               /\ selected[q][k] \in JobIds
               /\ jobs[selected[q][k]].state \in {"failed", "needs_review"} => selected[q][k] # j
    BY <2>1 DEF QueueInv, TypeOK, SelectedOK
  <2> QED BY <1>1, <2>1 DEF QueueInv, SelectedOK
<1>7. DerivedOK'
  BY <1>1 DEF QueueInv, DerivedOK
<1>8. OpenOK'
  BY <1>1 DEF QueueInv, OpenOK, Open
<1>9. ASSUME NEW q \in Procs, NEW k \in Items, q # p \/ k # i
      PROVE  /\ task'[q][k] = task[q][k]
             /\ task[q][k].job = j => k = i /\ q # p
  BY <1>3, <1>9 DEF Others, QueueInv, TaskOK
<1>10. OwnerOK'
  <2>1. ASSUME NEW q \in Procs, NEW k \in Items, q # p \/ k # i, task[q][k].job # None,
               jobs'[task[q][k].job].state = "running", jobs'[task[q][k].job].token = q
        PROVE  Owns(q, task[q][k].job) /\ jobs'[task[q][k].job].count = jobs[task[q][k].job].count
    BY <1>1, <1>2, <1>9, <2>1 DEF Owns
  <2>2. ASSUME NEW q \in Procs, NEW k \in Items, task'[q][k].job # None,
               jobs'[task'[q][k].job].state = "running", jobs'[task'[q][k].job].token = q
        PROVE  /\ task'[q][k].pc = "begin" => \A n \in AttemptIds : calls[task'[q][k].job][n] # "open"
               /\ task'[q][k].pc \in Attempting => task'[q][k].attempt = jobs'[task'[q][k].job].count
    <3>1. CASE q # p \/ k # i
      BY <1>9, <2>1, <2>2, <3>1 DEF QueueInv, OwnerOK, Open
    <3>2. CASE q = p /\ k = i
      BY <1>1, <3>2 DEF Open, Attempting
    <3> QED BY <3>1, <3>2
  <2> QED BY <2>2 DEF OwnerOK, Owns, Open
<1>11. ReadyOK'
  <2>1. ASSUME NEW q \in Procs, NEW k \in Items, task'[q][k].pc = "ready"
        PROVE  task'[q][k] = task[q][k] /\ task[q][k].job # None /\ jobs'[task[q][k].job] = jobs[task[q][k].job]
    <3>1. task'[q][k] = task[q][k]
      BY <1>9, <2>1
    <3>2. task[q][k].job # None
      BY <2>1, <3>1 DEF QueueInv, TaskOK, Engaged, Locations, Suspended
    <3> QED BY <1>1, <1>2, <2>1, <3>1, <3>2
  <2> QED BY <2>1 DEF QueueInv, ReadyOK, Owns, Open
<1>12. SentOK'
  BY <1>9 DEF QueueInv, SentOK
<1> QED BY <1>4, <1>5, <1>6, <1>7, <1>8, <1>10, <1>11, <1>12 DEF QueueInv

LEMMA ClaimInv ==
    ASSUME QueueInv, TypeOK', NEW p \in Procs, NEW i \in Items, Claim(p, i)
    PROVE  QueueInv'
<1> DEFINE j == task[p][i].job
<1>1. TypeOK /\ TaskOK /\ task[p][i].pc \in Engaged
  BY DEF QueueInv, Claim, At, Engaged, Locations, Suspended
<1>2. j \in JobIds
  BY <1>1, EngagedJob
<1>3. CASE Claimable(j)
  <2>1. Leased(j, p) /\ GotoWith(p, i, "begin", "none")
    BY <1>3 DEF Claim
  <2>2. Others(p, i) /\ task'[p][i].pc = "begin" /\ task'[p][i].job = j
    BY <1>1, <2>1, GotoWithFrame
  <2>3. jobs[j].state \in {"pending", "retry_wait"}
    BY <1>3 DEF Claimable
  <2>4. \A n \in AttemptIds : ~Open(j, n)
    BY <1>2, <2>3 DEF QueueInv, OpenOK
  <2>5. \A q \in Procs, k \in Items : task[q][k].pc = "ready" => task[q][k].job # j
    BY <2>3 DEF QueueInv, ReadyOK, Owns
  <2>6. UNCHANGED <<attempts, calls, phase, selected>>
    BY DEF Claim
  <2> QED BY <1>2, <2>1, <2>2, <2>3, <2>4, <2>5, <2>6, LeaseInv
<1>4. CASE ~Claimable(j)
  <2>1. GotoWith(p, i, "missed", "none") /\ UNCHANGED <<jobs, attempts, calls, phase, selected>>
    BY <1>4 DEF Claim
  <2>2. Moves(p, i)
    BY <1>1, <2>1, PlainMoves DEF Verdicts
  <2> QED BY <2>1, <2>2, QuietInv
<1> QED BY <1>3, <1>4

LEMMA ClaimRecoveryInv ==
    ASSUME QueueInv, TypeOK', NEW p \in Procs, NEW i \in Items, ClaimRecovery(p, i)
    PROVE  QueueInv'
<1> DEFINE j == task[p][i].job
<1>1. TypeOK /\ TaskOK /\ task[p][i].pc \in Engaged
  BY DEF QueueInv, ClaimRecovery, At, Engaged, Locations, Suspended
<1>2. j \in JobIds
  BY <1>1, EngagedJob
<1>3. CASE Resumable(j)
  <2>1. /\ Leased(j, p)
        /\ task' = [task EXCEPT ![p][i] =
              [@ EXCEPT !.pc = "poll", !.verdict = "none", !.attempt = jobs[j].count]]
    BY <1>3 DEF ClaimRecovery
  <2>2. /\ Others(p, i) /\ task'[p][i].pc = "poll" /\ task'[p][i].job = j
        /\ task'[p][i].attempt = jobs[j].count
    BY <1>1, <2>1 DEF TypeOK, TaskType, Others
  <2>3. jobs[j].state = "unknown" /\ jobs[j].count # 0 /\ attempts[j][jobs[j].count].request
    BY <1>3 DEF Resumable
  <2>4. \A q \in Procs, k \in Items : task[q][k].pc = "ready" => task[q][k].job # j
    BY <2>3 DEF QueueInv, ReadyOK
  <2>5. UNCHANGED <<attempts, calls, phase, selected>>
    BY DEF ClaimRecovery
  <2> QED BY <1>2, <2>1, <2>2, <2>3, <2>4, <2>5, LeaseInv
<1>4. CASE ~Resumable(j)
  <2>1. GotoWith(p, i, "missed", "none") /\ UNCHANGED <<jobs, attempts, calls, phase, selected>>
    BY <1>4 DEF ClaimRecovery
  <2>2. Moves(p, i)
    BY <1>1, <2>1, PlainMoves DEF Verdicts
  <2> QED BY <2>1, <2>2, QuietInv
<1> QED BY <1>3, <1>4


(* Only row j changes: it keeps its input and its derivation. *)
RowChanges(j) ==
    /\ jobs[j].state \in {"pending", "retry_wait", "unknown", "running"}
    /\ jobs'[j].state # "absent"
    /\ jobs'[j].item = jobs[j].item
    /\ jobs'[j].parent = jobs[j].parent /\ jobs'[j].consent = jobs[j].consent
    /\ \A k \in JobIds : k # j => jobs'[k] = jobs[k]

LEMMA RowFrame ==
    ASSUME QueueInv, NEW j \in JobIds, RowChanges(j), UNCHANGED <<phase, selected>>
    PROVE  SelectedOK' /\ DerivedOK'
<1>1. SelectedOK'
  <2>1. ASSUME NEW q \in Procs, NEW k \in JobIds, selected[q][k] # None
        PROVE  /\ k # j
               /\ selected[q][k] \in JobIds
               /\ jobs[selected[q][k]].state \in {"failed", "needs_review"} => selected[q][k] # j
    BY <2>1 DEF QueueInv, TypeOK, SelectedOK, RowChanges
  <2> QED BY <2>1 DEF QueueInv, SelectedOK, RowChanges
<1>2. DerivedOK'
  BY DEF QueueInv, DerivedOK, RowChanges
<1> QED BY <1>1, <1>2

LEMMA TaskFrame ==
    ASSUME QueueInv, NEW p \in Procs, NEW i \in Items, Others(p, i),
           task[p][i].job # None, task'[p][i].job = task[p][i].job,
           task'[p][i].pc \notin {"received", "publish"},
           task'[p][i].pc \in Attempting => task'[p][i].attempt # 0,
           \A k \in JobIds : jobs[k].state # "absent" =>
                jobs'[k].item = jobs[k].item /\ jobs'[k].state # "absent"
    PROVE  TaskOK'
<1>1. ASSUME NEW q \in Procs, NEW k \in Items, task[q][k].job # None
      PROVE  jobs'[task[q][k].job].item = k /\ jobs'[task[q][k].job].state # "absent"
  <2>1. task[q][k].job \in JobIds
    BY <1>1 DEF QueueInv, TypeOK, TaskType
  <2> QED BY <1>1, <2>1 DEF QueueInv, TaskOK
<1>2. ASSUME NEW q \in Procs, NEW k \in Items, q # p \/ k # i
      PROVE  task'[q][k] = task[q][k]
  BY <1>2 DEF Others
<1> QED BY <1>1, <1>2 DEF QueueInv, TaskOK

(* Two coroutines work on the same job only in different processes. *)
LEMMA SameJob ==
    ASSUME QueueInv, NEW p \in Procs, NEW i \in Items, NEW q \in Procs, NEW k \in Items,
           q # p \/ k # i, task[p][i].job # None, task[q][k].job = task[p][i].job
    PROVE  k = i /\ q # p
BY DEF QueueInv, TaskOK

LEMMA BeginAttemptInv ==
    ASSUME QueueInv, TypeOK', NEW p \in Procs, NEW i \in Items, BeginAttempt(p, i)
    PROVE  QueueInv'
<1> DEFINE j == task[p][i].job
           n == jobs[j].count + 1
<1>1. TypeOK /\ TaskOK /\ task[p][i].pc \in Engaged /\ task[p][i].pc = "begin"
  BY DEF QueueInv, BeginAttempt, At, Engaged, Locations, Suspended
<1>2. j \in JobIds /\ j # None
  BY <1>1, EngagedJob, ConstantsAssumption DEF JobIds
<1>3. CASE Raise(p, i) /\ UNCHANGED <<jobs, attempts>>
  <2>1. Moves(p, i)
    BY <1>1, <1>3, RaiseMoves
  <2> QED BY <1>3, <2>1, QuietInv DEF BeginAttempt
<1>4. CASE /\ Owns(p, j) /\ jobs[j].count < MaxAttempts
           /\ jobs' = [jobs EXCEPT ![j] = [@ EXCEPT !.count = n]]
           /\ attempts' = [attempts EXCEPT ![j][n] = [status |-> "running", request |-> FALSE]]
           /\ task' = [task EXCEPT ![p][i] = [@ EXCEPT !.pc = "ready", !.attempt = n]]
  <2>1. UNCHANGED <<calls, phase, selected>>
    BY DEF BeginAttempt
  <2>2. jobs[j].count \in 0..MaxAttempts /\ n \in AttemptIds /\ n # 0 /\ n > jobs[j].count
    <3>1. jobs[j].count \in 0..MaxAttempts
      BY <1>1, <1>2 DEF TypeOK, JobType
    <3> QED BY <1>4, <3>1, ConstantsAssumption DEF AttemptIds
  <2> HIDE DEF n
  <2>3. /\ RowChanges(j) /\ jobs'[j].count = n
        /\ jobs'[j].state = "running" /\ jobs'[j].token = p
    BY <1>1, <1>2, <1>4 DEF RowChanges, Owns, TypeOK, JobType
  <2>4. /\ Others(p, i) /\ task'[p][i].pc = "ready" /\ task'[p][i].job = j
        /\ task'[p][i].attempt = n
    BY <1>1, <1>4 DEF TypeOK, TaskType, Others
  <2>5. \A m \in AttemptIds : ~Open(j, m)
    BY <1>1, <1>2, <1>4 DEF QueueInv, OwnerOK
  <2>6. calls[j][n] = "none"
    BY <1>2, <2>2 DEF QueueInv, RowsOK
  <2>7. ~attempts'[j][n].request
    BY <1>1, <1>2, <1>4, <2>2 DEF TypeOK
  <2>8. ASSUME NEW q \in Procs, NEW k \in Items, q # p \/ k # i
        PROVE  /\ task'[q][k] = task[q][k]
               /\ task[q][k].pc = "ready" => task[q][k].job # j
               /\ task[q][k].job # None /\ task[q][k].job # j =>
                     /\ jobs'[task[q][k].job] = jobs[task[q][k].job]
                     /\ attempts'[task[q][k].job] = attempts[task[q][k].job]
               /\ task[q][k].job = j => q # p
    <3>1. task'[q][k] = task[q][k]
      BY <2>4, <2>8 DEF Others
    <3>2. task[q][k].job = j => q # p
      BY <1>2, <2>8, SameJob
    <3>3. task[q][k].pc = "ready" => task[q][k].job # j
      BY <1>4, <3>2 DEF QueueInv, ReadyOK, Owns
    <3>4. task[q][k].job # None => task[q][k].job \in JobIds
      BY <1>1 DEF TypeOK, TaskType
    <3>5. task[q][k].job # None /\ task[q][k].job # j =>
              attempts'[task[q][k].job] = attempts[task[q][k].job]
      BY <1>1, <1>4, <3>4 DEF TypeOK
    <3> QED BY <2>3, <3>1, <3>2, <3>3, <3>4, <3>5 DEF RowChanges
  <2>9. RowsOK'
    <3>1. ASSUME NEW m \in AttemptIds, m > n
          PROVE  calls[j][m] = "none"
      BY <1>2, <2>2, <3>1 DEF QueueInv, RowsOK, AttemptIds
    <3> QED BY <2>1, <2>3, <3>1 DEF QueueInv, RowsOK, RowChanges
  <2>10. SelectedOK' /\ DerivedOK'
    BY <1>2, <2>1, <2>3, RowFrame
  <2>11. TaskOK'
    BY <1>2, <2>2, <2>3, <2>4, TaskFrame DEF RowChanges
  <2>12. OpenOK'
    BY <2>1, <2>3, <2>5 DEF QueueInv, OpenOK, Open, RowChanges
  <2>13. OwnerOK'
    <3>1. ASSUME NEW q \in Procs, NEW k \in Items, task'[q][k].job # None,
                 jobs'[task'[q][k].job].state = "running", jobs'[task'[q][k].job].token = q
          PROVE  /\ task'[q][k].pc = "begin" => \A m \in AttemptIds : calls[task'[q][k].job][m] # "open"
                 /\ task'[q][k].pc \in Attempting => task'[q][k].attempt = jobs'[task'[q][k].job].count
      <4>1. CASE q = p /\ k = i
        BY <2>3, <2>4, <4>1
      <4>2. CASE q # p \/ k # i
        BY <2>3, <2>8, <3>1, <4>2 DEF QueueInv, OwnerOK, Owns, Open
      <4> QED BY <4>1, <4>2
    <3> QED BY <2>1, <3>1 DEF OwnerOK, Owns, Open
  <2>14. ReadyOK'
    <3>1. ASSUME NEW q \in Procs, NEW k \in Items, task'[q][k].pc = "ready"
          PROVE  LET t == task'[q][k] IN
                 /\ t.attempt = jobs'[t.job].count
                 /\ ~attempts'[t.job][t.attempt].request
                 /\ calls[t.job][t.attempt] = "none"
                 /\ \A m \in AttemptIds : calls[t.job][m] # "open"
                 /\ \/ jobs'[t.job].state = "unknown"
                    \/ jobs'[t.job].state = "running" /\ jobs'[t.job].token = q
                 /\ \A r \in Procs \ {q} : task'[r][k].pc = "ready" => task'[r][k].job # t.job
      <4>1. CASE q = p /\ k = i
        <5>1. /\ task'[q][k].attempt = n /\ task'[q][k].job = j
              /\ jobs'[j].count = n /\ jobs'[j].state = "running" /\ jobs'[j].token = q
          BY <2>3, <2>4, <4>1
        <5>2. \A r \in Procs \ {q} : task'[r][k].pc = "ready" => task'[r][k].job # j
          BY <2>8, <4>1
        <5> QED BY <2>5, <2>6, <2>7, <5>1, <5>2 DEF Open
      <4>2. CASE q # p \/ k # i
        <5>1. task[q][k].job # None
          BY <2>8, <3>1, <4>2 DEF QueueInv, TaskOK, Engaged, Locations, Suspended
        <5>2. /\ task'[q][k] = task[q][k] /\ task[q][k].job # j
              /\ jobs'[task[q][k].job] = jobs[task[q][k].job]
              /\ attempts'[task[q][k].job] = attempts[task[q][k].job]
          BY <2>8, <3>1, <4>2, <5>1
        <5>3. \A r \in Procs \ {q} : task'[r][k].pc = "ready" => task'[r][k].job # task[q][k].job
          <6> SUFFICES ASSUME NEW r \in Procs \ {q}, task'[r][k].pc = "ready"
                       PROVE  task'[r][k].job # task[q][k].job
            OBVIOUS
          <6>1. CASE r = p /\ k = i
            BY <2>4, <5>2, <6>1
          <6>2. CASE r # p \/ k # i
            BY <2>8, <3>1, <5>2, <6>2 DEF QueueInv, ReadyOK
          <6> QED BY <6>1, <6>2
        <5>4. /\ task[q][k].attempt = jobs[task[q][k].job].count
              /\ ~attempts[task[q][k].job][task[q][k].attempt].request
              /\ calls[task[q][k].job][task[q][k].attempt] = "none"
              /\ \A m \in AttemptIds : calls[task[q][k].job][m] # "open"
              /\ \/ jobs[task[q][k].job].state = "unknown"
                 \/ jobs[task[q][k].job].state = "running" /\ jobs[task[q][k].job].token = q
          BY <3>1, <5>2 DEF QueueInv, ReadyOK, Owns, Open
        <5> QED BY <5>2, <5>3, <5>4
      <4> QED BY <4>1, <4>2
    <3> QED BY <2>1, <3>1 DEF ReadyOK, Owns, Open
  <2>15. SentOK'
    BY <2>1, <2>4, <2>8 DEF QueueInv, SentOK
  <2> QED BY <2>9, <2>10, <2>11, <2>12, <2>13, <2>14, <2>15 DEF QueueInv
<1> QED BY <1>3, <1>4 DEF BeginAttempt


(* A coroutine that works on an attempt has one. *)
LEMMA AttemptingTask ==
    ASSUME TypeOK, TaskOK, NEW p \in Procs, NEW i \in Items, task[p][i].pc \in Attempting
    PROVE  /\ task[p][i].job \in JobIds /\ task[p][i].job # None
           /\ task[p][i].attempt \in AttemptIds
<1>1. task[p][i].pc \in Engaged
  BY DEF Engaged, Attempting, Locations, Suspended
<1>2. task[p][i].job \in JobIds
  BY <1>1, EngagedJob
<1>3. task[p][i].attempt \in 0..MaxAttempts
  BY DEF TypeOK, TaskType
<1>4. task[p][i].attempt # 0
  BY DEF TaskOK
<1>5. task[p][i].attempt \in AttemptIds
  BY <1>3, <1>4, ConstantsAssumption DEF AttemptIds
<1> QED BY <1>2, <1>5, ConstantsAssumption DEF JobIds

LEMMA SendInv ==
    ASSUME QueueInv, TypeOK', NEW p \in Procs, NEW i \in Items, Send(p, i)
    PROVE  QueueInv'
<1> DEFINE j == task[p][i].job
           n == task[p][i].attempt
<1>1. TypeOK /\ TaskOK /\ task[p][i].pc = "ready"
  BY DEF QueueInv, Send, At
<1>2. task[p][i].pc \in Engaged /\ task[p][i].pc \in Attempting
  BY <1>1 DEF Engaged, Attempting, Locations, Suspended
<1>3. j \in JobIds /\ j # None
  BY <1>1, <1>2, EngagedJob, ConstantsAssumption DEF JobIds
<1>4. n \in AttemptIds
  BY <1>1, <1>2, ConstantsAssumption DEF TypeOK, TaskOK, TaskType, AttemptIds
<1>5. UNCHANGED <<jobs, attempts, phase, selected>>
  BY DEF Send, db
<1>6. /\ Others(p, i) /\ task'[p][i].pc = "sent"
      /\ task'[p][i].job = j /\ task'[p][i].attempt = n
  BY <1>1, GotoFrame DEF Send
<1>7. calls' = [calls EXCEPT ![j][n] = "open"]
  BY DEF Send
<1>8. /\ n = jobs[j].count
      /\ \A m \in AttemptIds : ~Open(j, m)
      /\ jobs[j].state = "unknown" \/ Owns(p, j)
      /\ \A q \in Procs \ {p} : task[q][i].pc = "ready" => task[q][i].job # j
  BY <1>1 DEF QueueInv, ReadyOK
<1>9. /\ calls'[j][n] = "open"
      /\ \A m \in AttemptIds : m # n => calls'[j][m] = calls[j][m]
      /\ \A k \in JobIds : k # j => calls'[k] = calls[k]
  BY <1>1, <1>3, <1>4, <1>7 DEF TypeOK
<1> HIDE DEF j, n
<1>10. RowsOK'
  BY <1>3, <1>4, <1>5, <1>8, <1>9 DEF QueueInv, RowsOK, AttemptIds
<1>11. SelectedOK' /\ DerivedOK'
  BY <1>5 DEF QueueInv, SelectedOK, DerivedOK
<1>12. TaskOK'
  BY <1>1, <1>2, <1>3, <1>5, <1>6, TaskFrame DEF j, n, TaskOK
<1>13. OpenOK'
  <2>1. jobs[j].state \in {"running", "unknown"}
    BY <1>8 DEF Owns
  <2> QED BY <1>5, <1>8, <1>9, <2>1 DEF QueueInv, OpenOK, Open
<1>14. ASSUME NEW q \in Procs, NEW k \in Items, q # p \/ k # i
       PROVE  /\ task'[q][k] = task[q][k]
              /\ task[q][k].pc = "ready" => task[q][k].job # j
              /\ task[q][k].pc = "begin" /\ Owns(q, task[q][k].job) => task[q][k].job # j
  <2>1. task[q][k].job = j => q # p /\ k = i
    BY <1>3, <1>14, SameJob DEF j
  <2> QED BY <1>6, <1>8, <1>14, <2>1 DEF Others, Owns
<1>15. ASSUME NEW q \in Procs, NEW k \in Items, task[q][k].job # None, task[q][k].job # j
       PROVE  calls'[task[q][k].job] = calls[task[q][k].job]
  BY <1>1, <1>9, <1>15 DEF TypeOK, TaskType
<1>16. OwnerOK'
  <2>1. ASSUME NEW q \in Procs, NEW k \in Items, task'[q][k].job # None, Owns(q, task[q][k].job)
        PROVE  /\ task'[q][k].pc = "begin" => \A m \in AttemptIds : calls'[task'[q][k].job][m] # "open"
               /\ task'[q][k].pc \in Attempting => task'[q][k].attempt = jobs[task'[q][k].job].count
    <3>1. CASE q = p /\ k = i
      BY <1>6, <1>8, <3>1
    <3>2. CASE q # p \/ k # i
      BY <1>14, <1>15, <2>1, <3>2 DEF QueueInv, OwnerOK, Open
    <3> QED BY <3>1, <3>2
  <2>2. \A q \in Procs, k \in Items : task'[q][k].job = task[q][k].job
    BY <1>6 DEF j, Others
  <2> QED BY <1>5, <2>1, <2>2 DEF OwnerOK, Owns, Open
<1>17. ReadyOK'
  <2>1. ASSUME NEW q \in Procs, NEW k \in Items, task'[q][k].pc = "ready"
        PROVE  /\ task'[q][k] = task[q][k]
               /\ calls'[task[q][k].job] = calls[task[q][k].job]
    <3>1. q # p \/ k # i
      BY <1>6, <2>1
    <3>2. task[q][k].job # None
      BY <1>14, <2>1, <3>1 DEF QueueInv, TaskOK, Engaged, Locations, Suspended
    <3> QED BY <1>14, <1>15, <2>1, <3>1, <3>2
  <2> QED BY <1>5, <2>1 DEF QueueInv, ReadyOK, Owns, Open
<1>18. SentOK'
  <2>1. ASSUME NEW q \in Procs, NEW k \in Items, task'[q][k].pc = "sent"
        PROVE  calls'[task'[q][k].job][task'[q][k].attempt] # "none"
    <3>1. CASE q = p /\ k = i
      BY <1>6, <1>9, <3>1
    <3>2. CASE q # p \/ k # i
      <4>1. task'[q][k] = task[q][k] /\ calls[task[q][k].job][task[q][k].attempt] # "none"
        BY <1>14, <2>1, <3>2 DEF QueueInv, SentOK
      <4>2. task[q][k].attempt \in AttemptIds /\ task[q][k].job # None
        BY <1>1, <2>1, <4>1, AttemptingTask DEF Attempting
      <4> QED BY <1>9, <1>15, <4>1, <4>2
    <3> QED BY <3>1, <3>2
  <2> QED BY <2>1 DEF SentOK
<1> QED BY <1>10, <1>11, <1>12, <1>13, <1>16, <1>17, <1>18 DEF QueueInv

LEMMA AnswerDroppedInv ==
    ASSUME QueueInv, TypeOK', NEW p \in Procs, NEW i \in Items, AnswerDropped(p, i)
    PROVE  QueueInv'
<1> DEFINE j == task[p][i].job
           n == task[p][i].attempt
<1>1. TypeOK /\ TaskOK /\ task[p][i].pc = "sent"
  BY DEF QueueInv, AnswerDropped, At
<1>2. UNCHANGED <<jobs, attempts, phase, selected>>
  BY DEF AnswerDropped, db
<1>3. Moves(p, i)
  BY <1>1, FailingMoves DEF AnswerDropped
<1>4. calls' = [calls EXCEPT ![j][n] = "dropped"]
  BY DEF AnswerDropped
<1>5. calls[j][n] # "none"
  BY <1>1 DEF QueueInv, SentOK
<1> HIDE DEF j, n
<1>6. \A k \in JobIds, m \in AttemptIds :
         \/ calls'[k][m] = calls[k][m]
         \/ calls[k][m] # "none" /\ calls'[k][m] = "dropped"
  BY <1>1, <1>4, <1>5 DEF TypeOK
<1>7. TaskOK'
  BY <1>1, <1>2, <1>3, MovesTask
<1>8. RowsOK' /\ SelectedOK' /\ DerivedOK' /\ OpenOK'
  BY <1>2, <1>6 DEF QueueInv, RowsOK, SelectedOK, DerivedOK, OpenOK, Open
<1>9. ASSUME NEW q \in Procs, NEW k \in Items
      PROVE  LET t == task[q][k]
                 u == task'[q][k] IN
             /\ u.job = t.job
             /\ u.pc \in {"begin", "ready", "sent"} => u = t
             /\ u.pc \in Attempting => t.pc \in Attempting /\ u.attempt = t.attempt
  BY <1>3, MovesStep
<1>10. ASSUME NEW q \in Procs, NEW k \in Items, task[q][k].pc \in Attempting
       PROVE  task[q][k].job \in JobIds /\ task[q][k].attempt \in AttemptIds
  BY <1>1, <1>10, AttemptingTask
<1>11. OwnerOK'
  <2>1. \A q \in Procs, k \in Items : task[q][k].job # None => task[q][k].job \in JobIds
    BY <1>1 DEF TypeOK, TaskType
  <2> QED BY <1>2, <1>6, <1>9, <2>1 DEF QueueInv, OwnerOK, Owns, Open
<1>12. ReadyOK'
  BY <1>2, <1>6, <1>9, <1>10 DEF QueueInv, ReadyOK, Owns, Open, Attempting
<1>13. SentOK'
  BY <1>6, <1>9, <1>10 DEF QueueInv, SentOK, Attempting
<1> QED BY <1>7, <1>8, <1>11, <1>12, <1>13 DEF QueueInv

LEMMA QueuedInv ==
    ASSUME QueueInv, TypeOK', NEW p \in Procs, NEW i \in Items, Queued(p, i)
    PROVE  QueueInv'
<1> DEFINE j == task[p][i].job
           n == task[p][i].attempt
<1>1. TypeOK /\ TaskOK /\ task[p][i].pc = "sent"
  BY DEF QueueInv, Queued, At
<1>2. UNCHANGED <<jobs, calls, phase, selected>>
  BY DEF Queued, RequestSaved
<1>3. CASE UNCHANGED attempts /\ GotoWith(p, i, "failing", "unknown")
  BY <1>1, <1>2, <1>3, FailingMoves, QuietInv
<1>4. CASE /\ attempts' = [attempts EXCEPT ![j][n] = [@ EXCEPT !.request = TRUE]]
           /\ Goto(p, i, "poll")
  <2>1. task[p][i].pc \in Attempting /\ j \in JobIds /\ j # None /\ n \in AttemptIds
    BY <1>1, AttemptingTask DEF Attempting
  <2>2. Moves(p, i)
    BY <1>1, <1>4, <2>1, GotoFrame DEF Moves, Attempting
  <2>3. calls[j][n] # "none"
    BY <1>1 DEF QueueInv, SentOK
  <2>4. \A k \in JobIds, m \in AttemptIds :
            calls[k][m] = "none" => attempts'[k][m] = attempts[k][m]
    BY <1>1, <1>4, <2>3 DEF TypeOK
  <2>5. TaskOK'
    BY <1>1, <1>2, <2>2, MovesTask
  <2>6. RowsOK' /\ SelectedOK' /\ DerivedOK' /\ OpenOK'
    BY <1>2 DEF QueueInv, RowsOK, SelectedOK, DerivedOK, OpenOK, Open
  <2>7. ASSUME NEW q \in Procs, NEW k \in Items
        PROVE  LET t == task[q][k]
                   u == task'[q][k] IN
               /\ u.job = t.job
               /\ u.pc \in {"begin", "ready", "sent"} => u = t
               /\ u.pc \in Attempting => t.pc \in Attempting /\ u.attempt = t.attempt
    BY <2>2, MovesStep
  <2>8. OwnerOK'
    BY <1>2, <2>7 DEF QueueInv, OwnerOK, Owns, Open
  <2>9. ASSUME NEW q \in Procs, NEW k \in Items, task[q][k].pc = "ready"
        PROVE  ~attempts'[task[q][k].job][task[q][k].attempt].request
    <3>1. task[q][k].job \in JobIds /\ task[q][k].attempt \in AttemptIds
      BY <1>1, <2>9, AttemptingTask DEF Attempting
    <3> QED BY <2>4, <2>9, <3>1 DEF QueueInv, ReadyOK
  <2>10. ReadyOK'
    BY <1>2, <2>7, <2>9 DEF QueueInv, ReadyOK, Owns, Open
  <2>11. SentOK'
    BY <1>2, <2>7 DEF QueueInv, SentOK
  <2> QED BY <2>5, <2>6, <2>8, <2>10, <2>11 DEF QueueInv
<1> QED BY <1>3, <1>4 DEF Queued, RequestSaved

(* The owner settles its job: the lease goes, the attempt was the last one. *)
LEMMA ReleaseInv ==
    ASSUME QueueInv, TypeOK', NEW p \in Procs, NEW i \in Items, NEW j \in JobIds,
           NEW n \in AttemptIds,
           task[p][i].job = j, task[p][i].attempt = n, task[p][i].pc \in Attempting,
           Owns(p, j), Moves(p, i), task'[p][i].pc \notin Attempting,
           RowChanges(j), jobs'[j].count = jobs[j].count, jobs'[j].state # "running",
           \A k \in JobIds : k # j => calls'[k] = calls[k] /\ attempts'[k] = attempts[k],
           \A m \in AttemptIds : m # n => calls'[j][m] = calls[j][m],
           calls'[j][n] \in {calls[j][n], "settled"},
           calls'[j][n] = "open" => jobs'[j].state = "unknown",
           UNCHANGED <<phase, selected>>
    PROVE  QueueInv'
<1>1. TypeOK /\ TaskOK /\ j # None
  BY ConstantsAssumption DEF QueueInv, JobIds
<1>2. n = jobs[j].count
  BY <1>1 DEF QueueInv, OwnerOK
<1>3. TaskOK'
  BY <1>1, MovesTask DEF RowChanges
<1>4. SelectedOK' /\ DerivedOK'
  BY RowFrame
<1>5. RowsOK'
  <2>1. ASSUME NEW m \in AttemptIds, m > jobs'[j].count
        PROVE  calls'[j][m] = "none"
    <3>1. m # n
      BY <1>2, <2>1 DEF AttemptIds
    <3> QED BY <2>1, <3>1 DEF QueueInv, RowsOK
  <2> QED BY <2>1 DEF QueueInv, RowsOK, RowChanges
<1>6. OpenOK'
  <2>1. ASSUME NEW m \in AttemptIds, calls'[j][m] = "open"
        PROVE  m = n
    BY <1>2, <2>1 DEF QueueInv, OpenOK, Open
  <2> QED BY <1>2, <2>1 DEF QueueInv, OpenOK, Open, RowChanges
<1>7. ASSUME NEW q \in Procs, NEW k \in Items
      PROVE  LET t == task[q][k]
                 u == task'[q][k] IN
             /\ u.job = t.job
             /\ u.pc \in {"begin", "ready", "sent"} => u = t
             /\ u.pc \in Attempting => t.pc \in Attempting /\ u.attempt = t.attempt
             /\ t.job # None => t.job \in JobIds
  BY <1>1, MovesStep DEF TypeOK, TaskType
<1>8. OwnerOK'
  <2>1. ASSUME NEW q \in Procs, NEW k \in Items, task'[q][k].job # None,
               jobs'[task'[q][k].job].state = "running", jobs'[task'[q][k].job].token = q
        PROVE  /\ task'[q][k].pc = "begin" => \A m \in AttemptIds : calls'[task'[q][k].job][m] # "open"
               /\ task'[q][k].pc \in Attempting => task'[q][k].attempt = jobs'[task'[q][k].job].count
    <3>1. task'[q][k].job = task[q][k].job /\ task[q][k].job \in JobIds /\ task[q][k].job # j
      BY <1>7, <2>1
    <3>2. /\ jobs'[task[q][k].job] = jobs[task[q][k].job]
          /\ calls'[task[q][k].job] = calls[task[q][k].job]
      BY <3>1 DEF RowChanges
    <3> QED BY <1>7, <2>1, <3>1, <3>2 DEF QueueInv, OwnerOK, Owns, Open
  <2> QED BY <2>1 DEF OwnerOK, Owns, Open
<1>9. ReadyOK'
  <2>1. ASSUME NEW q \in Procs, NEW k \in Items, task'[q][k].pc = "ready"
        PROVE  /\ task'[q][k] = task[q][k]
               /\ jobs'[task[q][k].job] = jobs[task[q][k].job]
               /\ calls'[task[q][k].job] = calls[task[q][k].job]
               /\ attempts'[task[q][k].job] = attempts[task[q][k].job]
    <3>1. task'[q][k] = task[q][k] /\ task[q][k].pc = "ready"
      BY <1>7, <2>1
    <3>2. task[q][k].job \in JobIds
      BY <1>1, <3>1, AttemptingTask DEF Attempting
    <3>3. q # p \/ k # i
      BY <2>1 DEF Attempting
    <3>4. task[q][k].job # j
      BY <1>1, <3>1, <3>3, SameJob DEF QueueInv, ReadyOK, Owns
    <3> QED BY <3>1, <3>2, <3>4 DEF RowChanges
  <2>2. ASSUME NEW q \in Procs, NEW k \in Items, task'[q][k].pc = "ready",
               NEW r \in Procs \ {q}, task'[r][k].pc = "ready"
        PROVE  task'[r][k].job # task'[q][k].job
    BY <2>1, <2>2 DEF QueueInv, ReadyOK
  <2>3. ASSUME NEW q \in Procs, NEW k \in Items, task'[q][k].pc = "ready"
        PROVE  LET t == task'[q][k] IN
               /\ t.attempt = jobs'[t.job].count
               /\ ~attempts'[t.job][t.attempt].request
               /\ calls'[t.job][t.attempt] = "none"
               /\ \A m \in AttemptIds : calls'[t.job][m] # "open"
               /\ \/ jobs'[t.job].state = "unknown"
                  \/ jobs'[t.job].state = "running" /\ jobs'[t.job].token = q
    BY <2>1, <2>3 DEF QueueInv, ReadyOK, Owns, Open
  <2> QED BY ZenonT(60), <2>2, <2>3 DEF ReadyOK, Owns, Open
<1>10. SentOK'
  <2>1. ASSUME NEW q \in Procs, NEW k \in Items, task'[q][k].pc = "sent"
        PROVE  calls'[task'[q][k].job][task'[q][k].attempt] # "none"
    <3>1. task'[q][k] = task[q][k] /\ calls[task[q][k].job][task[q][k].attempt] # "none"
      BY <1>7, <2>1 DEF QueueInv, SentOK
    <3>2. task[q][k].job \in JobIds /\ task[q][k].attempt \in AttemptIds
      BY <1>1, <2>1, <3>1, AttemptingTask DEF Attempting
    <3> QED BY <3>1, <3>2
  <2> QED BY <2>1 DEF SentOK
<1> QED BY <1>3, <1>4, <1>5, <1>6, <1>8, <1>9, <1>10 DEF QueueInv

LEMMA CompleteInv ==
    ASSUME QueueInv, TypeOK', NEW p \in Procs, NEW i \in Items, Complete(p, i)
    PROVE  QueueInv'
<1> DEFINE j == task[p][i].job
           n == task[p][i].attempt
           status == IF task[p][i].verdict = "completed" THEN "succeeded" ELSE "needs_review"
<1>1. TypeOK /\ TaskOK /\ task[p][i].pc = "received" /\ task[p][i].pc \in Attempting
  BY DEF QueueInv, Complete, At, Attempting
<1>2. j \in JobIds /\ j # None /\ n \in AttemptIds
  BY <1>1, AttemptingTask
<1>3. UNCHANGED <<phase, selected>>
  BY DEF Complete
<1>4. CASE GotoWith(p, i, "failing", "unknown") /\ UNCHANGED <<jobs, attempts, calls>>
  BY <1>1, <1>3, <1>4, FailingMoves, QuietInv
<1>5. CASE /\ Owns(p, j)
           /\ jobs' = [jobs EXCEPT ![j] = [@ EXCEPT !.state = status, !.token = None,
                                                  !.live = FALSE, !.erred = FALSE]]
           /\ attempts' = [attempts EXCEPT ![j] = Completed(j, status)]
           /\ calls' = [calls EXCEPT ![j][n] = "settled"]
           /\ Goto(p, i, "publish")
  <2>1. status \in Finished
    BY DEF Finished
  <2> HIDE DEF status
  <2>2. jobs[j] \in JobType
    BY <1>1, <1>2 DEF TypeOK
  <2>3. RowChanges(j) /\ jobs'[j].count = jobs[j].count /\ jobs'[j].state # "running"
    BY <1>1, <1>2, <1>5, <2>1, <2>2 DEF RowChanges, Owns, TypeOK, JobType, Finished
  <2>4. /\ \A k \in JobIds : k # j => calls'[k] = calls[k] /\ attempts'[k] = attempts[k]
        /\ \A m \in AttemptIds : m # n => calls'[j][m] = calls[j][m]
        /\ calls'[j][n] = "settled"
    BY <1>1, <1>2, <1>5 DEF TypeOK
  <2>5. Moves(p, i) /\ task'[p][i].pc \notin Attempting
    <3>1. task[p][i].verdict \in {"completed", "needs_review"}
      BY <1>1 DEF TaskOK
    <3> QED BY <1>1, <1>2, <1>5, <3>1, GotoFrame DEF Moves, Attempting
  <2> QED BY <1>1, <1>2, <1>3, <1>5, <2>3, <2>4, <2>5, ReleaseInv
<1> QED BY <1>4, <1>5 DEF Complete

LEMMA FailInv ==
    ASSUME QueueInv, TypeOK', NEW p \in Procs, NEW i \in Items, Fail(p, i)
    PROVE  QueueInv'
<1> DEFINE j == task[p][i].job
           n == task[p][i].attempt
           class == task[p][i].verdict
           state == FailedState(j, class)
<1>1. TypeOK /\ TaskOK /\ task[p][i].pc = "failing" /\ task[p][i].pc \in Attempting
      /\ task[p][i].pc \in Engaged
  BY DEF QueueInv, Fail, At, Attempting, Engaged, Locations, Suspended
<1>2. j \in JobIds /\ j # None /\ n \in AttemptIds
  BY <1>1, AttemptingTask
<1>3. UNCHANGED <<phase, selected>>
  BY DEF Fail
<1>4. CASE Raise(p, i) /\ UNCHANGED <<jobs, attempts, calls>>
  BY <1>1, <1>3, <1>4, RaiseMoves, QuietInv
<1>5. CASE /\ Owns(p, j)
           /\ jobs' = [jobs EXCEPT ![j] = [@ EXCEPT !.state = state, !.token = None, !.live = FALSE,
                                            !.erred = TRUE, !.due = (state # "retry_wait")]]
           /\ attempts' = [attempts EXCEPT ![j] =
                 EndAttempts(j, IF class = "unknown" THEN "unknown" ELSE "failed")]
           /\ calls' = [calls EXCEPT ![j][n] = Settle(j, n, class)]
           /\ IF state = "retry_wait" THEN GotoWith(p, i, "sleep", "none") ELSE Raise(p, i)
  <2>1. state \in {"unknown", "retry_wait", "failed"} /\ (class = "unknown" => state = "unknown")
    BY DEF FailedState
  <2>2. Settle(j, n, class) \in {calls[j][n], "settled"}
        /\ (Settle(j, n, class) = "open" => state = "unknown")
    BY <2>1 DEF Settle
  <2> HIDE DEF state, class
  <2>3. jobs[j] \in JobType
    BY <1>1, <1>2 DEF TypeOK
  <2>4. /\ RowChanges(j) /\ jobs'[j].count = jobs[j].count
        /\ jobs'[j].state = state /\ jobs'[j].state # "running"
    BY <1>1, <1>2, <1>5, <2>1, <2>3 DEF RowChanges, Owns, TypeOK, JobType
  <2>5. /\ \A k \in JobIds : k # j => calls'[k] = calls[k] /\ attempts'[k] = attempts[k]
        /\ \A m \in AttemptIds : m # n => calls'[j][m] = calls[j][m]
        /\ calls'[j][n] \in {calls[j][n], "settled"}
        /\ calls'[j][n] = "open" => jobs'[j].state = "unknown"
    BY <1>1, <1>2, <1>5, <2>2, <2>4 DEF TypeOK
  <2>6. Moves(p, i) /\ task'[p][i].pc \notin Attempting
    BY <1>1, <1>5, RaiseMoves, PlainMoves, GotoWithFrame DEF Raise, Attempting, Verdicts
  <2> QED BY <1>1, <1>2, <1>3, <1>5, <2>4, <2>5, <2>6, ReleaseInv
<1> QED BY <1>4, <1>5 DEF Fail

LEMMA StepInv ==
    ASSUME QueueInv, TypeOK', NEW p \in Procs, NEW i \in Items, Step(p, i)
    PROVE  QueueInv'
BY EnsureExistingInv, EnsureNewInv, QuietSteps, ClaimInv, ClaimRecoveryInv, BeginAttemptInv,
   SendInv, AnswerDroppedInv, QueuedInv, CompleteInv, FailInv, PublishInv DEF Step

-----------------------------------------------------------------------------
(* Commands and the clock *)

(* Rows that only lose their lease, whatever the process p goes on to do. *)
LEMMA ExpiryInv ==
    ASSUME QueueInv, TypeOK', SelectedOK', UNCHANGED <<task, calls>>,
           \A j \in JobIds :
              /\ jobs'[j].item = jobs[j].item /\ jobs'[j].count = jobs[j].count
              /\ jobs'[j].parent = jobs[j].parent /\ jobs'[j].consent = jobs[j].consent
              /\ \/ jobs'[j].state = jobs[j].state /\ jobs'[j].token = jobs[j].token
                 \/ jobs[j].state = "running" /\ jobs'[j].state = "unknown"
              /\ \A n \in AttemptIds : attempts'[j][n].request = attempts[j][n].request
    PROVE  QueueInv'
<1>1. \A q \in Procs, k \in Items : task[q][k].job # None => task[q][k].job \in JobIds
  BY DEF QueueInv, TypeOK, TaskType
<1>2. TaskOK'
  <2>1. \A q \in Procs, k \in Items : task[q][k].job # None =>
            jobs'[task[q][k].job].item = k /\ jobs'[task[q][k].job].state # "absent"
    BY <1>1 DEF QueueInv, TaskOK
  <2> QED BY <2>1 DEF QueueInv, TaskOK
<1>3. RowsOK'
  BY DEF QueueInv, RowsOK
<1>4. DerivedOK'
  BY DEF QueueInv, DerivedOK
<1>5. OpenOK'
  BY DEF QueueInv, OpenOK, Open
<1>6. OwnerOK'
  BY <1>1 DEF QueueInv, OwnerOK, Owns, Open
<1>7. ReadyOK'
  <2>1. ASSUME NEW q \in Procs, NEW k \in Items, task[q][k].pc = "ready"
        PROVE  /\ task[q][k].job \in JobIds /\ task[q][k].attempt \in AttemptIds
               /\ task[q][k].attempt = jobs[task[q][k].job].count
               /\ ~attempts[task[q][k].job][task[q][k].attempt].request
               /\ \/ jobs[task[q][k].job].state = "unknown"
                  \/ jobs[task[q][k].job].state = "running" /\ jobs[task[q][k].job].token = q
    BY <2>1, AttemptingTask DEF QueueInv, ReadyOK, Owns, Attempting
  <2>2. ASSUME NEW q \in Procs, NEW k \in Items, task[q][k].pc = "ready"
        PROVE  LET t == task[q][k] IN
               /\ t.attempt = jobs'[t.job].count
               /\ ~attempts'[t.job][t.attempt].request
               /\ \/ jobs'[t.job].state = "unknown"
                  \/ jobs'[t.job].state = "running" /\ jobs'[t.job].token = q
    BY <2>1, <2>2
  <2> QED BY <2>2 DEF QueueInv, ReadyOK, Owns, Open
<1>8. SentOK'
  BY DEF QueueInv, SentOK
<1> QED BY <1>2, <1>3, <1>4, <1>5, <1>6, <1>7, <1>8 DEF QueueInv

LEMMA ReconcileInv ==
    ASSUME QueueInv, TypeOK', NEW p \in Procs, Reconcile(p)
    PROVE  QueueInv'
<1>1. UNCHANGED <<selected, task, calls>> /\ phase[p] = "off"
      /\ phase' = [phase EXCEPT ![p] = "reconciled"]
  BY DEF Reconcile
<1>2. ASSUME NEW j \in JobIds
      PROVE  /\ jobs'[j].item = jobs[j].item /\ jobs'[j].count = jobs[j].count
             /\ jobs'[j].parent = jobs[j].parent /\ jobs'[j].consent = jobs[j].consent
             /\ \/ jobs'[j].state = jobs[j].state /\ jobs'[j].token = jobs[j].token
                \/ jobs[j].state = "running" /\ jobs'[j].state = "unknown"
  <2>1. jobs[j] \in JobType
    BY DEF QueueInv, TypeOK
  <2> QED BY <2>1 DEF Reconcile, Expired, Expire, JobType
<1>3. ASSUME NEW j \in JobIds, NEW n \in AttemptIds
      PROVE  attempts'[j][n].request = attempts[j][n].request
  <2>1. attempts[j] \in [AttemptIds -> AttemptType] /\ attempts[j][n] \in AttemptType
    BY DEF QueueInv, TypeOK
  <2> QED BY <2>1 DEF Reconcile, EndAttempts, AttemptType
<1>4. SelectedOK'
  <2>1. ASSUME NEW q \in Procs, NEW k \in JobIds, selected[q][k] # None
        PROVE  /\ selected[q][k] \in JobIds
               /\ jobs'[k].state = "absent"
               /\ phase'[q] = "retry_unknown" \/ jobs'[selected[q][k]].state \in {"failed", "needs_review"}
    <3>1. selected[q][k] \in JobIds
      BY <2>1 DEF QueueInv, TypeOK
    <3>2. jobs[k].state = "absent"
          /\ (phase[q] = "retry_unknown" \/ jobs[selected[q][k]].state \in {"failed", "needs_review"})
      BY <2>1 DEF QueueInv, SelectedOK
    <3>3. phase[q] = "retry_unknown" => phase'[q] = "retry_unknown"
      BY <1>1 DEF QueueInv, TypeOK
    <3> QED BY <1>2, <3>1, <3>2, <3>3
  <2> QED BY <1>1, <2>1 DEF QueueInv, SelectedOK
<1> QED BY <1>1, <1>2, <1>3, <1>4, ExpiryInv

(* Commands that only start or end the coroutines of a process. *)
LEMMA PlainCommandInv ==
    ASSUME QueueInv, TypeOK', NEW p \in Procs, Resume(p) \/ Finish(p) \/ Crash(p)
    PROVE  QueueInv'
<1>1. UNCHANGED <<jobs, attempts, calls>>
  BY DEF Resume, Finish, Crash
<1>2. \A q \in Procs, k \in Items : Idles(q, k)
  BY RestartIdles DEF QueueInv, Resume, Start, Finish, Crash
<1>3. SelectedOK'
  <2>1. ASSUME NEW q \in Procs, NEW k \in JobIds, selected'[q][k] # None
        PROVE  /\ selected'[q][k] = selected[q][k]
               /\ phase[q] = "retry_unknown" => phase'[q] = "retry_unknown"
    BY <2>1 DEF QueueInv, TypeOK, Resume, Start, Finish, Crash
  <2>2. ASSUME NEW q \in Procs, NEW k \in JobIds, selected[q][k] = None
        PROVE  selected'[q][k] = None
    <3>1. selected' = selected \/ selected' = [selected EXCEPT ![p] = [j \in JobIds |-> None]]
      BY DEF Resume, Finish, Crash
    <3>2. selected \in [Procs -> [JobIds -> JobIds \cup {None}]]
      BY DEF QueueInv, TypeOK
    <3>3. CASE selected' = selected
      BY <2>2, <3>3
    <3>4. CASE selected' = [selected EXCEPT ![p] = [j \in JobIds |-> None]]
      <4>1. CASE q = p
        BY <3>2, <3>4, <4>1
      <4>2. CASE q # p
        BY <2>2, <3>2, <3>4, <4>2
      <4> QED BY <4>1, <4>2
    <3> QED BY <3>1, <3>3, <3>4
  <2> QED BY <1>1, <2>1, <2>2 DEF QueueInv, SelectedOK
<1> QED BY <1>1, <1>2, <1>3, IdleInv

LEMMA RetrySelectInv ==
    ASSUME QueueInv, TypeOK', NEW p \in Procs, RetrySelect(p)
    PROVE  QueueInv'
<1>1. UNCHANGED <<jobs, attempts, calls, task>>
  BY DEF RetrySelect
<1>0. PICK unknownToo \in BOOLEAN :
      \E rows \in [JobIds -> Retryable(unknownToo) \cup {None}] :
         /\ \A k \in JobIds : rows[k] # None => \A l \in Taken : l < k
         /\ selected' = [selected EXCEPT ![p] = rows]
         /\ phase' = [phase EXCEPT ![p] = IF unknownToo THEN "retry_unknown" ELSE "retry"]
  BY DEF RetrySelect
<1>2. PICK rows \in [JobIds -> Retryable(unknownToo) \cup {None}] :
         /\ \A k \in JobIds : rows[k] # None => \A l \in Taken : l < k
         /\ selected' = [selected EXCEPT ![p] = rows]
         /\ phase' = [phase EXCEPT ![p] = IF unknownToo THEN "retry_unknown" ELSE "retry"]
  BY <1>0
<1>3. /\ selected'[p] = rows
      /\ phase'[p] = (IF unknownToo THEN "retry_unknown" ELSE "retry")
      /\ \A q \in Procs \ {p} : selected'[q] = selected[q] /\ phase'[q] = phase[q]
  BY <1>2 DEF QueueInv, TypeOK
<1>4. ASSUME NEW k \in JobIds, rows[k] # None
      PROVE  /\ jobs[k].state = "absent" /\ \A q \in Procs : selected[q][k] = None
             /\ unknownToo \/ jobs[rows[k]].state \in {"failed", "needs_review"}
  <2>1. k \notin Taken
    BY <1>2, <1>4 DEF JobIds
  <2>2. rows[k] \in Retryable(unknownToo)
    BY <1>2, <1>4
  <2> QED BY <2>1, <2>2 DEF Taken, Retryable
<1>5. SelectedOK'
  <2> SUFFICES ASSUME NEW q \in Procs, NEW k \in JobIds, selected'[q][k] # None
               PROVE  /\ jobs[k].state = "absent"
                      /\ \A r \in Procs \ {q} : selected'[r][k] = None
                      /\ \/ phase'[q] = "retry_unknown"
                         \/ jobs[selected'[q][k]].state \in {"failed", "needs_review"}
    BY <1>1 DEF SelectedOK
  <2>1. CASE q = p
    BY <1>3, <1>4, <2>1
  <2>2. CASE q # p
    <3>1. selected[q][k] # None /\ selected'[q][k] = selected[q][k] /\ phase'[q] = phase[q]
      BY <1>3, <2>2
    <3>2. rows[k] = None
      BY <1>4, <3>1
    <3>3. /\ jobs[k].state = "absent"
          /\ \A r \in Procs \ {q} : selected[r][k] = None
          /\ \/ phase[q] = "retry_unknown"
             \/ jobs[selected[q][k]].state \in {"failed", "needs_review"}
      BY <3>1 DEF QueueInv, SelectedOK
    <3> QED BY <1>3, <3>1, <3>2, <3>3
  <2> QED BY <2>1, <2>2
<1>6. \A q \in Procs, k \in Items : Idles(q, k)
  BY <1>1 DEF Idles
<1> QED BY <1>1, <1>5, <1>6, IdleInv

LEMMA RetryInsertInv ==
    ASSUME QueueInv, TypeOK', NEW p \in Procs, RetryInsert(p)
    PROVE  QueueInv'
<1>1. UNCHANGED <<attempts, calls>>
  BY DEF RetryInsert
<1>2. /\ phase[p] \in {"retry", "retry_unknown"}
      /\ \A q \in Procs \ {p} : selected'[q] = selected[q] /\ phase'[q] = phase[q]
      /\ \A k \in JobIds : selected'[p][k] = None
  BY DEF RetryInsert, Start, QueueInv, TypeOK
<1>3. ASSUME NEW j \in JobIds, selected[p][j] = None
      PROVE  jobs'[j] = jobs[j]
  BY <1>3 DEF RetryInsert
<1>4. ASSUME NEW j \in JobIds, selected[p][j] # None
      PROVE  /\ jobs'[j].state = "pending" /\ jobs'[j].count = 0
             /\ jobs'[j].parent = selected[p][j] /\ selected[p][j] \in JobIds
             /\ jobs'[j].consent = (phase[p] = "retry_unknown")
             /\ jobs[j].state = "absent"
  <2>1. jobs'[j] = NewJob(jobs[selected[p][j]].item, selected[p][j], phase[p] = "retry_unknown")
    BY <1>4 DEF RetryInsert
  <2>2. selected[p][j] \in JobIds
    BY <1>4 DEF QueueInv, TypeOK
  <2> QED BY <1>4, <2>1, <2>2 DEF NewJob, NoJob, QueueInv, SelectedOK
<1>5. ASSUME NEW j \in JobIds, jobs[j].state # "absent"
      PROVE  jobs'[j] = jobs[j] /\ selected[p][j] = None
  BY <1>3, <1>4, <1>5
<1>6. \A q \in Procs, k \in Items : Idles(q, k)
  BY RestartIdles DEF RetryInsert, Start, QueueInv
<1>7. ASSUME NEW q \in Procs, NEW k \in Items, task[q][k].job # None
      PROVE  /\ task[q][k].job \in JobIds
             /\ jobs'[task[q][k].job] = jobs[task[q][k].job]
  <2>1. task[q][k].job \in JobIds
    BY <1>7 DEF QueueInv, TypeOK, TaskType
  <2>2. jobs[task[q][k].job].state # "absent"
    BY <1>7 DEF QueueInv, TaskOK
  <2> QED BY <1>5, <2>1, <2>2
<1>8. TaskOK'
  BY <1>6, <1>7 DEF QueueInv, TaskOK, Idles, Attempting
<1>9. RowsOK'
  <2>1. ASSUME NEW j \in JobIds, selected[p][j] # None, NEW n \in AttemptIds
        PROVE  calls[j][n] = "none"
    BY <1>4, <2>1 DEF QueueInv, RowsOK, AttemptIds
  <2>2. ASSUME NEW j \in JobIds
        PROVE  /\ jobs'[j].state = "absent" => jobs'[j].item = None /\ jobs'[j].count = 0
               /\ \A n \in AttemptIds : n > jobs'[j].count => calls[j][n] = "none"
    <3>1. CASE selected[p][j] = None
      BY <1>3, <3>1 DEF QueueInv, RowsOK
    <3>2. CASE selected[p][j] # None
      BY <1>4, <2>1, <3>2
    <3> QED BY <3>1, <3>2
  <2> QED BY <1>1, <2>2 DEF RowsOK
<1>10. SelectedOK'
  <2> SUFFICES ASSUME NEW q \in Procs, NEW k \in JobIds, selected'[q][k] # None
               PROVE  /\ jobs'[k].state = "absent"
                      /\ \A r \in Procs \ {q} : selected'[r][k] = None
                      /\ \/ phase'[q] = "retry_unknown"
                         \/ jobs'[selected'[q][k]].state \in {"failed", "needs_review"}
    BY DEF SelectedOK
  <2>1. q # p /\ selected'[q][k] = selected[q][k] /\ phase'[q] = phase[q]
    BY <1>2
  <2>2. /\ jobs[k].state = "absent"
        /\ \A r \in Procs \ {q} : selected[r][k] = None
        /\ \/ phase[q] = "retry_unknown"
           \/ jobs[selected[q][k]].state \in {"failed", "needs_review"}
        /\ selected[q][k] \in JobIds
    BY <2>1 DEF QueueInv, SelectedOK, TypeOK
  <2>3. jobs'[k] = jobs[k]
    BY <1>3, <2>1, <2>2
  <2>4. jobs[selected[q][k]].state \in {"failed", "needs_review"} =>
            jobs'[selected[q][k]] = jobs[selected[q][k]]
    BY <1>5, <2>2
  <2> QED BY <1>2, <2>1, <2>2, <2>3, <2>4
<1>11. DerivedOK'
  <2> SUFFICES ASSUME NEW j \in JobIds, NEW k \in JobIds, jobs'[k].parent = j
               PROVE  jobs'[k].consent \/ jobs'[j].state \in {"failed", "needs_review"}
    BY DEF DerivedOK
  <2>1. CASE selected[p][k] = None
    BY <1>3, <1>5, <2>1 DEF QueueInv, DerivedOK
  <2>2. CASE selected[p][k] # None
    <3>1. phase[p] = "retry_unknown" \/ jobs[j].state \in {"failed", "needs_review"}
      BY <1>4, <2>2 DEF QueueInv, SelectedOK
    <3> QED BY <1>4, <1>5, <2>2, <3>1
  <2> QED BY <2>1, <2>2
<1>12. OpenOK'
  <2>1. ASSUME NEW j \in JobIds, NEW n \in AttemptIds, calls[j][n] = "open"
        PROVE  /\ n = jobs[j].count /\ jobs[j].state \in {"running", "unknown"}
               /\ jobs'[j] = jobs[j]
    BY <1>5, <2>1 DEF QueueInv, OpenOK, Open
  <2> QED BY <1>1, <2>1 DEF OpenOK, Open
<1>13. ASSUME NEW q \in Procs, NEW k \in Items, task'[q][k].pc \in Attempting \cup {"begin"}
       PROVE  /\ task'[q][k] = task[q][k] /\ task[q][k].job # None
              /\ jobs'[task[q][k].job] = jobs[task[q][k].job]
  <2>1. task'[q][k] = task[q][k]
    BY <1>6, <1>13 DEF Idles
  <2>2. task[q][k].job # None
    BY <1>13, <2>1 DEF QueueInv, TaskOK, Engaged, Attempting, Locations, Suspended
  <2> QED BY <1>7, <2>1, <2>2
<1>14. OwnerOK'
  BY <1>1, <1>13 DEF QueueInv, OwnerOK, Owns, Open
<1>15. ReadyOK'
  BY <1>1, <1>13 DEF QueueInv, ReadyOK, Owns, Open, Attempting
<1>16. SentOK'
  BY <1>1, <1>13 DEF QueueInv, SentOK, Attempting
<1> QED BY <1>8, <1>9, <1>10, <1>11, <1>12, <1>14, <1>15, <1>16 DEF QueueInv

LEMMA ClockInv ==
    ASSUME QueueInv, TypeOK', NEW j \in JobIds, Clock(j)
    PROVE  QueueInv'
<1>1. UNCHANGED <<attempts, phase, selected, task, calls>>
  BY DEF Clock, LeaseExpires, BackoffElapses
<1>2. ASSUME NEW k \in JobIds
      PROVE  /\ jobs'[k].item = jobs[k].item /\ jobs'[k].count = jobs[k].count
             /\ jobs'[k].parent = jobs[k].parent /\ jobs'[k].consent = jobs[k].consent
             /\ jobs'[k].state = jobs[k].state /\ jobs'[k].token = jobs[k].token
  <2>1. jobs[k] \in JobType
    BY DEF QueueInv, TypeOK
  <2>2. \/ jobs' = [jobs EXCEPT ![j] = [@ EXCEPT !.live = FALSE]]
        \/ jobs' = [jobs EXCEPT ![j] = [@ EXCEPT !.due = TRUE]]
    BY DEF Clock, LeaseExpires, BackoffElapses
  <2>3. \/ jobs'[k] = jobs[k]
        \/ jobs'[k] = [jobs[k] EXCEPT !.live = FALSE]
        \/ jobs'[k] = [jobs[k] EXCEPT !.due = TRUE]
    BY <2>2 DEF QueueInv, TypeOK
  <2> QED BY <2>1, <2>3 DEF JobType
<1>3. SelectedOK'
  <2>1. \A q \in Procs, k \in JobIds : selected[q][k] # None => selected[q][k] \in JobIds
    BY DEF QueueInv, TypeOK
  <2> QED BY <1>1, <1>2, <2>1 DEF QueueInv, SelectedOK
<1> QED BY <1>1, <1>2, <1>3, ExpiryInv

-----------------------------------------------------------------------------
(* Theorems *)

LEMMA InitInv == Init => QueueInv
<1> SUFFICES ASSUME Init PROVE QueueInv
  OBVIOUS
<1>1. NoJob \in JobType /\ NoAttempt \in AttemptType /\ NewTask("idle") \in TaskType
  BY NewTaskType, ConstantsAssumption
     DEF NoJob, NoAttempt, JobType, AttemptType, JobStates, AttemptStates, Locations, Suspended
<1>2. TypeOK
  BY <1>1 DEF Init, TypeOK, Phases, CallStates
<1>3. TaskOK /\ OwnerOK /\ ReadyOK /\ SentOK
  BY DEF Init, NewTask, TaskOK, OwnerOK, ReadyOK, SentOK, Engaged, Attempting
<1>4. RowsOK /\ SelectedOK /\ DerivedOK /\ OpenOK
  BY ConstantsAssumption DEF Init, NoJob, RowsOK, SelectedOK, DerivedOK, OpenOK, Open, JobIds
<1> QED BY <1>2, <1>3, <1>4 DEF QueueInv

LEMMA NextInv == QueueInv /\ [Next]_vars => QueueInv'
<1> SUFFICES ASSUME QueueInv, [Next]_vars PROVE QueueInv'
  OBVIOUS
<1>1. TypeOK /\ TaskOK
  BY DEF QueueInv
<1>2. ASSUME NEW p \in Procs, NEW i \in Items, Step(p, i)
      PROVE  QueueInv'
  BY <1>1, <1>2, StepType, StepInv
<1>3. ASSUME NEW p \in Procs, Command(p)
      PROVE  QueueInv'
  BY <1>1, <1>3, CommandType, ReconcileInv, PlainCommandInv, RetrySelectInv, RetryInsertInv
     DEF Command
<1>4. ASSUME NEW j \in JobIds, Clock(j)
      PROVE  QueueInv'
  BY <1>1, <1>4, ClockType, ClockInv
<1>5. CASE UNCHANGED vars
  <2>1. UNCHANGED <<jobs, attempts, results, phase, selected, stopped, task, calls>>
    BY <1>5 DEF vars
  <2>2. TypeOK'
    BY <1>1, <2>1 DEF TypeOK
  <2>3. SelectedOK'
    BY <2>1 DEF QueueInv, SelectedOK
  <2>4. \A q \in Procs, k \in Items : Idles(q, k)
    BY <2>1 DEF Idles
  <2> QED BY <2>1, <2>2, <2>3, <2>4, IdleInv
<1> QED BY <1>2, <1>3, <1>4, <1>5 DEF Next

(* The jobs table, the coroutines and the calls stay consistent: the        *)
(* inductive invariant the other theorems follow from.                      *)
THEOREM QueueInvariant == Spec => []QueueInv
<1> QED BY InitInv, NextInv, PTL DEF Spec

(* Every table and every coroutine of Pipeline.job keeps its shape. *)
THEOREM TypeCorrect == Spec => []TypeOK
<1>1. QueueInv => TypeOK
  BY DEF QueueInv
<1> QED BY <1>1, QueueInvariant, PTL

(* A paid call whose outcome is not known is not repeated: its job makes no *)
(* further attempt and is derived from only with --include-unknown.         *)
THEOREM NeverSilentlyResubmitted == Spec => []NoSilentResubmission
<1>1. QueueInv => NoSilentResubmission
  <2> SUFFICES ASSUME QueueInv, NEW j \in JobIds, NEW n \in AttemptIds, Open(j, n)
               PROVE  /\ n = jobs[j].count
                      /\ \A k \in JobIds : jobs[k].parent = j => jobs[k].consent
    BY DEF NoSilentResubmission
  <2>1. n = jobs[j].count /\ jobs[j].state \in {"running", "unknown"}
    BY DEF QueueInv, OpenOK
  <2> QED BY <2>1 DEF QueueInv, DerivedOK
<1> QED BY <1>1, QueueInvariant, PTL

(* The jobs table always shows an outstanding call as running or unknown,   *)
(* whatever crashed or lost its lease in between.                           *)
THEOREM OutstandingStaysVisible == Spec => []OutstandingIsVisible
<1>1. QueueInv => OutstandingIsVisible
  BY DEF QueueInv, OpenOK, OutstandingIsVisible
<1> QED BY <1>1, QueueInvariant, PTL

(* A step writes no finished row. *)
LEMMA FinishedRow ==
    ASSUME QueueInv, [Next]_vars, NEW j \in JobIds, jobs[j].state \in Finished
    PROVE  jobs'[j] = jobs[j]
<1>1. jobs \in [JobIds -> JobType] /\ TypeOK /\ TaskOK
  BY DEF QueueInv, TypeOK
<1>2. CASE UNCHANGED jobs
  BY <1>2
<1>3. ASSUME NEW p \in Procs, Command(p)
      PROVE  jobs'[j] = jobs[j]
  <2>1. CASE Reconcile(p)
    BY <2>1 DEF Reconcile, Expired, Expire, Finished
  <2>2. CASE RetryInsert(p)
    <3>1. selected[p][j] = None
      BY DEF QueueInv, SelectedOK, Finished
    <3> QED BY <2>2, <3>1 DEF RetryInsert
  <2>3. CASE Resume(p) \/ RetrySelect(p) \/ Finish(p) \/ Crash(p)
    BY <2>3 DEF Resume, RetrySelect, Finish, Crash
  <2> QED BY <1>3, <2>1, <2>2, <2>3 DEF Command
<1>4. ASSUME NEW p \in Procs, NEW i \in Items, Step(p, i)
      PROVE  jobs'[j] = jobs[j]
  <2>1. CASE EnsureNew(p, i)
    <3>1. PICK k \in JobIds : /\ \A l \in Taken : l < k
                              /\ jobs' = [jobs EXCEPT ![k] = NewJob(i, None, FALSE)]
      BY <2>1 DEF EnsureNew
    <3>2. j \in Taken
      BY DEF Taken, Finished
    <3>3. k # j
      BY <3>1, <3>2 DEF JobIds
    <3> QED BY <1>1, <3>1, <3>3
  <2>2. CASE Claim(p, i)
    BY <1>1, <2>2 DEF Claim, Claimable, Leased, Finished
  <2>3. CASE ClaimRecovery(p, i)
    BY <1>1, <2>3 DEF ClaimRecovery, Resumable, Leased, Finished
  <2>4. CASE BeginAttempt(p, i) \/ Complete(p, i) \/ Fail(p, i)
    <3>1. ~Owns(p, j)
      BY DEF Owns, Finished
    <3>2. CASE BeginAttempt(p, i)
      BY <1>1, <3>1, <3>2 DEF BeginAttempt
    <3>3. CASE Complete(p, i)
      BY <1>1, <3>1, <3>3 DEF Complete
    <3>4. CASE Fail(p, i)
      BY <1>1, <3>1, <3>4 DEF Fail
    <3> QED BY <2>4, <3>2, <3>3, <3>4
  <2>5. CASE UNCHANGED db
    BY <1>2, <2>5 DEF db
  <2>6. CASE NotClaimed(p, i) \/ Queued(p, i) \/ Publish(p, i)
    BY <1>2, <2>6 DEF NotClaimed, Queued, Publish, db
  <2> QED BY <1>4, <2>1, <2>2, <2>3, <2>4, <2>5, <2>6
          DEF Step, EnsureExisting, Look, RequestNotStored, Send, Refused, Unclear, Answered,
              AnswerDropped, Polled, ArtifactNotStored, Wake
<1>5. ASSUME NEW k \in JobIds, Clock(k)
      PROVE  jobs'[j] = jobs[j]
  BY <1>1, <1>5 DEF Clock, LeaseExpires, BackoffElapses, Finished
<1> QED BY <1>2, <1>3, <1>4, <1>5 DEF Next, vars

(* No late worker, expired lease or retry reopens a finished job. *)
THEOREM FinishedNeverReopened == Spec => FinishedIsFinal
<1>1. QueueInv /\ [Next]_vars => [FinishedStays]_jobs
  BY FinishedRow DEF FinishedStays
<1> QED BY <1>1, QueueInvariant, PTL DEF Spec, FinishedIsFinal

-----------------------------------------------------------------------------
(* The tables agree: the inductive invariant *)

(* The attempt still waits for its outcome, or for its recovery. *)
Shown(j, n) == attempts[j][n].status \in {"running", "unknown"}

(* What the rows of one job say of each other.  A saved request ID is one   *)
(* whose call is outstanding, unless the job is over.                       *)
RowAgrees(j) ==
    /\ \A n \in AttemptIds : attempts[j][n].status = "running" =>
            jobs[j].state = "running" /\ n = jobs[j].count
    /\ jobs[j].state \in Finished => \E n \in AttemptIds :
            /\ n = jobs[j].count
            /\ attempts[j][n].status = jobs[j].state
            /\ calls[j][n] = "settled"
    /\ jobs[j].state \in {"pending", "retry_wait"} => jobs[j].count < MaxAttempts
    /\ \A n \in AttemptIds : attempts[j][n].request =>
            Open(j, n) \/ jobs[j].state \in Finished \cup {"failed"}
    /\ \A n \in AttemptIds : Open(j, n) => Shown(j, n)

(* What a coroutine may count on while it works: a call in flight is        *)
(* outstanding and cannot be recovered by anyone, the attempt of an owner   *)
(* can still be settled, a retry follows no saved request, and a success    *)
(* about to be published is in the table.                                   *)
CoroutineAgrees(p, i) ==
    LET t == task[p][i] IN
    /\ t.pc = "begin" /\ Owns(p, t.job) =>
            \A n \in AttemptIds : attempts[t.job][n].status # "running"
    /\ t.pc = "ready" => Shown(t.job, t.attempt)
    /\ t.pc \in Attempting /\ Owns(p, t.job) => Shown(t.job, t.attempt)
    /\ t.pc = "sent" =>
            /\ Open(t.job, t.attempt)
            /\ ~attempts[t.job][t.attempt].request
            /\ jobs[t.job].state = "unknown" \/ Owns(p, t.job)
    /\ t.pc = "failing" /\ t.verdict = "retry" /\ Owns(p, t.job) =>
            ~attempts[t.job][t.attempt].request
    /\ t.pc = "publish" /\ t.verdict = "completed" =>
            t.job \in JobIds /\ jobs[t.job].state = "succeeded"

(* No two processes have the call of one job in flight. *)
OneSent ==
    \A p, q \in Procs, i \in Items :
        p # q /\ task[p][i].pc = "sent" /\ task[q][i].pc = "sent" => task[p][i].job # task[q][i].job

RowsAgree == \A j \in JobIds : RowAgrees(j)

CoroutinesAgree == \A p \in Procs, i \in Items : CoroutineAgrees(p, i)

TablesInv == QueueInv /\ RowsAgree /\ CoroutinesAgree /\ OneSent /\ CompletedIsBacked

-----------------------------------------------------------------------------
(* What a step leaves alone *)

SameRow(j) ==
    /\ jobs'[j].state = jobs[j].state /\ jobs'[j].token = jobs[j].token
    /\ jobs'[j].count = jobs[j].count
    /\ attempts'[j] = attempts[j] /\ calls'[j] = calls[j]

LEMMA SameRowAgrees ==
    ASSUME NEW j \in JobIds, RowAgrees(j), SameRow(j)
    PROVE  RowAgrees(j)'
BY DEF RowAgrees, SameRow, Open, Shown

LEMMA SameCoroutine ==
    ASSUME QueueInv, NEW q \in Procs, NEW k \in Items, CoroutineAgrees(q, k),
           task'[q][k] = task[q][k], task[q][k].job \in JobIds => SameRow(task[q][k].job)
    PROVE  CoroutineAgrees(q, k)'
<1> DEFINE t == task[q][k]
<1>1. t.pc = "begin" \/ t.pc \in Attempting => t.job \in JobIds
  BY EngagedJob DEF QueueInv, Engaged, Attempting, Locations, Suspended
<1>2. CASE t.job \in JobIds
  BY <1>2 DEF CoroutineAgrees, SameRow, Owns, Open, Shown
<1>3. CASE t.job \notin JobIds
  BY <1>1, <1>3 DEF CoroutineAgrees, Attempting
<1> QED BY <1>2, <1>3

(* A coroutine that neither owns its job nor has its call under way. *)
LEMMA Outsider ==
    ASSUME NEW q \in Procs, NEW k \in Items, NEW j \in JobIds,
           task'[q][k].job = j, task'[q][k].pc \notin {"ready", "sent"}, ~Owns(q, j)',
           task'[q][k].pc = "publish" /\ task'[q][k].verdict = "completed" =>
                jobs'[j].state = "succeeded"
    PROVE  CoroutineAgrees(q, k)'
BY DEF CoroutineAgrees

(* A completed result keeps the job that backs it. *)
LEMMA BackedKept ==
    ASSUME QueueInv, [Next]_vars, CompletedIsBacked, UNCHANGED results
    PROVE  CompletedIsBacked'
<1> SUFFICES ASSUME NEW i \in Items, results[i] = "completed"
             PROVE  \E j \in JobIds : jobs'[j].item = i /\ jobs'[j].state = "succeeded"
  BY DEF CompletedIsBacked, JobsOf
<1>1. PICK j \in JobIds : jobs[j].item = i /\ jobs[j].state = "succeeded"
  BY DEF CompletedIsBacked, JobsOf
<1>2. jobs'[j] = jobs[j]
  BY <1>1, FinishedRow DEF Finished
<1> QED BY <1>1, <1>2

LEMMA OneSentKept ==
    ASSUME OneSent, NEW p \in Procs, NEW i \in Items, Others(p, i), task'[p][i].pc # "sent"
    PROVE  OneSent'
BY DEF OneSent, Others

(* A step of one coroutine that touches the rows of its own job only. *)
LEMMA ActsInv ==
    ASSUME TablesInv, QueueInv', CompletedIsBacked', OneSent',
           NEW p \in Procs, NEW i \in Items, NEW j \in JobIds, Others(p, i),
           task[p][i].job = j,
           \A k \in JobIds : k # j => SameRow(k),
           RowAgrees(j)', CoroutineAgrees(p, i)',
           \A q \in Procs : q # p /\ task[q][i].job = j => CoroutineAgrees(q, i)'
    PROVE  TablesInv'
<1>1. RowsAgree'
  BY SameRowAgrees DEF TablesInv, RowsAgree
<1>2. CoroutinesAgree'
  <2> SUFFICES ASSUME NEW q \in Procs, NEW k \in Items
               PROVE  CoroutineAgrees(q, k)'
    BY DEF CoroutinesAgree
  <2>1. CASE q = p /\ k = i
    BY <2>1
  <2>2. CASE (q # p \/ k # i) /\ task[q][k].job = j
    <3>1. k = i /\ q # p
      BY <2>2, SameJob, ConstantsAssumption DEF TablesInv, JobIds
    <3> QED BY <2>2, <3>1
  <2>3. CASE (q # p \/ k # i) /\ task[q][k].job # j
    BY <2>3, SameCoroutine DEF Others, TablesInv, CoroutinesAgree
  <2> QED BY <2>1, <2>2, <2>3
<1> QED BY <1>1, <1>2 DEF TablesInv

(* A step of one coroutine that touches no row at all. *)
LEMMA MovesInv ==
    ASSUME TablesInv, QueueInv', CompletedIsBacked',
           NEW p \in Procs, NEW i \in Items, Others(p, i), task'[p][i].pc # "sent",
           UNCHANGED <<jobs, attempts, calls>>, CoroutineAgrees(p, i)'
    PROVE  TablesInv'
<1>1. \A j \in JobIds : SameRow(j)
  BY DEF SameRow
<1>2. RowsAgree'
  BY <1>1, SameRowAgrees DEF TablesInv, RowsAgree
<1>3. CoroutinesAgree'
  <2> SUFFICES ASSUME NEW q \in Procs, NEW k \in Items
               PROVE  CoroutineAgrees(q, k)'
    BY DEF CoroutinesAgree
  <2>1. CASE q # p \/ k # i
    BY <1>1, <2>1, SameCoroutine DEF Others, TablesInv, CoroutinesAgree
  <2> QED BY <2>1
<1>4. OneSent'
  BY OneSentKept DEF TablesInv
<1> QED BY <1>2, <1>3, <1>4 DEF TablesInv

-----------------------------------------------------------------------------
(* Steps that only move a coroutine *)

LEMMA RestsAgree ==
    ASSUME NEW p \in Procs, NEW i \in Items, task'[p][i].pc \notin Attempting \cup {"begin"},
           task'[p][i].pc = "publish" /\ task'[p][i].verdict = "completed" =>
                task'[p][i].job \in JobIds /\ jobs'[task'[p][i].job].state = "succeeded"
    PROVE  CoroutineAgrees(p, i)'
BY DEF CoroutineAgrees, Attempting

LEMMA AttemptingAgrees ==
    ASSUME TablesInv, NEW p \in Procs, NEW i \in Items, task[p][i].pc \in Attempting,
           task'[p][i].pc \in {"failing", "received", "poll"},
           task'[p][i].job = task[p][i].job, task'[p][i].attempt = task[p][i].attempt,
           task'[p][i].pc = "failing" /\ task'[p][i].verdict = "retry" =>
                task[p][i].pc \in {"ready", "sent"},
           UNCHANGED jobs,
           attempts'[task[p][i].job][task[p][i].attempt].status =
                attempts[task[p][i].job][task[p][i].attempt].status,
           task'[p][i].pc = "failing" =>
                attempts'[task[p][i].job][task[p][i].attempt].request =
                attempts[task[p][i].job][task[p][i].attempt].request
    PROVE  CoroutineAgrees(p, i)'
<1>1. CoroutineAgrees(p, i)
  BY DEF TablesInv, CoroutinesAgree
<1>2. task[p][i].pc = "ready" => ~attempts[task[p][i].job][task[p][i].attempt].request
  BY DEF TablesInv, QueueInv, ReadyOK
<1> QED BY <1>1, <1>2 DEF CoroutineAgrees, Owns, Shown

LEMMA FailingAgrees ==
    ASSUME TablesInv, NEW p \in Procs, NEW i \in Items, NEW v,
           task[p][i].pc \in {"ready", "sent", "poll", "received"},
           v = "retry" => task[p][i].pc \in {"ready", "sent"},
           GotoWith(p, i, "failing", v), UNCHANGED <<jobs, attempts>>
    PROVE  Others(p, i) /\ task'[p][i].pc # "sent" /\ CoroutineAgrees(p, i)'
<1>1. /\ Others(p, i) /\ task'[p][i].pc = "failing" /\ task'[p][i].verdict = v
      /\ task'[p][i].job = task[p][i].job /\ task'[p][i].attempt = task[p][i].attempt
  BY GotoWithFrame DEF TablesInv, QueueInv
<1>2. CoroutineAgrees(p, i)'
  BY <1>1, AttemptingAgrees DEF Attempting
<1> QED BY <1>1, <1>2

LEMMA ReceivedAgrees ==
    ASSUME TablesInv, NEW p \in Procs, NEW i \in Items, NEW v, task[p][i].pc \in {"sent", "poll"},
           GotoWith(p, i, "received", v), UNCHANGED <<jobs, attempts>>
    PROVE  Others(p, i) /\ task'[p][i].pc # "sent" /\ CoroutineAgrees(p, i)'
<1>1. /\ Others(p, i) /\ task'[p][i].pc = "received"
      /\ task'[p][i].job = task[p][i].job /\ task'[p][i].attempt = task[p][i].attempt
  BY GotoWithFrame DEF TablesInv, QueueInv
<1>2. CoroutineAgrees(p, i)'
  BY <1>1, AttemptingAgrees DEF Attempting
<1> QED BY <1>1, <1>2

LEMMA RaiseAgrees ==
    ASSUME TablesInv, NEW p \in Procs, NEW i \in Items, Raise(p, i)
    PROVE  Others(p, i) /\ task'[p][i].pc # "sent" /\ CoroutineAgrees(p, i)'
<1>1. Others(p, i) /\ task'[p][i].pc = "publish" /\ task'[p][i].verdict = "failed"
  BY GotoWithFrame DEF TablesInv, QueueInv, Raise
<1> QED BY <1>1, RestsAgree DEF Attempting

LEMMA PlainAgrees ==
    ASSUME TablesInv, NEW p \in Procs, NEW i \in Items, NEW pc \in {"claim", "missed", "sleep", "look"},
           Goto(p, i, pc) \/ \E v \in Verdicts : GotoWith(p, i, pc, v)
    PROVE  Others(p, i) /\ task'[p][i].pc # "sent" /\ CoroutineAgrees(p, i)'
<1>1. Others(p, i) /\ task'[p][i].pc = pc
  BY GotoWithFrame, GotoFrame DEF TablesInv, QueueInv
<1> QED BY <1>1, RestsAgree DEF Attempting

LEMMA QuietTables ==
    ASSUME TablesInv, QueueInv', CompletedIsBacked', NEW p \in Procs, NEW i \in Items,
           \/ Look(p, i) \/ NotClaimed(p, i) \/ RequestNotStored(p, i) \/ Refused(p, i)
           \/ Unclear(p, i) \/ Answered(p, i) \/ Polled(p, i) \/ ArtifactNotStored(p, i)
           \/ Wake(p, i)
    PROVE  TablesInv'
<1>1. UNCHANGED <<jobs, attempts, calls>>
  BY DEF Look, NotClaimed, RequestNotStored, Refused, Unclear, Answered, Polled,
         ArtifactNotStored, Wake, db
<1>2. Others(p, i) /\ task'[p][i].pc # "sent" /\ CoroutineAgrees(p, i)'
  <2>1. CASE Look(p, i)
    BY <2>1, RaiseAgrees, PlainAgrees DEF Look, Verdicts
  <2>2. CASE NotClaimed(p, i)
    <3>1. ASSUME NEW v, GotoWith(p, i, "publish", v), v = "completed" => jobs[task[p][i].job].state = "succeeded"
          PROVE  Others(p, i) /\ task'[p][i].pc # "sent" /\ CoroutineAgrees(p, i)'
      <4>1. /\ Others(p, i) /\ task'[p][i].pc = "publish" /\ task'[p][i].verdict = v
            /\ task'[p][i].job = task[p][i].job
        BY <3>1, GotoWithFrame DEF TablesInv, QueueInv
      <4>2. task[p][i].job \in JobIds
        BY <2>2, EngagedJob DEF TablesInv, QueueInv, NotClaimed, At, Engaged, Locations, Suspended
      <4> QED BY <1>1, <3>1, <4>1, <4>2, RestsAgree DEF Attempting
    <3> QED BY <2>2, <3>1, RaiseAgrees DEF NotClaimed, Reuse
  <2>3. CASE RequestNotStored(p, i) \/ Unclear(p, i) \/ Refused(p, i) \/ ArtifactNotStored(p, i)
    BY <1>1, <2>3, FailingAgrees DEF RequestNotStored, Unclear, Refused, ArtifactNotStored, At
  <2>4. CASE Answered(p, i)
    BY <1>1, <2>4, ReceivedAgrees DEF Answered, At
  <2>5. CASE Polled(p, i)
    BY <1>1, <2>5, FailingAgrees, ReceivedAgrees DEF Polled, At
  <2>6. CASE Wake(p, i)
    BY <2>6, PlainAgrees DEF Wake
  <2> QED BY <2>1, <2>2, <2>3, <2>4, <2>5, <2>6
<1> QED BY <1>1, <1>2, MovesInv

(* ensure_job found a generation: a finished one is reused as it stands. *)
LEMMA EnsureExistingTables ==
    ASSUME TablesInv, QueueInv', CompletedIsBacked', NEW p \in Procs, NEW i \in Items,
           EnsureExisting(p, i)
    PROVE  TablesInv'
<1>1. UNCHANGED <<jobs, attempts, calls>>
  BY DEF EnsureExisting, db
<1>2. PICK j \in JobIds : Newest(j, i) /\ Adopt(p, i, j, jobs[j].state)
  BY DEF EnsureExisting
<1>3. /\ Others(p, i) /\ task'[p][i].job = j /\ task'[p][i].pc \in {"publish", "look"}
      /\ task'[p][i].verdict = "completed" => jobs[j].state = "succeeded"
  BY <1>2 DEF Adopt, TablesInv, QueueInv, TypeOK, TaskType, Others
<1>4. CoroutineAgrees(p, i)'
  BY <1>1, <1>3, RestsAgree DEF Attempting
<1> QED BY <1>1, <1>3, <1>4, MovesInv

(* A completed result is published on the strength of the job in the table. *)
LEMMA PublishTables ==
    ASSUME TablesInv, QueueInv', NEW p \in Procs, NEW i \in Items, Publish(p, i)
    PROVE  TablesInv'
<1>1. UNCHANGED <<jobs, attempts, calls>>
  BY DEF Publish
<1>2. Others(p, i) /\ task'[p][i].pc = "done"
  BY DEF Publish, NewTask, TablesInv, QueueInv, TypeOK, Others
<1>3. CoroutineAgrees(p, i)'
  BY <1>2, RestsAgree DEF Attempting
<1>4. CompletedIsBacked'
  <2> SUFFICES ASSUME NEW k \in Items, results'[k] = "completed"
               PROVE  \E j \in JobIds : jobs'[j].item = k /\ jobs'[j].state = "succeeded"
    BY DEF CompletedIsBacked, JobsOf
  <2>1. CASE results[k] = "completed"
    BY <1>1, <2>1 DEF TablesInv, CompletedIsBacked, JobsOf
  <2>2. CASE results[k] # "completed"
    <3>1. k = i /\ task[p][i].pc = "publish" /\ task[p][i].verdict = "completed"
      BY <2>2 DEF Publish, At, SetResult, TablesInv, QueueInv, TypeOK
    <3>2. task[p][i].job \in JobIds /\ jobs[task[p][i].job].state = "succeeded"
      BY <3>1 DEF TablesInv, CoroutinesAgree, CoroutineAgrees
    <3>3. jobs[task[p][i].job].item = i
      BY <3>2, ConstantsAssumption DEF TablesInv, QueueInv, TaskOK, JobIds
    <3> QED BY <1>1, <3>1, <3>2, <3>3
  <2> QED BY <2>1, <2>2
<1> QED BY <1>1, <1>2, <1>3, <1>4, MovesInv

-----------------------------------------------------------------------------
(* Steps that write the rows of one job *)

(* While a process owns a job, or may claim or recover it, no coroutine of  *)
(* another process has its call under way or reports it as a success.       *)
LEMMA Alone ==
    ASSUME TablesInv, NEW p \in Procs, NEW i \in Items, NEW j \in JobIds,
           Owns(p, j) \/ Claimable(j) \/ Resumable(j),
           NEW q \in Procs, q # p, task[q][i].job = j, task'[q][i] = task[q][i], ~Owns(q, j)'
    PROVE  CoroutineAgrees(q, i)'
<1>1. jobs[j].state \in {"running", "pending", "retry_wait", "unknown"}
  BY DEF Owns, Claimable, Resumable
<1>2. task[q][i].pc = "ready" => task[q][i].attempt = jobs[j].count
        /\ ~attempts[j][task[q][i].attempt].request /\ (jobs[j].state = "unknown" \/ Owns(q, j))
  BY DEF TablesInv, QueueInv, ReadyOK
<1>3. task[q][i].pc = "sent" => task[q][i].attempt = jobs[j].count
        /\ ~attempts[j][task[q][i].attempt].request /\ (jobs[j].state = "unknown" \/ Owns(q, j))
  <2> SUFFICES ASSUME task[q][i].pc = "sent"
               PROVE  task[q][i].attempt = jobs[j].count /\ ~attempts[j][task[q][i].attempt].request
                      /\ (jobs[j].state = "unknown" \/ Owns(q, j))
    OBVIOUS
  <2>1. /\ Open(j, task[q][i].attempt) /\ ~attempts[j][task[q][i].attempt].request
        /\ jobs[j].state = "unknown" \/ Owns(q, j)
    BY DEF TablesInv, CoroutinesAgree, CoroutineAgrees
  <2>2. task[q][i].attempt \in AttemptIds
    BY AttemptingTask DEF TablesInv, QueueInv, Attempting
  <2> QED BY <2>1, <2>2 DEF TablesInv, QueueInv, OpenOK
<1>4. task[q][i].pc \notin {"ready", "sent"}
  BY <1>2, <1>3 DEF Owns, Claimable, Resumable
<1>5. ~(task[q][i].pc = "publish" /\ task[q][i].verdict = "completed")
  BY <1>1 DEF TablesInv, CoroutinesAgree, CoroutineAgrees
<1> QED BY <1>4, <1>5, Outsider

(* A generation is inserted pending, with the whole budget ahead of it. *)
LEMMA NewRowAgrees ==
    ASSUME TablesInv, NEW j \in JobIds, jobs[j].state = "absent", jobs'[j].state = "pending",
           jobs'[j].count = 0, attempts'[j] = attempts[j], calls'[j] = calls[j]
    PROVE  RowAgrees(j)'
<1>1. RowAgrees(j)
  BY DEF TablesInv, RowsAgree
<1>2. \A n \in AttemptIds : ~Open(j, n)
  BY DEF TablesInv, QueueInv, OpenOK
<1>3. \A n \in AttemptIds : attempts[j][n].status # "running" /\ ~attempts[j][n].request
  BY <1>1, <1>2 DEF RowAgrees, Finished
<1>4. 0 < MaxAttempts
  BY ConstantsAssumption
<1> QED BY <1>2, <1>3, <1>4 DEF RowAgrees, Open, Finished

LEMMA EnsureNewTables ==
    ASSUME TablesInv, QueueInv', CompletedIsBacked', NEW p \in Procs, NEW i \in Items,
           EnsureNew(p, i)
    PROVE  TablesInv'
<1>1. PICK j \in JobIds : /\ \A k \in Taken : k < j
                          /\ jobs' = [jobs EXCEPT ![j] = NewJob(i, None, FALSE)]
                          /\ Adopt(p, i, j, "pending")
  BY DEF EnsureNew
<1>2. UNCHANGED <<attempts, calls>>
  BY DEF EnsureNew
<1>3. jobs[j].state = "absent"
  BY <1>1 DEF JobIds, Taken
<1>4. /\ jobs'[j].state = "pending" /\ jobs'[j].count = 0
      /\ \A k \in JobIds : k # j => SameRow(k)
  BY <1>1, <1>2 DEF TablesInv, QueueInv, TypeOK, NewJob, NoJob, SameRow
<1>5. /\ Others(p, i) /\ task'[p][i].pc \in {"publish", "look"}
      /\ task'[p][i].verdict # "completed"
  BY <1>1 DEF Adopt, TablesInv, QueueInv, TypeOK, TaskType, Others, Finished
<1>6. RowsAgree'
  <2>1. RowAgrees(j)'
    BY <1>2, <1>3, <1>4, NewRowAgrees
  <2> QED BY <1>4, <2>1, SameRowAgrees DEF TablesInv, RowsAgree
<1>7. CoroutinesAgree'
  <2> SUFFICES ASSUME NEW q \in Procs, NEW k \in Items
               PROVE  CoroutineAgrees(q, k)'
    BY DEF CoroutinesAgree
  <2>1. CASE q = p /\ k = i
    BY <1>5, <2>1, RestsAgree DEF Attempting
  <2>2. CASE q # p \/ k # i
    <3>1. task[q][k].job # j
      BY <1>3, ConstantsAssumption DEF TablesInv, QueueInv, TaskOK, JobIds
    <3> QED BY <1>4, <1>5, <2>2, <3>1, SameCoroutine DEF Others, TablesInv, CoroutinesAgree
  <2> QED BY <2>1, <2>2
<1>8. OneSent'
  BY <1>5, OneSentKept DEF TablesInv
<1> QED BY <1>6, <1>7, <1>8 DEF TablesInv

(* A claim leaves attempts and calls alone and takes the job for itself. *)
LEMMA LeasedRow ==
    ASSUME TablesInv, NEW p \in Procs, NEW j \in JobIds, Leased(j, p),
           jobs[j].state \in {"pending", "retry_wait", "unknown"}, UNCHANGED <<attempts, calls>>
    PROVE  /\ \A k \in JobIds : k # j => SameRow(k)
           /\ jobs'[j].state = "running" /\ jobs'[j].token = p /\ jobs'[j].count = jobs[j].count
           /\ RowAgrees(j)'
<1>1. /\ jobs'[j].state = "running" /\ jobs'[j].token = p /\ jobs'[j].count = jobs[j].count
      /\ \A k \in JobIds : k # j => SameRow(k)
  BY DEF Leased, TablesInv, QueueInv, TypeOK, JobType, SameRow
<1>2. RowAgrees(j)
  BY DEF TablesInv, RowsAgree
<1>3. RowAgrees(j)'
  BY <1>1, <1>2 DEF RowAgrees, Open, Shown, Finished
<1> QED BY <1>1, <1>3

LEMMA ClaimTables ==
    ASSUME TablesInv, QueueInv', CompletedIsBacked', NEW p \in Procs, NEW i \in Items, Claim(p, i)
    PROVE  TablesInv'
<1>1. PICK j \in JobIds : task[p][i].job = j
  BY EngagedJob DEF TablesInv, QueueInv, Claim, At, Engaged, Locations, Suspended
<1>2. UNCHANGED <<attempts, calls>>
  BY DEF Claim
<1>3. CASE UNCHANGED jobs /\ GotoWith(p, i, "missed", "none")
  BY <1>2, <1>3, PlainAgrees, MovesInv DEF Verdicts
<1>4. CASE Claimable(j) /\ Leased(j, p) /\ GotoWith(p, i, "begin", "none")
  <2>1. jobs[j].state \in {"pending", "retry_wait"}
    BY <1>4 DEF Claimable
  <2>2. /\ \A k \in JobIds : k # j => SameRow(k)
        /\ jobs'[j].token = p /\ RowAgrees(j)'
    BY <1>2, <1>1, <1>4, <2>1, LeasedRow
  <2>3. Others(p, i) /\ task'[p][i].pc = "begin" /\ task'[p][i].job = j
    BY <1>1, <1>4, GotoWithFrame DEF TablesInv, QueueInv
  <2>4. \A n \in AttemptIds : attempts[j][n].status # "running"
    BY <1>1, <2>1 DEF TablesInv, RowsAgree, RowAgrees
  <2>5. CoroutineAgrees(p, i)'
    BY <1>2, <2>3, <2>4 DEF CoroutineAgrees, Attempting
  <2>6. \A q \in Procs : q # p /\ task[q][i].job = j => CoroutineAgrees(q, i)'
    BY <1>1, <1>4, <2>2, <2>3, Alone DEF Others, Owns
  <2>7. OneSent'
    BY <2>3, OneSentKept DEF TablesInv
  <2> QED BY <1>1, <2>2, <2>3, <2>5, <2>6, <2>7, ActsInv
<1> QED BY <1>1, <1>3, <1>4 DEF Claim

(* A recovered attempt has a saved request, so its call is outstanding and  *)
(* it can still be settled.                                                 *)
LEMMA ClaimRecoveryTables ==
    ASSUME TablesInv, QueueInv', CompletedIsBacked', NEW p \in Procs, NEW i \in Items,
           ClaimRecovery(p, i)
    PROVE  TablesInv'
<1>1. PICK j \in JobIds : task[p][i].job = j
  BY EngagedJob DEF TablesInv, QueueInv, ClaimRecovery, At, Engaged, Locations, Suspended
<1>2. UNCHANGED <<attempts, calls>>
  BY DEF ClaimRecovery
<1>3. CASE UNCHANGED jobs /\ GotoWith(p, i, "missed", "none")
  BY <1>2, <1>3, PlainAgrees, MovesInv DEF Verdicts
<1>4. CASE /\ Resumable(j) /\ Leased(j, p)
           /\ task' = [task EXCEPT ![p][i] =
                 [@ EXCEPT !.pc = "poll", !.verdict = "none", !.attempt = jobs[j].count]]
  <2>1. jobs[j].state = "unknown" /\ jobs[j].count \in AttemptIds
    BY <1>1, <1>4, ConstantsAssumption
       DEF Resumable, TablesInv, QueueInv, TypeOK, JobType, AttemptIds
  <2>2. /\ \A k \in JobIds : k # j => SameRow(k)
        /\ jobs'[j].token = p /\ RowAgrees(j)'
    BY <1>2, <1>1, <1>4, <2>1, LeasedRow
  <2>3. /\ Others(p, i) /\ task'[p][i].pc = "poll" /\ task'[p][i].job = j
        /\ task'[p][i].attempt = jobs[j].count
    BY <1>1, <1>4 DEF TablesInv, QueueInv, TypeOK, TaskType, Others
  <2>4. Shown(j, jobs[j].count)
    BY <1>1, <1>4, <2>1 DEF Resumable, TablesInv, RowsAgree, RowAgrees, Finished
  <2>5. CoroutineAgrees(p, i)'
    BY <1>2, <2>3, <2>4 DEF CoroutineAgrees, Attempting, Shown
  <2>6. \A q \in Procs : q # p /\ task[q][i].job = j => CoroutineAgrees(q, i)'
    BY <1>1, <1>4, <2>2, <2>3, Alone DEF Others, Owns
  <2>7. OneSent'
    BY <2>3, OneSentKept DEF TablesInv
  <2> QED BY <1>1, <2>2, <2>3, <2>5, <2>6, <2>7, ActsInv
<1> QED BY <1>1, <1>3, <1>4 DEF ClaimRecovery

(* The attempt begun is the only one shown as running. *)
LEMMA BeginAttemptTables ==
    ASSUME TablesInv, QueueInv', CompletedIsBacked', NEW p \in Procs, NEW i \in Items,
           BeginAttempt(p, i)
    PROVE  TablesInv'
<1>1. PICK j \in JobIds : task[p][i].job = j
  BY EngagedJob DEF TablesInv, QueueInv, BeginAttempt, At, Engaged, Locations, Suspended
<1>2. UNCHANGED calls /\ task[p][i].pc = "begin"
  BY DEF BeginAttempt, At
<1>3. CASE Raise(p, i) /\ UNCHANGED <<jobs, attempts>>
  BY <1>2, <1>3, RaiseAgrees, MovesInv
<1>4. ASSUME NEW n, n = jobs[j].count + 1, Owns(p, j), jobs[j].count < MaxAttempts,
             jobs' = [jobs EXCEPT ![j] = [@ EXCEPT !.count = n]],
             attempts' = [attempts EXCEPT ![j][n] = [status |-> "running", request |-> FALSE]],
             task' = [task EXCEPT ![p][i] = [@ EXCEPT !.pc = "ready", !.attempt = n]]
      PROVE  TablesInv'
  <2>1. n \in AttemptIds
    BY <1>4, ConstantsAssumption DEF TablesInv, QueueInv, TypeOK, JobType, AttemptIds
  <2>2. /\ jobs'[j].state = "running" /\ jobs'[j].token = p /\ jobs'[j].count = n
        /\ \A k \in JobIds : k # j => jobs'[k] = jobs[k]
    BY <1>4 DEF TablesInv, QueueInv, TypeOK, JobType, Owns
  <2>3. /\ attempts'[j][n] = [status |-> "running", request |-> FALSE]
        /\ \A m \in AttemptIds : m # n => attempts'[j][m] = attempts[j][m]
        /\ \A k \in JobIds : k # j => attempts'[k] = attempts[k]
    BY <1>4, <2>1 DEF TablesInv, QueueInv, TypeOK
  <2>4. /\ Others(p, i) /\ task'[p][i].pc = "ready" /\ task'[p][i].job = j
        /\ task'[p][i].attempt = n
    BY <1>1, <1>4 DEF TablesInv, QueueInv, TypeOK, TaskType, Others
  <2>5. \A m \in AttemptIds : ~Open(j, m) /\ attempts[j][m].status # "running"
    BY <1>1, <1>2, <1>4, ConstantsAssumption
       DEF TablesInv, QueueInv, OwnerOK, CoroutinesAgree, CoroutineAgrees, JobIds
  <2>6. RowAgrees(j)
    BY DEF TablesInv, RowsAgree
  <2>7. RowAgrees(j)'
    BY <1>2, <1>4, <2>2, <2>3, <2>5, <2>6 DEF RowAgrees, Open, Shown, Finished, Owns
  <2>8. CoroutineAgrees(p, i)'
    BY <2>3, <2>4 DEF CoroutineAgrees, Shown
  <2>9. \A k \in JobIds : k # j => SameRow(k)
    BY <1>2, <2>2, <2>3 DEF SameRow
  <2>10. \A q \in Procs : q # p /\ task[q][i].job = j => CoroutineAgrees(q, i)'
    BY <1>4, <2>2, <2>4, Alone DEF Others, Owns
  <2>11. OneSent'
    BY <2>4, OneSentKept DEF TablesInv
  <2> QED BY <1>1, <2>4, <2>7, <2>8, <2>9, <2>10, <2>11, ActsInv
<1> QED BY <1>1, <1>3, <1>4 DEF BeginAttempt

(* Steps of a coroutine that change no row of jobs and nobody else's attempt:*)
(* another process's coroutine on the same job has no call under way.       *)
LEMMA Bystander ==
    ASSUME TablesInv, NEW i \in Items, NEW j \in JobIds, NEW q \in Procs,
           task[q][i].job = j, task'[q][i] = task[q][i], task[q][i].pc # "sent", UNCHANGED jobs,
           \A m \in AttemptIds : attempts'[j][m].status = attempts[j][m].status,
           Owns(q, j) => attempts'[j] = attempts[j]
    PROVE  CoroutineAgrees(q, i)'
<1>1. CoroutineAgrees(q, i)
  BY DEF TablesInv, CoroutinesAgree
<1>2. task[q][i].pc \in Attempting => task[q][i].attempt \in AttemptIds
  BY AttemptingTask DEF TablesInv, QueueInv
<1> QED BY <1>1, <1>2 DEF CoroutineAgrees, Owns, Shown, Attempting

LEMMA SendTables ==
    ASSUME TablesInv, QueueInv', CompletedIsBacked', NEW p \in Procs, NEW i \in Items, Send(p, i)
    PROVE  TablesInv'
<1>1. task[p][i].pc = "ready" /\ UNCHANGED <<jobs, attempts>>
  BY DEF Send, At, db
<1>2. PICK j \in JobIds, n \in AttemptIds : task[p][i].job = j /\ task[p][i].attempt = n
  BY <1>1, AttemptingTask DEF TablesInv, QueueInv, Attempting
<1>3. /\ calls'[j][n] = "open" /\ \A m \in AttemptIds : m # n => calls'[j][m] = calls[j][m]
      /\ \A k \in JobIds : k # j => calls'[k] = calls[k]
  BY <1>2 DEF Send, TablesInv, QueueInv, TypeOK
<1>4. /\ Others(p, i) /\ task'[p][i].pc = "sent" /\ task'[p][i].job = j
      /\ task'[p][i].attempt = n
  BY <1>2, GotoFrame DEF Send, TablesInv, QueueInv
<1>5. /\ ~attempts[j][n].request /\ \A m \in AttemptIds : ~Open(j, m)
      /\ jobs[j].state = "unknown" \/ Owns(p, j)
      /\ Shown(j, n)
  BY <1>1, <1>2 DEF TablesInv, QueueInv, ReadyOK, CoroutinesAgree, CoroutineAgrees
<1>6. RowAgrees(j)
  BY DEF TablesInv, RowsAgree
<1>7. RowAgrees(j)'
  BY <1>1, <1>3, <1>5, <1>6 DEF RowAgrees, Open, Shown, Finished, Owns
<1>8. CoroutineAgrees(p, i)'
  BY <1>1, <1>3, <1>4, <1>5 DEF CoroutineAgrees, Open, Shown, Owns
<1>9. \A k \in JobIds : k # j => SameRow(k)
  BY <1>1, <1>3 DEF SameRow
<1>10. ASSUME NEW q \in Procs, q # p, task[q][i].job = j
       PROVE  task[q][i].pc # "sent" /\ task'[q][i] = task[q][i]
  <2>1. task[q][i].pc = "sent" => task[q][i].attempt \in AttemptIds /\ Open(j, task[q][i].attempt)
    BY <1>10, AttemptingTask
       DEF TablesInv, QueueInv, CoroutinesAgree, CoroutineAgrees, Attempting
  <2> QED BY <1>4, <1>5, <1>10, <2>1 DEF Others
<1>11. \A q \in Procs : q # p /\ task[q][i].job = j => CoroutineAgrees(q, i)'
  BY <1>1, <1>10, Bystander
<1>12. OneSent'
  BY <1>4, <1>10 DEF TablesInv, OneSent, Others
<1> QED BY <1>2, <1>4, <1>7, <1>8, <1>9, <1>11, <1>12, ActsInv

(* What holds of a coroutine whose call is in flight. *)
LEMMA SentFacts ==
    ASSUME TablesInv, NEW p \in Procs, NEW i \in Items, task[p][i].pc = "sent"
    PROVE  \E j \in JobIds, n \in AttemptIds :
              /\ task[p][i].job = j /\ task[p][i].attempt = n
              /\ Open(j, n) /\ ~attempts[j][n].request
              /\ jobs[j].state = "unknown" \/ Owns(p, j)
              /\ \A q \in Procs : q # p /\ task[q][i].job = j => task[q][i].pc # "sent"
<1>1. PICK j \in JobIds, n \in AttemptIds : task[p][i].job = j /\ task[p][i].attempt = n
  BY AttemptingTask DEF TablesInv, QueueInv, Attempting
<1>2. /\ Open(j, n) /\ ~attempts[j][n].request
      /\ jobs[j].state = "unknown" \/ Owns(p, j)
  BY <1>1 DEF TablesInv, CoroutinesAgree, CoroutineAgrees
<1>3. \A q \in Procs : q # p /\ task[q][i].job = j => task[q][i].pc # "sent"
  BY <1>1 DEF TablesInv, OneSent
<1> QED BY <1>1, <1>2, <1>3

LEMMA AnswerDroppedTables ==
    ASSUME TablesInv, QueueInv', CompletedIsBacked', NEW p \in Procs, NEW i \in Items,
           AnswerDropped(p, i)
    PROVE  TablesInv'
<1>1. task[p][i].pc = "sent" /\ UNCHANGED <<jobs, attempts>>
  BY DEF AnswerDropped, At, db
<1>2. PICK j \in JobIds, n \in AttemptIds :
              /\ task[p][i].job = j /\ task[p][i].attempt = n
              /\ Open(j, n) /\ ~attempts[j][n].request
              /\ jobs[j].state = "unknown" \/ Owns(p, j)
              /\ \A q \in Procs : q # p /\ task[q][i].job = j => task[q][i].pc # "sent"
  BY <1>1, SentFacts
<1>3. /\ calls'[j][n] = "dropped" /\ \A m \in AttemptIds : m # n => calls'[j][m] = calls[j][m]
      /\ \A k \in JobIds : k # j => calls'[k] = calls[k]
  BY <1>2 DEF AnswerDropped, TablesInv, QueueInv, TypeOK
<1>4. Others(p, i) /\ task'[p][i].pc # "sent" /\ CoroutineAgrees(p, i)'
  BY <1>1, FailingAgrees DEF AnswerDropped
<1>5. RowAgrees(j)
  BY DEF TablesInv, RowsAgree
<1>6. RowAgrees(j)'
  BY <1>1, <1>2, <1>3, <1>5 DEF RowAgrees, Open, Shown, Finished, Owns
<1>7. \A k \in JobIds : k # j => SameRow(k)
  BY <1>1, <1>3 DEF SameRow
<1>8. \A q \in Procs : q # p /\ task[q][i].job = j => CoroutineAgrees(q, i)'
  BY <1>1, <1>2, <1>4, Bystander DEF Others
<1>9. OneSent'
  BY <1>4, OneSentKept DEF TablesInv
<1> QED BY <1>2, <1>4, <1>6, <1>7, <1>8, <1>9, ActsInv

(* The request ID of the call in flight is saved, whoever owns the job.     *)
LEMMA QueuedTables ==
    ASSUME TablesInv, QueueInv', CompletedIsBacked', NEW p \in Procs, NEW i \in Items, Queued(p, i)
    PROVE  TablesInv'
<1>1. task[p][i].pc = "sent" /\ UNCHANGED <<jobs, calls>>
  BY DEF Queued, At
<1>2. PICK j \in JobIds, n \in AttemptIds :
              /\ task[p][i].job = j /\ task[p][i].attempt = n
              /\ Open(j, n) /\ ~attempts[j][n].request
              /\ jobs[j].state = "unknown" \/ Owns(p, j)
              /\ \A q \in Procs : q # p /\ task[q][i].job = j => task[q][i].pc # "sent"
  BY <1>1, SentFacts
<1>3. CASE UNCHANGED attempts /\ GotoWith(p, i, "failing", "unknown")
  <2>1. Others(p, i) /\ task'[p][i].pc # "sent" /\ CoroutineAgrees(p, i)'
    BY <1>1, <1>3, FailingAgrees
  <2> QED BY <1>1, <1>3, <2>1, MovesInv
<1>4. CASE /\ attempts' = [attempts EXCEPT ![j][n] = [@ EXCEPT !.request = TRUE]]
           /\ Goto(p, i, "poll")
  <2>1. /\ \A m \in AttemptIds : attempts'[j][m].status = attempts[j][m].status
        /\ \A m \in AttemptIds : m # n => attempts'[j][m] = attempts[j][m]
        /\ \A k \in JobIds : k # j => attempts'[k] = attempts[k]
    BY <1>4 DEF TablesInv, QueueInv, TypeOK, AttemptType
  <2>2. /\ Others(p, i) /\ task'[p][i].pc = "poll"
        /\ task'[p][i].job = task[p][i].job /\ task'[p][i].attempt = task[p][i].attempt
    BY <1>4, GotoFrame DEF TablesInv, QueueInv
  <2>3. CoroutineAgrees(p, i)'
    BY <1>1, <1>2, <2>1, <2>2, AttemptingAgrees DEF Attempting
  <2>4. RowAgrees(j)
    BY DEF TablesInv, RowsAgree
  <2>5. RowAgrees(j)'
    BY <1>1, <1>2, <2>1, <2>4 DEF RowAgrees, Open, Shown
  <2>6. \A k \in JobIds : k # j => SameRow(k)
    BY <1>1, <2>1 DEF SameRow
  <2>7. \A q \in Procs : q # p /\ task[q][i].job = j => CoroutineAgrees(q, i)'
    BY <1>1, <1>2, <2>1, <2>2, Bystander DEF Others, Owns
  <2>8. OneSent'
    BY <2>2, OneSentKept DEF TablesInv
  <2> QED BY <1>2, <2>2, <2>3, <2>5, <2>6, <2>7, <2>8, ActsInv
<1> QED BY <1>2, <1>3, <1>4 DEF Queued, RequestSaved

(* The owner lets go of its job, whose rows agree as it leaves them. *)
LEMMA ReleaseTables ==
    ASSUME TablesInv, QueueInv', CompletedIsBacked', NEW p \in Procs, NEW i \in Items,
           NEW j \in JobIds, task[p][i].job = j, Owns(p, j), Others(p, i),
           jobs'[j].state # "running", RowAgrees(j)',
           \A k \in JobIds : k # j => SameRow(k),
           task'[p][i].pc \in {"publish", "sleep"}, task'[p][i].job = j,
           task'[p][i].pc = "publish" /\ task'[p][i].verdict = "completed" =>
                jobs'[j].state = "succeeded"
    PROVE  TablesInv'
<1>1. CoroutineAgrees(p, i)'
  BY RestsAgree DEF Attempting
<1>2. \A q \in Procs : q # p /\ task[q][i].job = j => CoroutineAgrees(q, i)'
  BY Alone DEF Others, Owns
<1>3. OneSent'
  BY OneSentKept DEF TablesInv
<1> QED BY <1>1, <1>2, <1>3, ActsInv

(* The owner's attempt is the last one, can still be settled, and is the    *)
(* only one shown as running or called and not answered.                    *)
LEMMA OwnerFacts ==
    ASSUME TablesInv, NEW p \in Procs, NEW i \in Items, NEW j \in JobIds, NEW n \in AttemptIds,
           task[p][i].pc \in Attempting, task[p][i].job = j, task[p][i].attempt = n, Owns(p, j)
    PROVE  /\ n = jobs[j].count /\ Shown(j, n)
           /\ \A m \in AttemptIds : attempts[j][m].status = "running" => m = n
           /\ \A m \in AttemptIds : Open(j, m) => m = n
           /\ \A m \in AttemptIds : attempts[j][m].request => Open(j, m)
<1>1. n = jobs[j].count
  BY ConstantsAssumption DEF TablesInv, QueueInv, OwnerOK, JobIds
<1>2. Shown(j, n)
  BY DEF TablesInv, CoroutinesAgree, CoroutineAgrees
<1>3. RowAgrees(j)
  BY DEF TablesInv, RowsAgree
<1>4. \A m \in AttemptIds : Open(j, m) => m = n
  BY <1>1 DEF TablesInv, QueueInv, OpenOK
<1> QED BY <1>1, <1>2, <1>3, <1>4 DEF RowAgrees, Owns, Finished

LEMMA CompleteTables ==
    ASSUME TablesInv, QueueInv', CompletedIsBacked', NEW p \in Procs, NEW i \in Items,
           Complete(p, i)
    PROVE  TablesInv'
<1>1. task[p][i].pc = "received" /\ task[p][i].pc \in Attempting
  BY DEF Complete, At, Attempting
<1>2. PICK j \in JobIds, n \in AttemptIds : task[p][i].job = j /\ task[p][i].attempt = n
  BY <1>1, AttemptingTask DEF TablesInv, QueueInv
<1>3. CASE GotoWith(p, i, "failing", "unknown") /\ UNCHANGED <<jobs, attempts, calls>>
  <2>1. Others(p, i) /\ task'[p][i].pc # "sent" /\ CoroutineAgrees(p, i)'
    BY <1>1, <1>3, FailingAgrees
  <2> QED BY <1>3, <2>1, MovesInv
<1>4. ASSUME NEW status,
             status = IF task[p][i].verdict = "completed" THEN "succeeded" ELSE "needs_review",
             Owns(p, j),
             jobs' = [jobs EXCEPT ![j] = [@ EXCEPT !.state = status, !.token = None,
                                                !.live = FALSE, !.erred = FALSE]],
             attempts' = [attempts EXCEPT ![j] = Completed(j, status)],
             calls' = [calls EXCEPT ![j][n] = "settled"],
             Goto(p, i, "publish")
      PROVE  TablesInv'
  <2>1. /\ n = jobs[j].count /\ Shown(j, n)
        /\ \A m \in AttemptIds : attempts[j][m].status = "running" => m = n
        /\ \A m \in AttemptIds : Open(j, m) => m = n
    BY <1>1, <1>2, <1>4, OwnerFacts
  <2>2. status \in Finished
    BY <1>4 DEF Finished
  <2>3. /\ jobs'[j].state = status /\ jobs'[j].count = n
        /\ \A k \in JobIds : k # j => jobs'[k] = jobs[k]
    BY <1>4, <2>1 DEF TablesInv, QueueInv, TypeOK, JobType
  <2>4. /\ calls'[j][n] = "settled" /\ \A m \in AttemptIds : m # n => calls'[j][m] = calls[j][m]
        /\ \A k \in JobIds : k # j => calls'[k] = calls[k]
    BY <1>4 DEF TablesInv, QueueInv, TypeOK
  <2>5. /\ attempts'[j] = Completed(j, status)
        /\ \A k \in JobIds : k # j => attempts'[k] = attempts[k]
    BY <1>4 DEF TablesInv, QueueInv, TypeOK
  <2>6. /\ attempts'[j][n].status = status
        /\ \A m \in AttemptIds : attempts'[j][m].status # "running"
    <3>1. attempts[j] \in [AttemptIds -> AttemptType]
      BY DEF TablesInv, QueueInv, TypeOK
    <3>2. ASSUME NEW m \in AttemptIds
          PROVE  /\ m = n => attempts'[j][m].status = status
                 /\ attempts'[j][m].status # "running"
      <4>1. attempts[j][m] \in AttemptType
        BY <3>1
      <4>2. m # n => attempts[j][m].status # "running"
        BY <2>1
      <4> QED BY <2>1, <2>2, <2>5, <4>1, <4>2 DEF Completed, Shown, Finished, AttemptType
    <3> QED BY <3>2
  <2>7. RowAgrees(j)'
    BY <2>1, <2>2, <2>3, <2>4, <2>6 DEF RowAgrees, Open, Finished
  <2>8. \A k \in JobIds : k # j => SameRow(k)
    BY <2>3, <2>4, <2>5 DEF SameRow
  <2>9. /\ Others(p, i) /\ task'[p][i].pc = "publish" /\ task'[p][i].job = j
        /\ task'[p][i].verdict = task[p][i].verdict
    BY <1>2, <1>4, GotoFrame DEF TablesInv, QueueInv
  <2> QED BY <1>2, <1>4, <2>2, <2>3, <2>7, <2>8, <2>9, ReleaseTables DEF Finished
<1> QED BY <1>2, <1>3, <1>4 DEF Complete

LEMMA FailTables ==
    ASSUME TablesInv, QueueInv', CompletedIsBacked', NEW p \in Procs, NEW i \in Items, Fail(p, i)
    PROVE  TablesInv'
<1>1. task[p][i].pc = "failing" /\ task[p][i].pc \in Attempting
  BY DEF Fail, At, Attempting
<1>2. PICK j \in JobIds, n \in AttemptIds : task[p][i].job = j /\ task[p][i].attempt = n
  BY <1>1, AttemptingTask DEF TablesInv, QueueInv
<1>3. CASE Raise(p, i) /\ UNCHANGED <<jobs, attempts, calls>>
  BY <1>3, RaiseAgrees, MovesInv
<1>4. PICK class, state, shown : /\ class = task[p][i].verdict /\ state = FailedState(j, class)
                                 /\ shown = IF class = "unknown" THEN "unknown" ELSE "failed"
  OBVIOUS
<1>5. CASE /\ Owns(p, j)
           /\ jobs' = [jobs EXCEPT ![j] = [@ EXCEPT !.state = state, !.token = None, !.live = FALSE,
                                            !.erred = TRUE, !.due = (state # "retry_wait")]]
           /\ attempts' = [attempts EXCEPT ![j] = EndAttempts(j, shown)]
           /\ calls' = [calls EXCEPT ![j][n] = Settle(j, n, class)]
           /\ IF state = "retry_wait" THEN GotoWith(p, i, "sleep", "none") ELSE Raise(p, i)
  <2>1. /\ n = jobs[j].count /\ Shown(j, n)
        /\ \A m \in AttemptIds : attempts[j][m].status = "running" => m = n
        /\ \A m \in AttemptIds : Open(j, m) => m = n
        /\ \A m \in AttemptIds : attempts[j][m].request => Open(j, m)
    BY <1>1, <1>2, <1>4, <1>5, OwnerFacts
  <2>2. /\ state \in {"unknown", "retry_wait", "failed"}
        /\ state = "retry_wait" => class = "retry" /\ jobs[j].count < MaxAttempts
        /\ state = "unknown" <=> class = "unknown"
    BY <1>4, <1>5 DEF FailedState
  <2>3. /\ jobs'[j].state = state /\ jobs'[j].count = n
        /\ \A k \in JobIds : k # j => jobs'[k] = jobs[k]
    BY <1>4, <1>5, <2>1 DEF TablesInv, QueueInv, TypeOK, JobType
  <2>4. /\ calls'[j][n] = Settle(j, n, class)
        /\ \A m \in AttemptIds : m # n => calls'[j][m] = calls[j][m]
        /\ \A k \in JobIds : k # j => calls'[k] = calls[k]
    BY <1>4, <1>5 DEF TablesInv, QueueInv, TypeOK
  <2>5. /\ attempts'[j] = EndAttempts(j, shown)
        /\ \A k \in JobIds : k # j => attempts'[k] = attempts[k]
    BY <1>4, <1>5 DEF TablesInv, QueueInv, TypeOK
  <2>6. ASSUME NEW m \in AttemptIds
        PROVE  /\ attempts'[j][m].status # "running"
               /\ attempts'[j][m].request = attempts[j][m].request
               /\ m = n /\ class = "unknown" => attempts'[j][m].status = "unknown"
    <3>1. attempts[j][m] \in AttemptType
      BY DEF TablesInv, QueueInv, TypeOK
    <3> QED BY <1>4, <1>5, <2>1, <2>5, <3>1 DEF EndAttempts, Shown, AttemptType
  <2>7. \A m \in AttemptIds : Open(j, m)' => m = n /\ class = "unknown" /\ Open(j, m)
    BY <2>1, <2>4 DEF Open, Settle
  <2>8. class = "retry" => ~attempts[j][n].request
    BY <1>1, <1>2, <1>4, <1>5 DEF TablesInv, CoroutinesAgree, CoroutineAgrees
  <2>9. \A m \in AttemptIds : attempts'[j][m].request => Open(j, m)' \/ state = "failed"
    BY <2>1, <2>2, <2>4, <2>6, <2>8 DEF Open, Settle
  <2>10. RowAgrees(j)'
    BY <2>1, <2>2, <2>3, <2>6, <2>7, <2>9 DEF RowAgrees, Shown, Finished
  <2>11. \A k \in JobIds : k # j => SameRow(k)
    BY <2>3, <2>4, <2>5 DEF SameRow
  <2>12. /\ Others(p, i) /\ task'[p][i].pc \in {"publish", "sleep"} /\ task'[p][i].job = j
         /\ task'[p][i].verdict # "completed"
    BY <1>2, <1>4, <1>5, GotoWithFrame DEF TablesInv, QueueInv, Raise
  <2> QED BY <1>2, <1>4, <1>5, <2>2, <2>3, <2>10, <2>11, <2>12, ReleaseTables
<1> QED BY <1>2, <1>3, <1>4, <1>5 DEF Fail

LEMMA StepTables ==
    ASSUME TablesInv, QueueInv', NEW p \in Procs, NEW i \in Items, Step(p, i)
    PROVE  TablesInv'
<1>1. CASE Publish(p, i)
  BY <1>1, PublishTables
<1>2. CASE ~Publish(p, i)
  <2>1. UNCHANGED results
    BY <1>2 DEF Step, EnsureExisting, EnsureNew, Look, Claim, ClaimRecovery, NotClaimed,
                BeginAttempt, RequestNotStored, Send, Refused, Unclear, Answered, AnswerDropped,
                Queued, Polled, ArtifactNotStored, Complete, Fail, Wake, db
  <2>2. Next
    BY DEF Next
  <2>3. CompletedIsBacked'
    BY <2>1, <2>2, BackedKept DEF TablesInv
  <2> QED BY <1>2, <2>3, EnsureExistingTables, EnsureNewTables, QuietTables, ClaimTables,
             ClaimRecoveryTables, BeginAttemptTables, SendTables, AnswerDroppedTables,
             QueuedTables, CompleteTables, FailTables DEF Step
<1> QED BY <1>1, <1>2

-----------------------------------------------------------------------------
(* Commands and the clock *)

(* An expired job becomes unknown: what its coroutine has under way stays   *)
(* outstanding, and nobody owns it any more.                                *)
LEMMA ReconcileTables ==
    ASSUME TablesInv, QueueInv', CompletedIsBacked', NEW p \in Procs, Reconcile(p)
    PROVE  TablesInv'
<1>1. UNCHANGED <<task, calls>>
  BY DEF Reconcile
<1>2. ASSUME NEW j \in JobIds, ~Expired(j)
      PROVE  SameRow(j)
  BY <1>1, <1>2 DEF Reconcile, SameRow
<1>3. ASSUME NEW j \in JobIds, Expired(j)
      PROVE  /\ jobs[j].state = "running" /\ jobs'[j].state = "unknown"
             /\ jobs'[j].count = jobs[j].count
             /\ \A n \in AttemptIds :
                   /\ attempts'[j][n].status # "running"
                   /\ attempts'[j][n].request = attempts[j][n].request
                   /\ Shown(j, n) => attempts'[j][n].status = "unknown"
  <2>1. /\ jobs'[j] = Expire(j) /\ attempts'[j] = EndAttempts(j, "unknown")
        /\ jobs[j] \in JobType /\ jobs[j].state = "running"
    BY <1>3 DEF Reconcile, TablesInv, QueueInv, TypeOK, Expired
  <2>2. ASSUME NEW n \in AttemptIds
        PROVE  /\ attempts'[j][n].status # "running"
               /\ attempts'[j][n].request = attempts[j][n].request
               /\ Shown(j, n) => attempts'[j][n].status = "unknown"
    <3>1. attempts[j][n] \in AttemptType
      BY DEF TablesInv, QueueInv, TypeOK
    <3> QED BY <2>1, <3>1 DEF EndAttempts, AttemptType, Shown
  <2> QED BY <2>1, <2>2 DEF Expire, JobType
<1>4. RowsAgree'
  <2> SUFFICES ASSUME NEW j \in JobIds PROVE RowAgrees(j)'
    BY DEF RowsAgree
  <2>1. RowAgrees(j)
    BY DEF TablesInv, RowsAgree
  <2>2. CASE Expired(j)
    <3>1. \A n \in AttemptIds : Open(j, n)' => attempts'[j][n].status = "unknown"
      BY <1>1, <1>3, <2>1, <2>2 DEF RowAgrees, Open
    <3>2. \A n \in AttemptIds : attempts'[j][n].request => Open(j, n)'
      BY <1>1, <1>3, <2>1, <2>2 DEF RowAgrees, Open, Finished
    <3> QED BY <1>3, <2>2, <3>1, <3>2 DEF RowAgrees, Shown, Finished
  <2>3. CASE ~Expired(j)
    BY <1>2, <2>1, <2>3, SameRowAgrees
  <2> QED BY <2>2, <2>3
<1>5. CoroutinesAgree'
  <2> SUFFICES ASSUME NEW q \in Procs, NEW k \in Items PROVE CoroutineAgrees(q, k)'
    BY DEF CoroutinesAgree
  <2>1. CoroutineAgrees(q, k)
    BY DEF TablesInv, CoroutinesAgree
  <2>2. CASE task[q][k].job \in JobIds /\ Expired(task[q][k].job)
    <3>1. PICK j \in JobIds : j = task[q][k].job /\ Expired(j)
      BY <2>2
    <3>2. ~Owns(q, j)' /\ jobs'[j].state = "unknown" /\ jobs[j].state # "succeeded"
      BY <1>3, <3>1 DEF Owns
    <3>3. task[q][k].pc \in {"ready", "sent"} => task[q][k].attempt \in AttemptIds
      BY AttemptingTask DEF TablesInv, QueueInv, Attempting
    <3> QED BY <1>1, <1>3, <2>1, <3>1, <3>2, <3>3 DEF CoroutineAgrees, Shown, Open
  <2>3. CASE task[q][k].job \in JobIds => ~Expired(task[q][k].job)
    BY <1>1, <1>2, <2>1, <2>3, SameCoroutine DEF TablesInv
  <2> QED BY <2>2, <2>3
<1>6. OneSent'
  BY <1>1 DEF TablesInv, OneSent
<1> QED BY <1>4, <1>5, <1>6 DEF TablesInv

(* Coroutines that start or vanish owe nothing to the tables. *)
LEMMA RestartAgrees ==
    ASSUME TablesInv, NEW p \in Procs, NEW pc \in {"ensure", "idle"},
           task' = [task EXCEPT ![p] = [i \in Items |-> NewTask(pc)]],
           \A j \in JobIds : jobs[j].state # "absent" => SameRow(j)
    PROVE  CoroutinesAgree' /\ OneSent'
<1>1. /\ \A k \in Items : task'[p][k].pc = pc
      /\ \A q \in Procs, k \in Items : q # p => task'[q][k] = task[q][k]
  BY DEF TablesInv, QueueInv, TypeOK, NewTask
<1>2. ASSUME NEW q \in Procs, NEW k \in Items
      PROVE  CoroutineAgrees(q, k)'
  <2>1. CASE q = p
    BY <1>1, <2>1, RestsAgree DEF Attempting
  <2>2. CASE q # p
    <3>1. task[q][k].job \in JobIds => jobs[task[q][k].job].state # "absent"
      BY ConstantsAssumption DEF TablesInv, QueueInv, TaskOK, JobIds
    <3> QED BY <1>1, <2>2, <3>1, SameCoroutine DEF TablesInv, CoroutinesAgree
  <2> QED BY <2>1, <2>2
<1>3. OneSent'
  BY <1>1 DEF TablesInv, OneSent
<1> QED BY <1>2, <1>3 DEF CoroutinesAgree

LEMMA CommandTables ==
    ASSUME TablesInv, QueueInv', CompletedIsBacked', NEW p \in Procs, Command(p)
    PROVE  TablesInv'
<1>1. CASE Reconcile(p)
  BY <1>1, ReconcileTables
<1>2. CASE Resume(p) \/ Finish(p) \/ Crash(p)
  <2>1. \A j \in JobIds : SameRow(j)
    BY <1>2 DEF Resume, Finish, Crash, SameRow
  <2>2. CoroutinesAgree' /\ OneSent'
    BY <1>2, <2>1, RestartAgrees DEF Resume, Start, Finish, Crash
  <2> QED BY <2>1, <2>2, SameRowAgrees DEF TablesInv, RowsAgree
<1>3. CASE RetrySelect(p)
  <2>1. UNCHANGED <<jobs, attempts, calls, task>>
    BY <1>3 DEF RetrySelect
  <2>2. \A j \in JobIds : SameRow(j)
    BY <2>1 DEF SameRow
  <2> QED BY <2>1, <2>2, SameRowAgrees, SameCoroutine
          DEF TablesInv, RowsAgree, CoroutinesAgree, OneSent
<1>4. CASE RetryInsert(p)
  <2>1. UNCHANGED <<attempts, calls>>
    BY <1>4 DEF RetryInsert
  <2>2. ASSUME NEW j \in JobIds
        PROVE  RowAgrees(j)' /\ (jobs[j].state # "absent" => SameRow(j))
    <3>1. CASE selected[p][j] = None
      <4>1. SameRow(j)
        BY <1>4, <2>1, <3>1 DEF RetryInsert, SameRow
      <4> QED BY <4>1, SameRowAgrees DEF TablesInv, RowsAgree
    <3>2. CASE selected[p][j] # None
      <4>1. jobs[j].state = "absent"
        BY <3>2 DEF TablesInv, QueueInv, SelectedOK
      <4>2. jobs'[j].state = "pending" /\ jobs'[j].count = 0
        BY <1>4, <3>2 DEF RetryInsert, NewJob, NoJob
      <4> QED BY <2>1, <4>1, <4>2, NewRowAgrees
    <3> QED BY <3>1, <3>2
  <2>3. CoroutinesAgree' /\ OneSent'
    BY <1>4, <2>2, RestartAgrees DEF RetryInsert, Start
  <2> QED BY <2>2, <2>3 DEF TablesInv, RowsAgree
<1> QED BY <1>1, <1>2, <1>3, <1>4 DEF Command

LEMMA ClockTables ==
    ASSUME TablesInv, QueueInv', CompletedIsBacked', NEW c \in JobIds, Clock(c)
    PROVE  TablesInv'
<1>1. UNCHANGED <<attempts, calls, task>>
  BY DEF Clock, LeaseExpires, BackoffElapses
<1>2. ASSUME NEW j \in JobIds
      PROVE  SameRow(j)
  <2>1. jobs[j] \in JobType /\ jobs \in [JobIds -> JobType]
    BY DEF TablesInv, QueueInv, TypeOK
  <2>2. CASE jobs' = [jobs EXCEPT ![c] = [@ EXCEPT !.live = FALSE]]
    BY <1>1, <2>1, <2>2 DEF JobType, SameRow
  <2>3. CASE jobs' = [jobs EXCEPT ![c] = [@ EXCEPT !.due = TRUE]]
    BY <1>1, <2>1, <2>3 DEF JobType, SameRow
  <2> QED BY <2>2, <2>3 DEF Clock, LeaseExpires, BackoffElapses
<1> QED BY <1>1, <1>2, SameRowAgrees, SameCoroutine
        DEF TablesInv, RowsAgree, CoroutinesAgree, OneSent

-----------------------------------------------------------------------------
(* The theorems *)

LEMMA InitTables == Init => TablesInv
<1> SUFFICES ASSUME Init PROVE TablesInv
  OBVIOUS
<1>1. QueueInv
  BY InitInv
<1>2. RowsAgree
  BY DEF Init, NoJob, NoAttempt, RowsAgree, RowAgrees, Open, Finished
<1>3. CoroutinesAgree /\ OneSent
  <2>1. \A p \in Procs, i \in Items : task[p][i].pc = "idle"
    BY DEF Init, NewTask
  <2> QED BY <2>1 DEF CoroutinesAgree, CoroutineAgrees, OneSent, Attempting
<1>4. CompletedIsBacked
  BY DEF Init, CompletedIsBacked
<1> QED BY <1>1, <1>2, <1>3, <1>4 DEF TablesInv

LEMMA NextTables == TablesInv /\ [Next]_vars => TablesInv'
<1> SUFFICES ASSUME TablesInv, [Next]_vars PROVE TablesInv'
  OBVIOUS
<1>1. QueueInv'
  BY NextInv DEF TablesInv
<1>2. ASSUME NEW p \in Procs, NEW i \in Items, Step(p, i)
      PROVE  TablesInv'
  BY <1>1, <1>2, StepTables
<1>3. ASSUME UNCHANGED results
      PROVE  CompletedIsBacked'
  BY <1>3, BackedKept DEF TablesInv
<1>4. ASSUME NEW p \in Procs, Command(p)
      PROVE  TablesInv'
  <2>1. UNCHANGED results
    BY <1>4 DEF Command, Reconcile, Resume, RetrySelect, RetryInsert, Finish, Crash
  <2> QED BY <1>1, <1>3, <1>4, <2>1, CommandTables
<1>5. ASSUME NEW j \in JobIds, Clock(j)
      PROVE  TablesInv'
  <2>1. UNCHANGED results
    BY <1>5 DEF Clock, LeaseExpires, BackoffElapses
  <2> QED BY <1>1, <1>3, <1>5, <2>1, ClockTables
<1>6. CASE UNCHANGED vars
  <2>1. UNCHANGED <<jobs, attempts, calls, task, results>>
    BY <1>6 DEF vars
  <2>2. \A j \in JobIds : SameRow(j)
    BY <2>1 DEF SameRow
  <2> QED BY <1>1, <1>3, <2>1, <2>2, SameRowAgrees, SameCoroutine
          DEF TablesInv, RowsAgree, CoroutinesAgree, OneSent
<1> QED BY <1>2, <1>4, <1>5, <1>6 DEF Next

(* Rows, coroutines and results agree in every reachable state. *)
THEOREM TablesInvariant == Spec => []TablesInv
<1> QED BY InitTables, NextTables, PTL DEF Spec

(* Only the last attempt of a running job shows as running, a finished job  *)
(* agrees with its last attempt and has settled its call, and a job that    *)
(* waits to be tried again has an attempt left.                             *)
THEOREM TablesStayInAgreement == Spec => []TablesAgree
<1>1. TablesInv => TablesAgree
  BY DEF TablesInv, RowsAgree, RowAgrees, TablesAgree, RunningAttemptIsCurrent,
         FinishedOwesNothing, BackoffHasBudget
<1> QED BY <1>1, TablesInvariant, PTL

(* An input is reported completed only on the strength of a job that        *)
(* succeeded.                                                               *)
THEOREM CompletedStaysBacked == Spec => []CompletedIsBacked
<1>1. TablesInv => CompletedIsBacked
  BY DEF TablesInv
<1> QED BY <1>1, TablesInvariant, PTL

-----------------------------------------------------------------------------
(* The queue implements PaidWork *)

(* A call of the job is outstanding. *)
Debt(j) == \E n \in AttemptIds : Open(j, n)

KeptRow(j) == jobs'[j].parent = jobs[j].parent /\ jobs'[j].consent = jobs[j].consent

LEMMA PaidSame ==
    ASSUME NEW w \in JobIds, KeptRow(w), Verdict(w)' = Verdict(w), Debt(w)' <=> Debt(w)
    PROVE  Paid!Same(w)
BY DEF KeptRow, Debt, Paid!Same, Paid!Kept

LEMMA PaidCall ==
    ASSUME NEW w \in JobIds, KeptRow(w), Verdict(w) \in {"open", "unresolved"},
           Verdict(w)' = Verdict(w), ~Debt(w), Debt(w)'
    PROVE  Paid!Move(w)
BY DEF KeptRow, Debt, Paid!Move, Paid!Call, Paid!Kept

LEMMA PaidForgive ==
    ASSUME NEW w \in JobIds, KeptRow(w), Verdict(w) \in {"open", "unresolved"},
           Verdict(w)' = Verdict(w), Debt(w), ~Debt(w)'
    PROVE  Paid!Move(w)
BY DEF KeptRow, Debt, Paid!Move, Paid!Forgive, Paid!Kept

LEMMA PaidSettle ==
    ASSUME NEW w \in JobIds, KeptRow(w), Verdict(w) = "open",
           Verdict(w)' \in {"accepted", "refused"}, ~Debt(w)'
    PROVE  Paid!Move(w)
BY DEF KeptRow, Debt, Paid!Move, Paid!Settle, Paid!Kept

LEMMA PaidLose ==
    ASSUME NEW w \in JobIds, KeptRow(w), Verdict(w) = "open", Verdict(w)' = "unresolved",
           Debt(w)' <=> Debt(w)
    PROVE  Paid!Move(w)
BY DEF KeptRow, Debt, Paid!Move, Paid!Lose, Paid!Kept

LEMMA PaidRecover ==
    ASSUME NEW w \in JobIds, KeptRow(w), Verdict(w) = "unresolved", Verdict(w)' = "open",
           Debt(w), Debt(w)'
    PROVE  Paid!Move(w)
BY DEF KeptRow, Debt, Paid!Move, Paid!Recover, Paid!Kept

LEMMA PaidCreate ==
    ASSUME NEW w \in JobIds, Verdict(w) = "none", Verdict(w)' = "open", ~Debt(w)',
           \/ jobs'[w].parent = None
           \/ jobs'[w].consent
           \/ jobs'[w].parent \in JobIds /\ Verdict(jobs'[w].parent) \in {"accepted", "refused"}
    PROVE  Paid!Move(w)
BY DEF Debt, Paid!Move, Paid!Create

(* A step that changes neither the state of a job nor its calls is a        *)
(* stutter of its unit of work.                                             *)
LEMMA RowSame ==
    ASSUME NEW w \in JobIds, jobs'[w].state = jobs[w].state, KeptRow(w), calls'[w] = calls[w]
    PROVE  Paid!Same(w)
<1>1. Verdict(w)' = Verdict(w) /\ (Debt(w)' <=> Debt(w))
  BY DEF Verdict, Debt, Open
<1> QED BY <1>1, PaidSame

LEMMA UntouchedSame ==
    ASSUME NEW w \in JobIds, jobs'[w] = jobs[w], calls'[w] = calls[w]
    PROVE  Paid!Same(w)
BY RowSame DEF KeptRow

PaidNext == \A w \in JobIds : Paid!Move(w) \/ Paid!Same(w)

(* A generation is inserted with no call behind it. *)
LEMMA InsertedPaid ==
    ASSUME TablesInv, NEW w \in JobIds, jobs[w].state = "absent", jobs'[w].state = "pending",
           UNCHANGED calls,
           \/ jobs'[w].parent = None
           \/ jobs'[w].consent
           \/ jobs'[w].parent \in JobIds /\ Verdict(jobs'[w].parent) \in {"accepted", "refused"}
    PROVE  Paid!Move(w)
<1>1. Verdict(w) = "none" /\ Verdict(w)' = "open"
  BY DEF Verdict
<1>2. ~Debt(w)'
  BY DEF Debt, Open, TablesInv, QueueInv, OpenOK
<1> QED BY <1>1, <1>2, PaidCreate

LEMMA EnsureNewPaid ==
    ASSUME TablesInv, NEW p \in Procs, NEW i \in Items, EnsureNew(p, i)
    PROVE  PaidNext
<1>1. PICK j \in JobIds : /\ \A k \in Taken : k < j
                          /\ jobs' = [jobs EXCEPT ![j] = NewJob(i, None, FALSE)]
  BY DEF EnsureNew
<1>2. UNCHANGED calls
  BY DEF EnsureNew
<1>3. jobs[j].state = "absent"
  BY <1>1 DEF JobIds, Taken
<1>4. /\ jobs'[j].state = "pending" /\ jobs'[j].parent = None
      /\ \A k \in JobIds : k # j => jobs'[k] = jobs[k]
  BY <1>1 DEF TablesInv, QueueInv, TypeOK, NewJob, NoJob
<1> QED BY <1>2, <1>3, <1>4, InsertedPaid, UntouchedSame DEF PaidNext

(* A retry repeats work that has a verdict, or has the operator's consent. *)
LEMMA RetryInsertPaid ==
    ASSUME TablesInv, NEW p \in Procs, RetryInsert(p)
    PROVE  PaidNext
<1> SUFFICES ASSUME NEW w \in JobIds PROVE Paid!Move(w) \/ Paid!Same(w)
  BY DEF PaidNext
<1>1. UNCHANGED calls
  BY DEF RetryInsert
<1>2. CASE selected[p][w] = None
  <2>1. jobs'[w] = jobs[w]
    BY <1>2 DEF RetryInsert
  <2> QED BY <1>1, <2>1, UntouchedSame
<1>3. CASE selected[p][w] # None
  <2>1. PICK parent \in JobIds : parent = selected[p][w]
    BY <1>3 DEF TablesInv, QueueInv, TypeOK
  <2>2. /\ jobs'[w].state = "pending" /\ jobs'[w].parent = parent
        /\ jobs'[w].consent = (phase[p] = "retry_unknown")
    BY <1>3, <2>1 DEF RetryInsert, NewJob, NoJob
  <2>3. /\ jobs[w].state = "absent"
        /\ phase[p] = "retry_unknown" \/ jobs[parent].state \in {"failed", "needs_review"}
    BY <1>3, <2>1 DEF TablesInv, QueueInv, SelectedOK
  <2>4. jobs[parent].state \in {"failed", "needs_review"} => Verdict(parent) \in {"accepted", "refused"}
    BY DEF Verdict, Finished
  <2> QED BY <1>1, <2>2, <2>3, <2>4, InsertedPaid
<1> QED BY <1>2, <1>3

(* An expired job is lost with whatever its call owes. *)
LEMMA ReconcilePaid ==
    ASSUME TablesInv, NEW p \in Procs, Reconcile(p)
    PROVE  PaidNext
<1> SUFFICES ASSUME NEW w \in JobIds PROVE Paid!Move(w) \/ Paid!Same(w)
  BY DEF PaidNext
<1>1. UNCHANGED calls
  BY DEF Reconcile
<1>2. CASE ~Expired(w)
  <2>1. jobs'[w] = jobs[w]
    BY <1>2 DEF Reconcile
  <2> QED BY <1>1, <2>1, UntouchedSame
<1>3. CASE Expired(w)
  <2>1. jobs'[w] = Expire(w) /\ jobs[w] \in JobType /\ jobs[w].state = "running"
    BY <1>3 DEF Reconcile, TablesInv, QueueInv, TypeOK, Expired
  <2>2. jobs'[w].state = "unknown" /\ KeptRow(w)
    BY <2>1 DEF Expire, JobType, KeptRow
  <2>3. Verdict(w) = "open" /\ Verdict(w)' = "unresolved"
    BY <2>1, <2>2 DEF Verdict, Finished
  <2>4. Debt(w)' <=> Debt(w)
    BY <1>1 DEF Debt, Open
  <2> QED BY <2>2, <2>3, <2>4, PaidLose
<1> QED BY <1>2, <1>3

(* A claim is no change of the work; a recovery asks for the call that is   *)
(* outstanding.                                                             *)
LEMMA ClaimPaid ==
    ASSUME TablesInv, NEW p \in Procs, NEW i \in Items, Claim(p, i) \/ ClaimRecovery(p, i)
    PROVE  PaidNext
<1>1. PICK j \in JobIds : task[p][i].job = j
  BY EngagedJob DEF TablesInv, QueueInv, Claim, ClaimRecovery, At, Engaged, Locations, Suspended
<1>2. UNCHANGED calls
  BY DEF Claim, ClaimRecovery
<1>3. CASE UNCHANGED jobs
  BY <1>2, <1>3, UntouchedSame DEF PaidNext
<1>4. CASE (Claimable(j) \/ Resumable(j)) /\ Leased(j, p)
  <2>1. /\ jobs'[j].state = "running" /\ KeptRow(j)
        /\ \A k \in JobIds : k # j => jobs'[k] = jobs[k]
    BY <1>4 DEF Leased, TablesInv, QueueInv, TypeOK, JobType, KeptRow
  <2>2. Debt(j)' <=> Debt(j)
    BY <1>2 DEF Debt, Open
  <2>3. Verdict(j)' = "open"
    BY <2>1 DEF Verdict
  <2>4. CASE Claimable(j)
    <3>1. Verdict(j) = "open"
      BY <2>4 DEF Claimable, Verdict
    <3>2. Paid!Same(j)
      BY <2>1, <2>2, <2>3, <3>1, PaidSame
    <3> QED BY <1>2, <2>1, <3>2, UntouchedSame DEF PaidNext
  <2>5. CASE Resumable(j)
    <3>1. Verdict(j) = "unresolved" /\ jobs[j].count \in AttemptIds
      BY <2>5, ConstantsAssumption
         DEF Resumable, Verdict, Finished, TablesInv, QueueInv, TypeOK, JobType, AttemptIds
    <3>2. Open(j, jobs[j].count)
      BY <2>5, <3>1 DEF Resumable, TablesInv, RowsAgree, RowAgrees, Finished
    <3>3. Debt(j)
      BY <3>1, <3>2 DEF Debt
    <3>4. Paid!Move(j)
      BY <2>1, <2>2, <2>3, <3>1, <3>3, PaidRecover
    <3> QED BY <1>2, <2>1, <3>4, UntouchedSame DEF PaidNext
  <2> QED BY <1>4, <2>4, <2>5
<1> QED BY <1>1, <1>3, <1>4 DEF Claim, ClaimRecovery

(* The attempt number is no business of the work. *)
LEMMA BeginAttemptPaid ==
    ASSUME TablesInv, NEW p \in Procs, NEW i \in Items, BeginAttempt(p, i)
    PROVE  PaidNext
<1>1. UNCHANGED calls
  BY DEF BeginAttempt
<1>2. CASE UNCHANGED jobs
  BY <1>1, <1>2, UntouchedSame DEF PaidNext
<1>3. ASSUME NEW j, NEW n, jobs' = [jobs EXCEPT ![j] = [@ EXCEPT !.count = n]]
      PROVE  PaidNext
  <2>1. \A w \in JobIds : jobs'[w].state = jobs[w].state /\ KeptRow(w)
    BY <1>3 DEF TablesInv, QueueInv, TypeOK, JobType, KeptRow
  <2> QED BY <1>1, <2>1, RowSame DEF PaidNext
<1> QED BY <1>2, <1>3 DEF BeginAttempt

LEMMA SendPaid ==
    ASSUME TablesInv, NEW p \in Procs, NEW i \in Items, Send(p, i)
    PROVE  PaidNext
<1>1. task[p][i].pc = "ready" /\ UNCHANGED jobs
  BY DEF Send, At, db
<1>2. PICK j \in JobIds, n \in AttemptIds : task[p][i].job = j /\ task[p][i].attempt = n
  BY <1>1, AttemptingTask DEF TablesInv, QueueInv, Attempting
<1>3. calls'[j][n] = "open" /\ \A k \in JobIds : k # j => calls'[k] = calls[k]
  BY <1>2 DEF Send, TablesInv, QueueInv, TypeOK
<1>4. /\ \A m \in AttemptIds : ~Open(j, m)
      /\ jobs[j].state = "unknown" \/ Owns(p, j)
  BY <1>1, <1>2 DEF TablesInv, QueueInv, ReadyOK
<1>5. ~Debt(j) /\ Debt(j)'
  BY <1>3, <1>4 DEF Debt, Open
<1>6. /\ Verdict(j) \in {"open", "unresolved"} /\ Verdict(j)' = Verdict(j)
      /\ KeptRow(j)
  BY <1>1, <1>4 DEF Verdict, Finished, Owns, KeptRow
<1>7. Paid!Move(j)
  BY <1>5, <1>6, PaidCall
<1> QED BY <1>1, <1>3, <1>7, UntouchedSame DEF PaidNext

LEMMA AnswerDroppedPaid ==
    ASSUME TablesInv, NEW p \in Procs, NEW i \in Items, AnswerDropped(p, i)
    PROVE  PaidNext
<1>1. task[p][i].pc = "sent" /\ UNCHANGED jobs
  BY DEF AnswerDropped, At, db
<1>2. PICK j \in JobIds, n \in AttemptIds :
              /\ task[p][i].job = j /\ task[p][i].attempt = n /\ Open(j, n)
              /\ jobs[j].state = "unknown" \/ Owns(p, j)
  BY <1>1, SentFacts
<1>3. /\ calls'[j][n] = "dropped" /\ \A m \in AttemptIds : m # n => calls'[j][m] = calls[j][m]
      /\ \A k \in JobIds : k # j => calls'[k] = calls[k]
  BY <1>2 DEF AnswerDropped, TablesInv, QueueInv, TypeOK
<1>4. \A m \in AttemptIds : Open(j, m) => m = n
  BY <1>2 DEF TablesInv, QueueInv, OpenOK
<1>5. Debt(j) /\ ~Debt(j)'
  BY <1>2, <1>3, <1>4 DEF Debt, Open
<1>6. /\ Verdict(j) \in {"open", "unresolved"} /\ Verdict(j)' = Verdict(j)
      /\ KeptRow(j)
  BY <1>1, <1>2 DEF Verdict, Finished, Owns, KeptRow
<1>7. Paid!Move(j)
  BY <1>5, <1>6, PaidForgive
<1> QED BY <1>1, <1>3, <1>7, UntouchedSame DEF PaidNext

LEMMA CompletePaid ==
    ASSUME TablesInv, NEW p \in Procs, NEW i \in Items, Complete(p, i)
    PROVE  PaidNext
<1>1. task[p][i].pc \in Attempting
  BY DEF Complete, At, Attempting
<1>2. PICK j \in JobIds, n \in AttemptIds : task[p][i].job = j /\ task[p][i].attempt = n
  BY <1>1, AttemptingTask DEF TablesInv, QueueInv
<1>3. CASE UNCHANGED <<jobs, calls>>
  BY <1>3, UntouchedSame DEF PaidNext
<1>4. ASSUME NEW status \in Finished, Owns(p, j),
             jobs' = [jobs EXCEPT ![j] = [@ EXCEPT !.state = status, !.token = None,
                                                !.live = FALSE, !.erred = FALSE]],
             calls' = [calls EXCEPT ![j][n] = "settled"]
      PROVE  PaidNext
  <2>1. \A m \in AttemptIds : Open(j, m) => m = n
    BY <1>1, <1>2, <1>4, OwnerFacts
  <2>2. /\ jobs'[j].state = status /\ KeptRow(j)
        /\ \A k \in JobIds : k # j => jobs'[k] = jobs[k]
    BY <1>4 DEF TablesInv, QueueInv, TypeOK, JobType, KeptRow
  <2>3. /\ calls'[j][n] = "settled" /\ \A m \in AttemptIds : m # n => calls'[j][m] = calls[j][m]
        /\ \A k \in JobIds : k # j => calls'[k] = calls[k]
    BY <1>4 DEF TablesInv, QueueInv, TypeOK
  <2>4. ~Debt(j)'
    BY <2>1, <2>3 DEF Debt, Open
  <2>5. Verdict(j) = "open" /\ Verdict(j)' = "accepted"
    BY <1>4, <2>2 DEF Verdict, Owns, Finished
  <2>6. Paid!Move(j)
    BY <2>2, <2>4, <2>5, PaidSettle
  <2> QED BY <2>2, <2>3, <2>6, UntouchedSame DEF PaidNext
<1> QED BY <1>2, <1>3, <1>4 DEF Complete, Finished

(* A refusal for now forgives the call, a final one settles the work, and   *)
(* an unknown outcome leaves the debt standing.                             *)
LEMMA FailPaid ==
    ASSUME TablesInv, NEW p \in Procs, NEW i \in Items, Fail(p, i)
    PROVE  PaidNext
<1>1. task[p][i].pc \in Attempting
  BY DEF Fail, At, Attempting
<1>2. PICK j \in JobIds, n \in AttemptIds : task[p][i].job = j /\ task[p][i].attempt = n
  BY <1>1, AttemptingTask DEF TablesInv, QueueInv
<1>3. CASE UNCHANGED <<jobs, calls>>
  BY <1>3, UntouchedSame DEF PaidNext
<1>4. PICK class, state : class = task[p][i].verdict /\ state = FailedState(j, class)
  OBVIOUS
<1>5. CASE /\ Owns(p, j)
           /\ jobs' = [jobs EXCEPT ![j] = [@ EXCEPT !.state = state, !.token = None, !.live = FALSE,
                                            !.erred = TRUE, !.due = (state # "retry_wait")]]
           /\ calls' = [calls EXCEPT ![j][n] = Settle(j, n, class)]
  <2>1. \A m \in AttemptIds : Open(j, m) => m = n
    BY <1>1, <1>2, <1>5, OwnerFacts
  <2>2. /\ jobs'[j].state = state /\ KeptRow(j)
        /\ \A k \in JobIds : k # j => jobs'[k] = jobs[k]
    BY <1>5 DEF TablesInv, QueueInv, TypeOK, JobType, KeptRow
  <2>3. /\ calls'[j][n] = Settle(j, n, class)
        /\ \A m \in AttemptIds : m # n => calls'[j][m] = calls[j][m]
        /\ \A k \in JobIds : k # j => calls'[k] = calls[k]
    BY <1>5 DEF TablesInv, QueueInv, TypeOK
  <2>4. /\ state \in {"unknown", "retry_wait", "failed"}
        /\ state = "unknown" <=> class = "unknown"
    BY <1>4 DEF FailedState
  <2>5. Verdict(j) = "open"
    BY <1>5 DEF Verdict, Owns
  <2>6. Paid!Move(j) \/ Paid!Same(j)
    <3>1. CASE state = "unknown"
      <4>1. Debt(j)' <=> Debt(j)
        BY <2>3, <2>4, <3>1 DEF Debt, Open, Settle
      <4>2. Verdict(j)' = "unresolved"
        BY <2>2, <3>1 DEF Verdict, Finished
      <4> QED BY <2>2, <2>5, <4>1, <4>2, PaidLose
    <3>2. CASE state # "unknown"
      <4>1. ~Debt(j)'
        BY <2>1, <2>3, <2>4, <3>2 DEF Debt, Open, Settle
      <4>2. CASE state = "failed"
        <5>1. Verdict(j)' = "refused"
          BY <2>2, <4>2 DEF Verdict, Finished
        <5> QED BY <2>2, <2>5, <4>1, <5>1, PaidSettle
      <4>3. CASE state = "retry_wait"
        <5>1. Verdict(j)' = "open"
          BY <2>2, <4>3 DEF Verdict
        <5> QED BY <2>2, <2>5, <4>1, <5>1, PaidForgive, PaidSame
      <4> QED BY <2>4, <3>2, <4>2, <4>3
    <3> QED BY <3>1, <3>2
  <2> QED BY <2>2, <2>3, <2>6, UntouchedSame DEF PaidNext
<1> QED BY <1>2, <1>3, <1>4, <1>5 DEF Fail

LEMMA ClockPaid ==
    ASSUME TablesInv, NEW c \in JobIds, Clock(c)
    PROVE  PaidNext
<1>1. UNCHANGED calls
  BY DEF Clock, LeaseExpires, BackoffElapses
<1>2. ASSUME NEW w \in JobIds
      PROVE  jobs'[w].state = jobs[w].state /\ KeptRow(w)
  <2>1. jobs[w] \in JobType /\ jobs \in [JobIds -> JobType]
    BY DEF TablesInv, QueueInv, TypeOK
  <2>2. CASE jobs' = [jobs EXCEPT ![c] = [@ EXCEPT !.live = FALSE]]
    BY <2>1, <2>2 DEF JobType, KeptRow
  <2>3. CASE jobs' = [jobs EXCEPT ![c] = [@ EXCEPT !.due = TRUE]]
    BY <2>1, <2>3 DEF JobType, KeptRow
  <2> QED BY <2>2, <2>3 DEF Clock, LeaseExpires, BackoffElapses
<1> QED BY <1>1, <1>2, RowSame DEF PaidNext

LEMMA NextPaid == TablesInv /\ [Next]_vars => [Paid!Next]_(Paid!vars)
<1> SUFFICES ASSUME TablesInv, [Next]_vars PROVE PaidNext
  BY DEF PaidNext, Paid!Next
<1>1. CASE UNCHANGED <<jobs, calls>>
  BY <1>1, UntouchedSame DEF PaidNext
<1>2. ASSUME NEW p \in Procs, NEW i \in Items, Step(p, i)
      PROVE  PaidNext
  <2>1. CASE \/ EnsureExisting(p, i) \/ Look(p, i) \/ NotClaimed(p, i) \/ RequestNotStored(p, i)
             \/ Refused(p, i) \/ Unclear(p, i) \/ Answered(p, i) \/ Queued(p, i) \/ Polled(p, i)
             \/ ArtifactNotStored(p, i) \/ Wake(p, i) \/ Publish(p, i)
    <3>1. UNCHANGED <<jobs, calls>>
      BY <2>1 DEF EnsureExisting, Look, NotClaimed, RequestNotStored, Refused, Unclear, Answered,
                  Queued, Polled, ArtifactNotStored, Wake, Publish, db
    <3> QED BY <3>1, <1>1
  <2> QED BY <1>2, <2>1, EnsureNewPaid, ClaimPaid, BeginAttemptPaid, SendPaid, AnswerDroppedPaid,
             CompletePaid, FailPaid DEF Step
<1>3. ASSUME NEW p \in Procs, Command(p)
      PROVE  PaidNext
  <2>1. CASE Resume(p) \/ RetrySelect(p) \/ Finish(p) \/ Crash(p)
    <3>1. UNCHANGED <<jobs, calls>>
      BY <2>1 DEF Resume, RetrySelect, Finish, Crash
    <3> QED BY <3>1, <1>1
  <2> QED BY <1>3, <2>1, ReconcilePaid, RetryInsertPaid DEF Command
<1>4. ASSUME NEW j \in JobIds, Clock(j)
      PROVE  PaidNext
  BY <1>4, ClockPaid
<1> QED BY <1>1, <1>2, <1>3, <1>4 DEF Next, vars

LEMMA InitPaid == Init => Paid!Init
<1> SUFFICES ASSUME Init PROVE Paid!Init
  OBVIOUS
<1>1. \A j \in JobIds : /\ jobs[j].state = "absent" /\ jobs[j].parent = None
                        /\ jobs[j].consent = FALSE
  BY DEF Init, NoJob
<1>2. \A j \in JobIds, n \in AttemptIds : ~Open(j, n)
  BY DEF Init, Open
<1> QED BY <1>1, <1>2 DEF Paid!Init, Verdict

(* The tables with their leases, attempts, crashes, recoveries and retries  *)
(* implement PaidWork: one call at a time, no guess about an outcome nobody *)
(* knows, and no repetition without a verdict or the operator's consent.    *)
THEOREM QueueImplementsPaidWork == Spec => ImplementsPaidWork
<1> QED BY InitPaid, NextPaid, TablesInvariant, PTL DEF Spec, ImplementsPaidWork, Paid!Spec

=============================================================================
