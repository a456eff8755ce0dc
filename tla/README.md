# Verification of the invoice pipeline, of its rules, and of Alberto's desk

The repository reads invoices (`ingestion/`), derives rules from a written norm
and judges the invoices against them (`rules_ingestion/`, `backend/`), gives the
person who pays them a desk with an append-only ledger (`desk/`), and answers
suppliers who call (`phone_calls/`). This directory holds TLA+ models of the
parts whose correctness is hard to see or to test, the TLC configurations that
check them, and proofs checked by TLAPS.

Parts of the code are cited as `path:line` relative to the repository's root.

## 1. Inventory

| Part | State | Operations | What is hard |
|---|---|---|---|
| Durable job queue: `ingestion/pipeline.py`, `storage.py`, `providers/fal_ocr.py` | tables `jobs`, `attempts`, `input_results`; per process: stopped providers, one coroutine per input | `ensure_job`, `claim`, `begin_attempt`, the provider call, `complete`, `fail`, `claim_recovery`, `reconcile_expired`, `retry_jobs`, `set_result` | several processes, leases that expire under a live worker, billable calls whose outcome is lost, crashes anywhere, bounded retries |
| Text extraction: `ingestion/deterministic.py`, `normalization.py`, `validation.py`, `candidates.py`, `providers/jev.py`, the cascade of `pipeline.py` | the reading, the answers of a conversation, which route was opened | `extract`, the gate, `interpret` of Jev, `request_callback`, `_process_input`, corrected readings | two readers that must agree; questions cut into groups and rounds; answers that cost money and attempts that fail half-way |
| Decision engine: `rules_ingestion/decision_context.py`, `execution_context.py`, `execution_rules.py`, `conditions.py`, `evaluator.py` | none; frozen inputs | `build_context`, `prepare_context`, `evaluate` | a doubt that gets lost on the way from a printed value to PAGAR |
| Review: `rules_ingestion/contextual_review.py`, `contextual_provider.py`, `backend/export_outcomes.py` | a review beside each evaluation | `review_evaluation`, `decide_output` | a model that fails, is cut short, or answers nonsense |
| Run records: `rules_ingestion/engine.py`, `engine_storage.py` | `engine_runs`, `engine_records`, `engine_review_requests` | claim, finish and reconcile a run; publish; review | runs of unknown outcome, two processes, vetoes |
| Rule authoring: `rules_ingestion/classify.py`, `rule_params.py`, `merge.py`, `codegen.py`, `condition_authoring.py`, `build_rules.py`; `backend/rules_cache.py` | a frozen rule set per workbook, profile and pinned run | classify, reconcile, merge, compile, freeze; `reusable_rules` | models that disagree or invent; a sheet edited meanwhile; one paid generation shared by revisions |
| Backend: `backend/` | revisions, exports, ERP and rule caches | `revisar_lote`, `correct_existing`, `latest_results` | chaining of snapshots, single flight, staleness; rules from the cache, from another run or from a file |
| Desk ledger: `desk/ledger.py`, `rules.py`, `ingest.py`, `engine.py`, `state.py` | append-only `events`, `idempotency`; everything shown is a fold | `record_outcome`, `register_payment`, `propose`, `apply` | an ingest thread, HTTP threads and chats over one database; decisions computed from evidence that others invalidate |
| Desk outbox: `desk/agents.py`, `mail.py`, `server.py` | mails and their events, dispatch and notice claims | `queue_email`, `cancel_email`, `flush_outbox`, `approve`, `recover_notices`, `notify_blocked` | SMTP cannot be rolled back; a worker and HTTP threads flush at once; deaths between transactions |
| Phone desk: `phone_calls/guion.py`, `consulta.py`, `exportar.py`, `servidor.py`, `estatico/llamada.js` | the state of the conversation, kept by the page | `avanzar`, `respuesta`, the page's turns | misheard turns, several reasons at once, answers that come late or crossed |
| Desk chat and explanations, HTTP servers, front end, tools, scripts | none of their own | read-only views, one-shot utilities | nothing concurrent |
| `supabase/migrations/`, `caja_de_alberto/`, `benchmark/` | schema, sample data, a vendored mock ERP | | |

How they interact: a CLI command opens a batch and runs one coroutine per input;
each coroutine takes its file through the cascade, goes through the job queue for
every external call, and publishes one result. The backend chains such a batch
with an ERP snapshot, takes its rules from the cache or generates them, builds a
context for each file, evaluates it and has it reviewed; the export shows the
evaluation as the review leaves it, and the phone desk reads that export. The desk
runs the same pipeline over an in-memory repository (`desk/ingest.py:33`), so its
jobs never outlive the process; what it learns becomes a `VERDICT` event, and
payments, rules and mails are further events of the same SQLite file. Each desk
transaction is `BEGIN IMMEDIATE` under a process-wide lock: one step of the models.

What makes each part correct:

* **Job queue** - a call that may have been billed is never repeated unless the
  operator says so; a call of unknown outcome is always visible; a finished job
  is final and agrees with its attempts; every input gets an outcome.
* **Extraction** - a file that no model looked at names one supplier, one order,
  one account; both routes read a number alike; a choice a model could not make
  leaves no value; an answer is bought once.
* **Decision engine** - what is recommended for payment is payable by the raw
  input; a rejection rests on facts read without doubt; lost evidence never pays.
* **Review** - a review that asks for nobody has left nothing to look at; what
  leaves as PAGAR was not doubted for a reason of the invoice.
* **Authoring** - every line of the norm backs one rule or is rejected; enabled
  rules can be executed; parameters are what the sheet says or the profile's own;
  the same inputs give the same rules.
* **Run records and backend** - a request key buys once; a copy of an invoice
  that was decided earlier is not recommended again; what was submitted under
  review does not leave as PAGAR without one; nobody waits for a process that died.
* **Desk ledger** - an invoice is paid once; a rule is applied exactly as it was
  shown.
* **Desk outbox** - a mail leaves once, what the ledger says of it is true; every
  payment is notified once; a supplier is asked once.
* **Phone desk** - only the owner of an order hears of it; what must be kept
  silent is, whatever else could be told; calls end.

## 2. Modules

| Module | What it is |
|---|---|
| `JobQueue` | the queue, its processes and their crashes; invariants; `QueueInv`, the inductive invariant |
| `PaidWork` | what the queue promises of billable work, with no processes, leases or attempts |
| `JobQueueProofs` | theorems about `JobQueue`: its calls, its tables, and that it implements `PaidWork` |
| `PrintedInvoice` | from printed lines to fields without a model; values, the gate, validation |
| `ChoiceInterpreter` | Jev: candidates, questions, tournament, assembly, and what the answers cost; extends `PrintedInvoice` |
| `TextCascade` | which route a file takes, and corrected readings; extends `ChoiceInterpreter` |
| `ExtractionProofs` | theorems about the three |
| `InvoiceFacts` | facts and their quality, the masters, the histories, the guards |
| `RuleExecution` | conditions, plans, bindings and execution of one rule; extends `InvoiceFacts` |
| `InvoiceEvaluation` | the recommendation, while the world changes; extends `RuleExecution` |
| `ContextualReview` | the review of a recommendation, and what leaves; extends `InvoiceEvaluation` |
| `EvaluationProofs` | theorems about the evaluation and its review |
| `NormReading` | one line of the norm: its family, its parameters, its condition; extends `RuleExecution` |
| `RuleAuthoring`, `RuleAuthoringProofs` | the generation of rules, its cache and pinned runs; extends `NormReading` |
| `EngineRuns`, `EngineRunsProofs` | revisions, corrections, their reviews, the reuse of rules, and the decision that leaves |
| `DeskLedger`, `DeskLedgerProofs` | verdicts, payments and rule versions |
| `DeskOutbox`, `DeskOutboxProofs` | mails, payment notices and pause notices |
| `PhoneCall`, `PhoneCallProofs` | the page, the server and the dialogue of a call |
| `MC...` | instances for TLC |

Each component module also defines a few wrong variants of its operators (for
instance `EndAttemptsNever`), used only to see that each property notices the slip
it is there for.

Composition: `TextCascade` is the composition of the two readers with the cost of
a conversation; `ContextualReview` that of the evaluation with the review and the
export. `EngineRuns` takes a decision and a review as choices and asks when they
are made and published; `ContextualReview` asks what they may be. In the same way
`EngineRuns` has one row for the generation of rules and asks who may use it, and
`RuleAuthoring` asks what is in it. `JobQueue` takes a stage of a file as one job,
and `TextCascade` takes a job by its ends.

### PrintedInvoice, ChoiceInterpreter, TextCascade

* A reading is a sequence of lines, and a line is what the regular expressions of
  `deterministic.py` and `candidates.py` find in it. A written amount is its groups
  of digits, their lengths and the separators between them, so that `_amount` and
  `normalize_decimal` work on what tells 1.250 from 1.250,00.
* `Extract` and `Gaps` are `deterministic.py`, `Codes`, `Failing` and `Status`
  `validation.py`, `Accept` the gate that keeps a file from the models.
* `Conversation(text, heard)` is the adapter of `providers/jev.py` as the function
  it is: the next request after the answers heard so far, or the interpretation
  they leave. `heard` is what `request_callback` stores, by the questions of the
  request; `paid` counts purchases; `job` is the interpretation job with its
  attempts.
* `Buy`, `Lose`, `Refuse`, `Overflow`, `NativeNotStored` are the ends of one
  request, `RetryJob` the retry command with what it inherits.
* `stage` and `native` are the steps of `_process_input`; `Correct` is the
  correction of a reading and the `interpret` command.

Abstracted: one page; the answers of a model are what the document says (`says`)
but for `MaxOdd` of them, which may be anything; DeepSeek's interpretation is an
arbitrary one with evidence; a vision reading is the printed lines, some of them
uncertain.

### InvoiceFacts, RuleExecution, InvoiceEvaluation, ContextualReview

* `input` is a function from parts to values: the printed values with their links
  (`good`, `none`, `uncertain`, `broken`, `background`), the interpreter's issues,
  the masters, ERP and histories with their coverage and authority, the rules, the
  day. `Change` lets one part differ; up to `MaxChanges` differ from the baseline
  at once, so every pair of alternatives is judged.
* `Align`, `Prepare` and `Evaluate` are `build_context`, `prepare_context` and
  `evaluate`. Values are three-valued in conditions, and each field has a quality
  and findings of its own.
* `RuleExecution` has `plan_rule`, `bind_rule`, `execute_rule`, the six canonical
  checks and the typed conditions with `exists`, `in`, money, dates and lists.
* A review is `ReviewStep`: the HTTP outcome (`Calls`), the model's `Remarks` and
  assessments, `_validate_response`, and what `attention_required` becomes.
  `Output` is `decide_output`.

Abstracted: texts, quotes (there or not), hashes, artifacts. A value is a model
value or a small integer; money in whole cents. The validators of stored documents
(`validate_context`, `_validate_evaluation`) reject what this code does not write.
Rules of the baseline are the profile's six and two written conditions.

### NormReading, RuleAuthoring

* A line of the norm is what the lexicons, the rubric of Noul and the extractors
  find in it. `Classify` and its parts are `classify.py`, `Stated` and
  `Settings` are `rule_params.py`, `CompileDraft` and the heuristic compile are
  `codegen.py` and `condition_authoring.py`.
* `book` is the content of the sheet, which `Edit` changes; `runs` are the
  rows of `engine_runs` keyed by `Signatures` (workbook, profile, pinned run);
  `work[r]` is the revision with request key `r`: `Begin` reads the sheet and asks,
  `ClaimRun` to `Publish` generate, `Reuse` and `Pin` take what is there, `Abort`
  is an exception while generating, `Die` the end of the process. Rules are
  compiled one after the other, in the order of their first lines (`todo`).

The revisions here are those that ask for a generation. One that brings a ruleset
file goes round all this, and is in `EngineRuns`; its run has no generation audit,
so `reusable_rules` refuses to pin it (rules_cache.py:68), and `Pinnable` need not
ask. `SameInputsSameRules` and `ServedFromItsSources` say nothing of such a file.

Abstracted: a revision decides nothing here (see `EngineRuns`); the answers of the
models are arbitrary members of small sets or unreachable; the order of rules.

### PhoneCall

* `estado` is the conversation the page keeps and sends with each turn; `inFlight`
  the turns without an answer, each with the state it was sent with; `ReplyTo` is
  `avanzar` on the server, a function. `Reply` takes any answer in flight, `Lost`
  loses one, `Colgar` hangs up, `Descolgar` picks up again.
* A turn is what the caller meant and the transcripts the recogniser made of it.
  `ParsearPedido`, `Identified` and `Afirma` are the tolerant parsers.
* `Caja` is the file of an order as `exportar.py` writes it; `Respuesta` says which
  reason is told (`SILENCIO` first, then what may be disclosed).
* `agreed` is history: which company the caller said yes to, and in which call.

Abstracted: wording; recorded replays; a caller who says "no es correcto" (taken
for a yes: section 6).

### JobQueue

* `jobs[j]`, `attempts[j][n]` and `results[i]` are rows. Ids grow with
  `created_at`. `live` is `lease_expires_at > now()`, `due` is
  `next_attempt_at <= now()`, `erred` is `last_error IS NOT NULL`, `token`
  names the claimant instead of a random UUID (a process has one coroutine per
  input, so the two determine each other), `parent` replaces the
  `:retry:` suffixes of `work_key`, and `consent` records that the generation
  came from `--include-unknown`.
* `task[p][i]` is the coroutine of process `p` and input `i`. `Suspended` are
  the places where it awaits; elsewhere it holds the event loop (`At`), but any
  other process may act between two of its transactions.
* `Look`, `Claim` / `ClaimRecovery`, `NotClaimed`, `BeginAttempt` follow
  `Pipeline.job` (pipeline.py:138-165), `Send` to `Polled` the call
  (`request_callback`, `FalOCR`, `interpret`), `ArtifactNotStored`, `Complete`,
  `Fail`, `Wake` the rest of its loop, `Publish` the end of `_process_input`.
  `Reconcile`, `Resume`, `RetrySelect` / `RetryInsert`, `Finish` are the
  commands. `retry_jobs` is two steps because its `INSERT .. SELECT` reads a
  snapshot: rows of other transactions may commit in between.
* `calls` is history, not code: what became of each billable call. `open` is
  sent and outcome unknown, `settled` is decided by the code, `dropped` is
  answered and thrown away.
* `Recoverable` distinguishes fal, whose requests have an ID to poll, from the
  interpreters.

Abstracted: an input has one stage at a time (reading or interpretation);
semaphores, which only delay; the artifact's verification, which `complete`
re-reads; the several calls of a Jev interpretation, which count as one here
(`ChoiceInterpreter` counts them); the kinds of database and storage error, which
become a choice among the classes the handler tells apart; the three content codes
that make a result `needs_review` without any job.

### DeskLedger

* `verdict[f]`, `payment[f]`, `rules` are folds of the events
  (`state._fold_one`, `rules.current`); `claims` is the `idempotency` table,
  `proposals` the `RULE_PROPOSED` events, `draft[t]` what `parse` returned to a
  chat before `propose` opens its transaction.
* `Ingest` is `record_outcome` after the pipeline, `Pay` / `DoNotPay` are
  `register_payment`, `Propose`, `Apply`, `ApplyRefused` are `rules.py`.
* `Decide` keeps two of the six checks, the ones whose effect the policy or the
  other invoices can change: DUPLICATES (hard match, soft match, ERP state) and
  MISSING (the purchase order and its exemptions). `soft` stands for the scalar
  parameters, `exempt` for the list: the two ways `{**policy, **params}` merges.

Abstracted: amounts and dates (a content carries the keys they form), the other
four checks, the investigator's notes, the limits of an exemption. Every content
has an invoice number and a vendor.

### DeskOutbox

* `mails[m]` is an `EMAIL_QUEUED` event with the kinds of the events whose `of`
  is its seq; `released` is `release_at <= now()`; `claims` are the keys
  `email:`, `notice:` and `pause:`; `cause[f]` is the first blocking rule of an
  invoice whose status is blocked.
* `act[t]` is a thread between two transactions: the mails it still has to
  flush, the mail it is sending, the groups it decided to ask about.
* `Flush` to `Record` are `flush_outbox`; `mail.send` is the step `Send`, whose
  outcomes pair what the server did with what the desk learns (`Outcomes`).
  `Approve` and `QueueNotice` are `approve` after `register_payment`;
  `NotifyBlocked` decides groups and `QueuePause` is one transaction of it.
* `accepted` is history: how often a server accepted each mail.

Abstracted: `outbox` reads five kinds of event in five queries, here one
snapshot (each later test is repeated in the dispatch transaction, and the sets
only grow); the claim pre-check at agents.py:289 is part of its transaction; the
sandbox transport counts as a server that accepts; one vendor; texts and drafts.

### EngineRuns

* `runs[k]` is a row of `engine_runs`: its state and, from its input artifact,
  whether review is enabled. `RulesKey` is the one row `reusable_rules` derives
  from the workbook, the mapping and the profile. `inputs` and `extracted` are
  the tables `inputs` and `input_results`; `evaluations` and `reviews` are
  `engine_records` in the order of `created_at`; `requests` is
  `engine_review_requests`.
* `task[c]` is a process running one command: `Start` to `Return` are
  `revisar_lote`, with `ReuseRules` to `RulesFail` for `reusable_rules`, which a
  revision that was given its ruleset in a file (`--ruleset`,
  `REVISION_RULESET_PATH`; run_revision.py:263-267) passes over (`RulesFrom`). The
  digest of the file is part of the request, so a key is revised with it or without:
  `pinned` holds the keys claimed with one, which the code records as
  `rule_generation = 'pinned'` in the input of the run.
  `SelectRows` to `Amend` are `correct_existing`, which ends by the same
  `Finish`, `GiveUp` and `Return`. `reviewing` holds the review threads of the
  processes: `ClaimReview` to `FinishReview` are `InvoiceDecisionEngine.review`,
  `ReviewFails` an exception that `fill_review` turns into the error of a file,
  `ReviewBreaks` and `ReviewSurfaces` one that it lets through.
* `Output` is `decide_output` of the row `latest_results` shows. `Raise` is any
  exception between two transactions, also after `finish_run`; `Die` ends the
  process, and nothing ever takes its running rows away.
* `authored`, `calls` and `before` are history: what was paid, and how many
  evaluations there were when a key was claimed.

Abstracted: rules. A decision is any of the three the rules could give, except
that the DUPLICATES rule is taken to be enabled and the identity of the invoice
usable, so that an earlier submission always gives NO_PAGAR. Every file shows the
same invoice, because different invoices share nothing. A generation of rules is
one row under `RulesKey`; what it holds, and a pinned *run* to take it from, is in
`RuleAuthoring`. What a pinned *file* holds is not modelled: it is checked to be a
ruleset before the key is claimed, and nothing ties it to the norm. Master data and ERP
snapshots are part of the evidence of a decision; nothing here depends on them.

## 3. Runs

| Run | Config | Instance | Checks |
|---|---|---|---|
| attempts | `QueueAttempts` | 2 processes, 1 input, 2 attempts, 1 generation, fal; 43,000 states | `QueueInv`, `TablesAgree`, `CompletedIsBacked`, `FinishedIsFinal`, `EveryInputEnds` |
| retries | `QueueRetries` | 2 processes (symmetric), 1 input, 1 attempt, 2 generations, an interpreter; 88,000 states | `NoSilentResubmission`, `ImplementsPaidWork` |
| ledger | `DeskLedger` | 3 files (two copies of an invoice, one look-alike), 2 approvals, 1 chat, 2 verdicts a file, 2 proposals | `InvoicePaidOnce`, `AppliedAsBacktested` |
| outbox | `DeskOutbox` | the worker and an HTTP thread, 1 payment, 1 other mail, 1 death | `AcceptedOnce`, `OutcomeIsHonest`, `OneNoticePerPayment`, `EveryPaymentNotified`, `EveryMailLeaves` |
| pauses | `DeskPauses` | the worker and 2 HTTP threads, 2 invoices (symmetric), 2 notices, 1 rule | `AskedOnce` |
| engine | `EngineRuns` | 2 processes (symmetric), 2 keys: one revises 2 files, the other 1 file under review, with a ruleset file or without; 2 faults; 2,009,000 states | `PaidOnce`, `EarlierSubmissionsSeen`, `ReviewIsBinding`, `DecidedByRecordedRules`, `NobodyWaits` |
| evaluation | `ContextualReview` | 8 rules, 120 alternatives of 24 parts, two changed at once; a check may raise; 8 ends of the review's call, 5 remarks; 141,000 states | `PaidIsPayable`, `RejectionIsProved`, `ReadyIsConclusive`, `WeakerNeverPays`, `UnattendedIsPayable`, `ExportedWasNotDoubted` |
| extraction | `Extraction` | 31 files, each with one peculiarity, through both routes and both interpreters; 2 attempts, 2 commands, 1 odd answer; 371,000 states | `NativeIsUnambiguous`, `RoutesReadAlike`, `ChoicesAreSpans`, `NothingLaundered`, `AnswersBoughtOnce` |
| authoring | `RuleAuthoring` | 2 revisions (symmetric), 3 contents of the sheet, 2 profiles, 4 answers of each classifier, 4 drafts, 1 fault; 137,000 states | `EnabledIsExecutable`, `NormIsKept`, `ParametersAreStated`, `SameInputsSameRules`, `ServedFromItsSources` |
| phone | `PhoneCall` | 2 companies with a root in common, 2 orders, 4 evaluated invoices, 1 call, 2 turns in flight, 1 lost; 676,000 states | `OwnerHears`, `UnderstoodAsMeant`, `SilenceWins`, `CallsEnd` |
| paid_twice | `QueuePaidTwice` | the smallest instance that shows it | `AnswerNotPaidTwice`, violated: section 6 |
| zombie | `PhoneZombie` | 2 calls, the turns it takes | `NoZombieSession`, violated: section 6 |

`TablesAgree` is three statements about the two tables of the queue
(`RunningAttemptIsCurrent`, `FinishedOwesNothing`, `BackoffHasBudget`), and
`ReviewIsBinding` two about reviews (`NothingLeavesUnreviewed`,
`CompletedIsComplete`). `DecidedByRecordedRules` is three about the rules of a
revision: without a file it decides only by a generation recorded as complete
(`RulesRecorded`), a generation is claimed only for such a revision
(`GenerationWasNeeded`), and one with a file is not refused for a generation that
is in progress or unknown (`FileIsEnough`), which is the way out that
rules_cache.py:42 recommends. `WithFile` says which keys may bring a file: in
`engine` it is one of the two, so that the run holds both two revisions that race
for one generation and a revision with a file beside one without.

Why the bounds are enough:

* Queue: a conflict over a job is between the claimant and one other process, so
  two processes show it. Two attempts are needed for a backoff, and one
  generation then suffices; two generations are needed for retries, and one
  attempt then suffices (a second attempt only repeats the first run). The first
  run has a provider that can be polled, the second one that cannot. What holds
  for all numbers of each is proved (section 5).
* Ledger: two copies of an invoice and a look-alike are the three relations a file
  can have to another one: same key, same amount and date, none. Two approvals
  show a replay and a second approval; two proposals, one made stale by the other;
  two verdicts, a replaced file. `MaxVerdicts` stops ingesting a file, not
  reprocessing it.
* Outbox: a mail is claimed once, so two threads show every race over it.
  `MaxMails` and `MaxAborts` count direct mails and deaths; payment notices are
  not bounded by them.
* Engine: two keys are a revision and another command: a second revision, which
  sees or races the first one, or a correction of what the first one stored. Two
  files tell a copy of the same name from a renamed one. Two faults allow one to
  each process. A third key multiplies the states beyond what is worth waiting for.
* Evaluation: a defect of this code is one part that hides, excuses or contradicts
  another one, so all pairs (`MaxChanges = 2`) of the alternatives are tried, the
  same value with worse evidence among them. Reviews are made up to one change
  from the baseline (`MaxReviewed`): a review looks at the findings a change
  leaves, and a second one only adds to them.
* Extraction: the limits are not the code's defaults (`OptionLimit` 255,
  `MaxQuestions` 12, `MaxCalls` 256; jev.py:256-258). `OptionLimit` is 10, so that
  a short invoice already needs several groups and rounds; `MaxQuestions` is 16 and
  `MaxBatch`, what the limit of an input lets through, is 9, so that it needs several
  requests; `MaxCalls` is 8, so that one file needs more calls than an attempt has.
  The proofs hold for any limits. `MaxOdd` is one
  answer that is not what the document says.
* Authoring: the three contents put a limit and a currency line, two contradictory
  limits, and a line of no family next to one that is no rule; two revisions are
  one generation and whoever shares, repeats or pins it.
* Phone: the cross-checks of a call compare two companies, and two turns in flight
  show an answer that is late or crossed. A second call is only needed for sessions
  that outlive the first, which is the run `zombie`.

Deadlock is checked where the system goes on for ever (queue, desk, engine): the
clocks, the commands and the worker always leave something to do. In `engine` a
repeated request is always answered, which says little, so `NobodyWaits` asks it of
each process instead. The runs of evaluation, extraction, authoring and phone stop
when the last file, revision or call is done, which is where the system stops too.

## 4. Fairness

* `JobQueue!FairSpec`: weak fairness of each coroutine's steps, because every
  await of the pipeline is bounded (`asyncio.wait_for`, the client timeouts,
  `asyncio.sleep`) and the event loop runs what can run; and of `due`, because
  time passes. Nothing is asked of the operator's commands, of the expiry of a
  lease or of the absence of crashes: `EveryInputEnds` allows the process to end.
* `DeskOutbox!FairSpec`: weak fairness of the worker's steps, because
  `_outbox_worker` loops once a second for as long as the process lives and
  sockets time out (`mail.TIMEOUT`); and of the holds. Nothing is asked of HTTP
  threads. A death of the worker (`Abort`) is followed by its next loop: an
  exception is caught (server.py:342), and a restarted process starts it again.
* `PhoneCall!FairSpec`: the greeting is asked for, speech ends (the page has a
  watchdog for voices that do not say so), a `fetch` settles with an answer or an
  error, and a caller who is listened to goes on talking. Nothing is asked of
  what he says, except in the premise of `CallsEnd`.

The other runs check safety, without fairness.

## 5. Proofs

Proved, for every value of the constants and without the bounds of the runs except
where a constant is one (`MaxFaults`, `MaxVerdicts` and their like, any number):

| Module | Inductive invariant | Properties proved | Hypotheses |
|---|---|---|---|
| `JobQueueProofs` | `QueueInv` (`QueueInvariant`), `TablesInv` (`TablesInvariant`) | `NoSilentResubmission`, `FinishedIsFinal`, `OutstandingIsVisible`, `TypeOK`; `TablesAgree`, `CompletedIsBacked`, `ImplementsPaidWork` | `ConstantsAssumption` |
| `DeskLedgerProofs` | `LedgerInv` (`LedgerInvariant`), `PaymentsInv` | `AppliedAsBacktested`, `InvoicePaidOnce` | the second one: `FilesKeepInvoices` |
| `DeskOutboxProofs` | `OutboxInv` (`OutboxInvariant`) | `AcceptedOnce`, `OneNoticePerPayment`, `AskedOnce`, `OutcomeIsHonest` | the last one: `~QuitRefused` |
| `EngineRunsProofs` | `EngineInv` (`EngineInvariant`) | `PaidOnce`, `EarlierSubmissionsSeen`, `DecidedByRecordedRules`, `ReviewIsBinding` | `EngineAssumption` |
| `RuleAuthoringProofs` | `AuthoringInv` (`AuthoringInvariant`) | `SameInputsSameRules`, `ServedFromItsSources`, `NormIsKept`, `ParametersAreStated`, `EnabledIsExecutable` | `AuthoringAssumption`; the last one: `SourcesAreSound` |
| `EvaluationProofs` | `EvaluationInv` (`DecisionFollowsInput`), `MemoryInv` (`MemoryInvariant`), `ReviewInv` | `PaidIsPayable`, `UnattendedIsPayable`, `ReadyIsConclusive`, `RejectionIsProved`, `WeakerNeverPays`, `ExportedWasNotDoubted` | `EvaluationAssumption`, `InputAssumption` |
| `ExtractionProofs` | `Readings` (`ReadingsStayReadings`), `PaidOnce`, `FromTheText`, `JevOffers`, `JevHears` | `AnswersBoughtOnce`, `NativeIsUnambiguous`, `RoutesReadAlike`, `ChoicesAreSpans`, `NothingLaundered` | `BatchesAssumption`, `LimitsValid`, `NullAssumption`, `ChoiceAssumption` |
| `PhoneCallProofs` | `PhoneInv` (`PhoneInvariant`), `TurnsInv` | `OwnerHears`, `SilenceWins` | `PhoneAssumption`; the first one: `YesIsMeant`, the second: `OpenRulesHaveCodes` |

The assumptions on constants say that `None` and `NULL` are none of the values they
are told from, that tables given as constants have the domains they are used with,
that there is at least one attempt, one line of a sheet and one file of a batch, and
(`InputAssumption`) that an invoice and its snapshots have the parts the code gives
them: every scalar a link of one of five kinds, every snapshot an availability, the
authority it was captured with and its rows.
TLC evaluates them in every run. Five hypotheses say more:

* `FilesKeepInvoices`: the contents that come under one file name are scans of one
  invoice. `register_payment` looks at its own file only, so a name that is used
  again for another invoice after it was paid hides the payment: with f1 holding a
  scan and then a look-alike, TLC finds the scan paid again as f2. The instance of
  `ledger` satisfies the hypothesis.
* `~QuitRefused`: no server answers QUIT with a refusal. `FailedWasNotAccepted` in
  section 6 is what happens otherwise.
* `SourcesAreSound`: the profile's own rules, before any sheet retunes them, are
  rules that `plan_rule` accepts; amounts are written with digits, so that none is
  negative; and BAD, a value of the wrong shape, is apart from the right ones. The
  profiles and sheets of `authoring` satisfy it.
* `YesIsMeant`: what is heard as a yes was said as one. "No es correcto" is the
  exception (section 6), and with it a caller hears of an order after a denial.
* `OpenRulesHaveCodes`: a rule that neither passed nor was out of place gives a
  code. `RuleFrame.finish` collects them from the steps that did not pass, and an
  open rule has one (execution_rules.py:222-227). Without it an open rule would not
  stop `respuesta` from calling the invoice conforming. The files of `phone` satisfy it.

The arguments:

* *Queue.* `NoSilentResubmission` is not inductive: it says nothing of a coroutine
  that is about to make its call, while its lease may have run out and its job have
  been reconciled. `QueueInv` adds what makes this harmless. `ReadyOK`: an attempt
  about to call is the last of its job and has no request ID, so the job can only
  stay where it is or become unknown, and an unknown job without request ID can
  neither be claimed nor recovered; no other coroutine is about to make the same
  call. `OwnerOK`: a lease owner that has not begun its attempt owes nothing,
  because `OpenOK` keeps open calls away from pending and waiting jobs.
  `SelectedOK` and `DerivedOK`: the generations a retry is inserting come from jobs
  with a verdict or were asked for with consent; a verdict is final, so what the
  statement's snapshot saw still holds at commit.
* *Tables and contract.* `TablesInv` adds to it what a row says of its attempts
  (`RowAgrees`), what a coroutine may count on (`CoroutineAgrees`: a call in flight
  is outstanding and cannot be recovered by anyone), and that two coroutines never
  have the call of one job in flight (`OneSent`). With it every step of the queue
  maps to a step of `PaidWork` or to a stutter: `Send` opens a call, the ends of an
  attempt settle or lose it, recovery answers it, a retry derives a generation, and
  leases, backoffs and crashes before the call change nothing of the contract.
* *Ledger.* Two files of an invoice are never both free of the duplicate's mark
  (`CopiesInv`), a marked file is never one to pay under any policy
  (`VerdictsInv`), and when one is paid the others are marked (`PaidInv`).
  `ProposalsInv` says that a proposal shows each file as it still is unless a later
  verdict came, which is what `apply` compares.
* *Outbox.* A mail between its claim and its outcome belongs to one thread
  (`InFlight`) which knows what the server did (`AnswerKnown`); the events tell it
  whatever becomes of the thread (`MailKept`); a notice's key and the notice are
  written together (`NoticesKept`).
* *Engine.* Who holds a running row (`KeysHeld`, `RulesInv`, `ReviewInv`), what he
  has read of the history (`HistoryInv`), what he has bought (`CallsInv`), and what
  becomes of each of his files: listed, failed, or evaluated with its review had or
  in progress (`AccountInv`). `FilesInv` says that only who brought no ruleset is
  ever asking for one, which is why a generation has somebody who needed it.
* *Authoring.* One author for a signature (`OneAuthor`), who holds its run; the
  lines not yet compiled and the rules compiled so far always split the sheet
  (`TaskInv`); a completed run holds rules of its own sources (`RunInv`). The
  classification and the parameters are lemmas about single lines. A rule of a
  family is the profile's with settings whose values the planner takes
  (`StatedTaken`, `RetunedIsExecutable`), and a compiled line is a condition that was
  validated before it was written (`DraftsCompile`), whichever reader wrote it.
* *Evaluation.* What is published and decided is a function of the frozen input,
  and the rest is about the operators. A result fails only by a step whose facts are
  all known, through the six checks and the three-valued conditions one by one; a
  known fact rests on printed values without issue, with a good link and with its
  evidence. A ready and supported binding leaves no operand unknown to any operator.
  `WeakerNeverPays` compares two inputs, so `MemoryInv` keeps what the earlier one
  was: its decision is what its parts give. If the later one is paid, nothing was
  outstanding for it, which leaves its printed values and snapshots without a doubt
  (`PaidIsQuiet`); so each of its facts is the earlier one or lost
  (`AllKept`). A check that had failed fails again or is blocked
  (`VendorStands`, `AmountStands` and their like, one per check), a condition that was
  FALSE stays FALSE or becomes UNKNOWN (`GroupKept`), and either keeps the later input
  from being paid. While every snapshot keeps its authority no fact is
  lost either, and nothing that was escalated is paid (`SameAuthoritySamePay`).
  `PaidIsPayable` is read the other way, from the payment to the raw input. Every rule
  of a paid invoice passed or did not apply, so each assertion of the four checks was
  made of usable facts and held (`AskedPasses`). A usable fact of the supplier, the
  order, the ERP or a history is what the rows that the printed key leads to say, all
  of them, under an authority and a coverage that were granted (`SupplierRead`,
  `OrderRead`, `ErpRead`, `HistoryRead`), and a printed one is the raw value,
  normalised if it is text (`ReadScalar`). That nothing was outstanding gives the
  evidence (`QuietIsDoubtless`). `AsksEnough` names what the rule book must ask for:
  VENDOR with the IBAN, DUPLICATES with the ERP, AMOUNT against the order within one
  cent and with the order's own currency, DATES without future ones. Other rules may
  be added, in any order. With fewer checks a payment says less, which is the rule
  book's choice.
* *Extraction.* A reading stays what the recognisers make of a page, through vision
  and corrections (`Readings`); everything else is about the operators. An accepted
  file was published with what `Extract` read in it (`FromTheText`), and a field of it
  is the value of one printed line, by one lemma per reader; a number is written,
  printed and read again (`ReadBack`), case by case over its separators, because
  `_amount` and `normalize_decimal` meet only there. Of Jev, what is heard are options
  that a question of the conversation offered (`JevOffers`). A round only leaves
  options of the round before (`PlayIs`), a batch only asks what is still open
  (`PackedIs`, `PackedCovers`), so every answer is an option the candidates of the
  reading gave (`ConversationOffers`), and what is assembled from one is printed in the
  line it names (`ScalarIsSpan`, `RowIsSpan`). `NothingLaundered` needs the other
  direction, from the kept answers to the questions: every kept answer belongs to a
  group or a batch that the conversation visits (`Known`, in `JevHears`). This is
  inductive because further answers never undo a round (`PlayGrows`, `AskedStays`), so
  a request once visited stays visited (`KnownStays`), whatever came before a crash or
  a retry. When all is answered the rounds have ended (`PlayEnds`: a full round leaves
  fewer options), so a doubt heard in any of them is what its question said
  (`PlayHears`, `VisitedIsSaid`), an issue of the invoice (`DoubtIsAnIssue`), and a
  reason for review (`DoubtNeedsReview`).
* *Phone.* The reply to a turn is a function of the state the turn carries, so the
  invariant is about the page's state and about every state in flight (`Sound`,
  `SoundTurn`): nobody is asked for his order who did not say who he is.
  `SilenceWins` needs only that the states are of the dialogue (`TurnsInv`), so it
  does not rest on `YesIsMeant`: whatever is told of an order is what `respuesta`
  tells of a file of the export (`AboutAnOrder`, `FileOfInvoice`), it looks for the
  codes to be kept silent before any other, and no code that may be told is told as
  that the invoice conforms (`ExplicableIs`).

Each module has one lemma per action and per part of the invariant the action can
disturb. TLC checked the invariants on instances before they were proved; the run
`attempts` lists `QueueInv`.

Only model-checked:

* `EveryInputEnds`, `EveryPaymentNotified`, `EveryMailLeaves`, `CallsEnd`
  (liveness under fairness) and `NobodyWaits` (`ENABLED`).
* `UnderstoodAsMeant`, which depends on the turns and companies of the instance and
  speaks of them.

## 6. Where the code and its texts disagree

Shown by a run:

* **A paid answer is bought again** (`paid_twice`). `interpret` stores the
  native answer inside the operation (pipeline.py:782). If the object store
  answers 5xx or refuses the connection, the handler takes it for the
  provider's refusal and retries by itself, against
  docs/ingestion-agent-alpha-spec.md:175 and docs/ingestion-agent-operator.md:74.
* **A session outlives its call** (`zombie`). The server keeps no sessions "ni
  sesiones zombis" (phone_calls/guion.py:552-555), but the page assigns
  `estado = r.estado` whenever an answer arrives
  (phone_calls/estatico/llamada.js:448), also after the hang-up and the next
  pick-up: the second caller then speaks for the company of the first.

Known formulas that do not hold. They are kept in their modules, each with the
change that makes TLC show the behaviour:

| Formula | How to see it | What it is about |
|---|---|---|
| `JobQueue!CompletedResultKept` | `QueueAttempts.cfg` with `Spec` and this PROPERTY | docs/ingestion-agent-alpha-spec.md:120 says not to overwrite results. A worker whose lease expired, and whose job was recovered and completed by another process, fails to complete it, raises, and `set_result` (pipeline.py:364) upserts `failed` over `completed`. The job stays succeeded. |
| `DeskLedger!ExemptionsOnlyAdded` | `DeskLedger.cfg` with `Chats = {t1, t2}` and this PROPERTY | `parse` reads the list of exemptions before `propose` opens its transaction (desk/rules.py:114, 202), so an exemption applied in between is removed by a proposal that reads as an addition. |
| `DeskOutbox!FailedWasNotAccepted` | `DeskOutbox.cfg` with `QuitRefused = TRUE`, `MaxAborts = 0` and this INVARIANT | A reply to `QUIT` other than 221 raises from the `with` block and is reported as definite (desk/mail.py:123-134); the accepted mail can then be cancelled. |
| `DeskOutbox!UnaskedCanBeAsked` | `DeskPauses.cfg` with `Threads = {worker, h1}`, `Files = {f1}`, `Causes = {VENDOR, DUPLICATES}`, no SYMMETRY and this INVARIANT | The key of a pause notice has no rule in it while its generation does (desk/agents.py:510-517): after a cancelled notice and a change of blocking rule the key is already taken, and nobody is asked. |
| `RuleAuthoring!StatedLimitApplies` | `RuleAuthoring.cfg` with `Revisions = {r1}`, `Books <- TwiceWritten`, no SYMMETRY and this INVARIANT | profiles/balanced.yaml:35 says that a sheet which states a threshold moves it. Lines that write it as 5.000 and as 5.000,00 state two canonical texts (rule_params.py:203 compares `repr`), which counts as a contradiction. |
| `TextCascade!UncertainNeverPays` | `Extraction.cfg` with this INVARIANT | pipeline.py:479 says that persistence uncertainty must not trigger a paid fallback. When both local jobs fail, the first exception in order is raised (473-475), and the unknown outcome of the second one is not looked at. |
| `TextCascade!GapsGoToVision` | `Extraction.cfg` with this INVARIANT | deterministic.py:8-9 says that a field left open shows up in gaps so that the vision stage can take over. The gate looks at gaps of its own choice: a file with an ambiguous currency is accepted. |

Met while reading, and not a property of any module:

* docs/deterministic-rule-execution-spec.md:130 excludes the current file from the
  processed history; contexts of the backend set `same_file_policy: include`
  (backend/results_store.py:296). Malformed records of a history do not make its
  coverage incomplete in every case the same line describes.
* backend/export_outcomes.py:4 speaks of an unchallenged completed review;
  `decide_output` also takes an INCOMPLETE one (line 40). `ExportedWasNotDoubted`
  says what then still holds.
* A context with a binary workbook among its sources is always reviewed as
  INCOMPLETE, because what is not JSON cannot be read.
* Trusting a source less can pay an invoice that was escalated. A source without
  authority raises no findings (decision_context.py, `_resolve_erp` and
  `_resolve_history`), so a rule book that does not ask for that source loses what
  made the case doubtful; and under `order_currency_policy: invoice` an order
  currency without authority counts as absent and is taken from the invoice
  (execution_rules.py:311-319, docs/invoice-correction-20260920.md:17), so that an
  order in dollars is paid in euros. An attempt to prove the earlier, stronger
  `WeakerNeverPays` found both. The connectors do not withdraw an authority between
  captures: `backend/master_data.py:318` grants the currency whenever the mapping
  has one. `WeakerNeverPays` now says what does hold: losing evidence or coverage
  never turns another recommendation into PAGAR, and losing authority never turns a
  rejection into one; `PaidIsPayable` says that a rule book with the four checks of
  `AsksEnough` pays nothing without every authority it rests on.
* 1.250 is 1250 to the text layer and 1.25 to `normalize_decimal`
  (`RoutesReadAlike` names it as its exception); 08/01/2026 needs a person when Jev
  chooses it, and not natively; any label with "fecha" in it, a due date too, is taken
  for the issue date; item lines before a repeated header are dropped.
* The signature of a generation lists the files of its implementation
  (rules_cache.py:21) without rule_params.py, condition_authoring.py,
  policy_metrics.py, conditions.py and decision_registry.py: a change of those
  reuses the rules generated before it.
* A death while rules are generated leaves its key running for ever, and later
  revisions of the same inputs fail until they pin a run.
* A declared line is "a rule by definition" (classify.py:121) and can still end as
  NOT_A_RULE; "queued for human review" (classify.py:599) does not keep a line from
  being compiled and enabled.
* The heuristic reader takes "a partir de 5.000" for strictly above, and a limit
  filed under AMOUNT loses its limit.
* "No es correcto" is taken for a yes at the confirmation; a denial resets the
  count of failures, so "al tercer fallo, persona" (guion.py:530) does not bound a
  call in which the parser keeps hearing the wrong company; of two invoices on one
  order only the last exported one is told; an order without a known owner is told
  to anyone; hanging up while the page rings still sends the greeting.

## 7. Not modelled, and why

* Texts, prompts, schemas, layouts, PDF and image handling, regular expressions:
  they appear as what they find, or as the outcomes of a call.
* Extraction: several pages and page assembly, the answers of DeepSeek beyond
  their evidence links.
* Evaluation: the validators of stored documents, hashes and archives, the review
  command line (it adds further reviews to an evaluation, and the latest counts).
* Authoring: scanning of workbooks and cells, the command line's review queue,
  demotion, discovery cache and generated checks.
* Desk: numeric policy parameters and four of the six checks of `engine.evaluate`
  (each depends on one invoice alone), `send_report`, `remesa_xml`,
  `daily_report`, `investigate`: one claim, or read-only.
* Backend: previews, the cache of ERP snapshots, master data, the files of an
  export; HTTP servers and read queries; batches as rows; the byte-bounded
  `artifact_cache`.
* Phone desk: typing a number, recorded replays, voice synthesis, the panel. The
  copies of the phone desk under `frontend/` are identical to the ones modelled.
* Desk chat and explanations, the rest of the front end, tools, scripts, the sample
  data and the mock ERP; the schema, whose CHECK constraints agree with the states
  of `JobQueue!TypeOK`.

Hazards that no property covers are listed in `PROJECT.json` with the reason. One
text is out of date: docs/revision-fast-path.md:64 says that the history of
duplicates is queried per invoice, the code takes it once for a run
(run_revision.py:304), and docs/duplicate-submission-policy.md promises no more.

## 8. Plan

Done: the job queue and its contract; the desk's ledger and outbox; the runs of the
engine and the backend; extraction and the cascade; the evaluation and its review;
rule authoring; the phone desk; and theorems about each of them. What comes next are
the cache of ERP snapshots (`erp_cache`) and the LRU of `artifact_cache`.
