# Komptia: verification of the automation engine

Komptia is a web application (Tornado, SQLAlchemy on SQLite, APScheduler) that
automates the work of an accounting office on the database of its ERP. Its core
is the **automation engine**: a workflow is a graph of steps (extraction,
analysis, report, export, e-mail, question to a third party); a schedule, a
user or a webhook starts an *execution* of it; an execution may stop for days
on a question mailed to somebody and go on from the answer. A mistake of that
engine is visible outside: an e-mail leaves twice, an answer is thrown away, a
report that nobody received is declared sent.

This directory holds TLA+ models of that engine, their checks with TLC and
proofs about them with TLAPS. Paths below are relative to
`src/app/services/automation/` unless they start otherwise; `executor.py:2949`
is line 2949 of that file.

Contents: [1 Inventory](#1-inventory) · [2 Modules](#2-modules) · [3
Runs](#3-runs) · [4 Fairness](#4-fairness) · [5 Proofs](#5-proofs) · [6
Findings](#6-findings) · [7 Plan](#7-plan) · [8 What is not
modelled](#8-what-is-not-modelled)

## 1. Inventory

### Components

| Component | State it keeps | Operations | Hard parts |
|---|---|---|---|
| **Suspension and resumption** (`executor.py`, `wait_resume.py`, `app/handlers/wait_response.py`) | `Execution.status`, `wait_checkpoint`; `WaitToken` rows; rows of the wait steps; the job `resume_exec_<id>`; the run lock of the automation | run, cancel-on-next-run, ask (token, mail, checkpoint), answer, resume, expire, toggle off, orphan cleanup, restart | HTTP requests, scheduler threads and coroutines on one row; reads and writes in different transactions; answers while the asking run still works; a process that stops between commit and `add_job` |
| **DAG executor and verdict** (`dag_executor.py`, `executor.py`) | `DAGRunContext` (outputs held, steps to skip, abort, breaker), step records, `StepExecution` rows | levels, skip, retry, fail policy, circuit breaker, fan-in, purge of outputs, checkpoint, journal, verdict | a level runs in parallel and may suspend in the middle; a resume rebuilds the context from rows and a checkpoint written at different times |
| **Sinks and idempotency log** (`executor.py`, `idempotency_service.py`, `email_delivery_service.py`, `app/models/idempotency_log.py`) | `F_IDEMPOTENCY_LOG`: a key and its expiry | claim, deliver ticket by ticket, release, purge | retry, cancellation and crash between claim and delivery; midnight; a database error lets a sink run unclaimed |
| **Run lifecycle** (`scheduler.py`, `loader.py`, `app/handlers/automations.py`, `executor.py`) | the job `automation_<id>` and its dates, `is_active`, `paused_reason`, failure counter, schedule; the registry of run locks | schedule, load at start, toggle, edit, delete, kill switch, both ends of a run, automatic pause, deactivate "once", orphan cleanup, restart | memory (jobs, locks) against the database; the end of a run writes on the automation it loaded at its start; requests commit first and change the job afterwards |
| **Deadlines, reminders, retention, files** (`wait_resume.py`, `wait_response.py`, `executor.py`) | `expires_at`, the reminder mark, uploaded files | compute a deadline, remind, expire, upload, purge rows then directories | deadlines against schedules; files against rows; a job in five commits that may stop between two |
| **Write sessions** (`app/services/ai/iris_write_session.py`, `app/handlers/iris_sql_write_dba.py`, `app/services/database/sage_connector.py`) | rows of `sql_write_audit`; the one connection to the source database: its autocommit and its open transaction | estimate, propose, mail, confirm, reject, write, expire, recover | threads that share a transaction; a link clicked twice; a commit and the verdict about it in two databases |
| **DAG validator** (`dag_validator.py`) | none | cycles, reachability, structural rules | what it accepts is what the executor assumes |
| **Request guards** (`app/utils/idempotency.py`, `app/utils/rate_limiter.py`, `app/services/auth/login_rate_limiter.py`) | claimed keys with TTL, sliding windows, lockouts | claim, release, count, clean up | limits and expiries at their boundary, concurrent requests |
| **Pipeline channel** (`app/services/ai/pipeline_event_bus.py`, `pipeline_ask_user_bridge.py`, `app/services/event_bus.py`) | bounded buffer of events, subscribers, a future per question | publish, subscribe, replay, ask, answer, time out, cancel | late subscribers, a full buffer, an answer racing a timeout |
| **Caches** (`app/services/query_cache.py`, `app/services/dashboard/widget_result_cache.py`) | entries with TTL, LRU order | get, put, invalidate | a value computed before an invalidation and stored after it |
| **Sessions and logins** (`app/services/auth/session_manager.py`) | session rows | create, renew, revoke | expiry |
| Everything else | see section 8 | | |

### How they interact

* The scheduler (threads) and the handlers (event loop) both start executions;
  `execute_automation` takes a lock per automation, so at most one run *or*
  resume of an automation walks its graph. The lock is in memory; the database
  and the job store survive a restart.
* A run calls `run_dag_pipeline`, which calls the node adapter for each step;
  the adapter of a wait step commits a token, mails a link, writes
  `status = waiting` and the checkpoint, and returns `waiting`. The pipeline
  stops after that level and the run records that the execution waits.
* The link is answered in a request: a compare-and-set resolves the token, then
  a job is added to the scheduler, outside the transaction. The job claims
  `waiting -> running` by a compare-and-set, rebuilds the context, waits for the
  run lock and walks the graph again, skipping what the journal says succeeded.
* Periodic jobs and the next run change the same rows: expiry of overdue tokens,
  orphan cleanup of old `running` executions, cancellation of waiting executions
  when the automation runs again or is switched off.
* Sinks share the idempotency log across executions: two executions of a day
  with the same content have the same key.
* The end of a run writes the automation's row (counter, pause), which the
  requests write too; requests and loader change the job store, which a job
  that fires changes by itself.
* Every quarter of an hour one job expires overdue tokens (and their
  executions), marks and mails reminders, purges old rows, then their
  directories; links are answered and files written meanwhile.
* The assistant proposes a write on the source database, a DBA clicks a link;
  estimates and writes run in threads on one connection.

### What makes each component correct

* *Suspension*: one walk of the graph at a time; a resume only after an accepted
  answer, and not once a newer execution exists; a link that accepts an answer
  belongs to an execution that waits, with the checkpoint of its step; an
  execution that waits can be answered; nothing is asked again once it is answered; terminal is
  terminal; every execution ends.
* *DAG*: no step before its parents are settled, with all their workbooks; no
  step twice across suspensions; a failure stops what its policy says and
  nothing else; one journal row per step; a verdict that agrees with what was
  delivered.
* *Sinks*: at most one delivery a day under a key whatever overlaps, fails or
  crashes; a retry is not taken for a duplicate; a skip stands for a delivery.
* *Lifecycle*: one pass at a time even when the lock leaves the registry; a
  pause for failures neither early nor late; what is delivered is not recorded
  failed; an active automation has its job; no date runs twice; nothing stays
  running.
* *Deadlines*: a link closes before the next run; nobody's question expires
  unannounced; the retention takes nothing a resume still needs; no file without
  a row; nobody waits for a link that is gone.
* *Write sessions*: a demand is written at most once; an estimate leaves nothing;
  the audit tells what was committed; every demand settles.

`PROJECT.json` lists the hazards, each at its line, with the properties that
cover it.

## 2. Modules

```
WaitPromise     what suspension promises            (abstract)
   ^ INSTANCE, refinement KeepsPromise
WaitResume      runs, tokens, resumes, sweeps
   ^            <-- WaitResumeProofs <-- WaitOrderProofs <-- WaitCalmProofs
   ^ MCWaitResume
DagRun          one execution: graph, journal, verdict  <-- DagRunProofs
   ^ MCDagRun
SinkDelivery    sinks and the idempotency log  <-- SinkDeliveryProofs
   ^ MCSinkDelivery
RunLifecycle    triggers, both ends of a run, pauses, jobs, boot  <-- RunLifecycleProofs
   ^ MCRunLifecycle
WaitExpiry      deadlines, reminders, retention, files  <-- WaitExpiryProofs
   ^ MCWaitExpiry
WriteSession    writes confirmed by a DBA, on one connection  <-- WriteSessionProofs
   ^ MCWriteSession
```

The models meet at narrow interfaces. `WaitResume` abstracts the steps that
cannot suspend; `DagRun` details them and abstracts tokens, locks and sweeps;
`SinkDelivery` details what a sink step does in a pass. `RunLifecycle` takes of
a pass its outcome only, and details what happens before and after it;
`WaitExpiry` takes of an execution whether it runs, waits or is over, and
details the life of a link in time. `WriteSession` is apart. In each module
definitions marked `\* mutant` are altered versions of the definition next to
them, as a plausible mistake in the code would have it; no specification uses
them. They exist to show that each property can fail: put in place of the
definition, TLC finds the property violated.

### WaitResume

One automation, with any number of executions, tokens and wait steps arranged in
levels. A *worker* is the run that created an execution or the resume job of an
answered token, with a program counter that stops where the code commits,
awaits or waits for a lock.

| Variable | Code |
|---|---|
| `exec` | `Execution.status`, `wait_checkpoint` (the step it was taken at) |
| `token` | `WaitToken`: status, execution, step, and whether its link has left |
| `row` | `StepExecution` rows of the wait steps, by step and attempt: none, `waiting`, `success`, `failed` or `skipped` |
| `overdue`, `old` | `expires_at` passed; `started_at` before the orphan cutoff |
| `unsched`, `job` | tokens resolved but not yet given to `add_job`; the job `resume_exec_<id>` (one per execution, replaced) |
| `worker` | where each run or resume is, each wait step in its pass and its attempt; `blind`: its cancel-on-next-run failed |
| `lock` | holder of `_automation_run_locks[id]` |
| `sweep` | what a sweep has read and not yet written |

| Actions | Code |
|---|---|
| `RunStart`, `RunCancel`, `RunCancelFails`, `RunCreate`, `RunFlush`, `RunEnd`, `RunAbort` | `execute_automation` (executor.py:3127, 141-925) |
| `AskToken`, `MailOut`, `MailFails`, `Suspend`, `SuspendFails`, `StepFails`, `SkipStep` | the wait adapter (4222-4371), the retry loop (dag_executor.py:455-535) and the levels of `run_dag_pipeline` |
| `Answer`, `Schedule`, `ScheduleFails` | `WaitResponseHandler.post` (441-555) |
| `Fire`, `Misfire` | APScheduler (external) |
| `Claim`, `LoadRefused`, `Load`, `ResumeRefused`, `AcquireLock`, `ResumeReturn`, `ResumePersist`, `ResumeFinal`, `ResumeCrash` | `resume_automation_job` and `_resume_automation_async` (2564-3060) |
| `Toggle`, `ExpireRead`, `OrphanRead`, `OrphanWrite`, `SweepWrite` | the toggle handler, `expire_overdue_wait_tokens`, `cleanup_orphaned_executions_job`: read, then write by primary key |
| `Deadline`, `Age`, `Crash` | time, and a stop and restart of the process |

`Env` names what the environment may do: land in the middle of a pass
(`midrun`, `deadline`), start a run while a resume is in flight (`overlap`),
fall between the read and the write of a sweep (`gap`), switch off (`toggle`),
fail (`mail`, `timeout`, `owner`, `unscheduled`, `misfire`, `crash`), refuse the
writes whose failure the code only logs (`dberror`: cancel-on-next-run, the
journal, the checkpoint), outlive the cutoff (`slow`). A wait step may fail or be
skipped in any environment. `Tries` gives how often each is tried in a pass; a
retry mails another token. The code can meet all of them; a run that leaves one out
shows a property *under that assumption*, and the violation runs show that the
assumption is needed.

The journal decides what a resume executes again, and its rows are never
replaced: a wait step that failed or was skipped in one pass has a row of that
step and attempt, the row of its later question is not inserted
(executor.py:1589-1592), and its answer turns no row into a success (2817-2840).
`Journal`, `Succeeds` and `SkipIds` keep this; `Stale(e)` names such steps.

`WaitPromise` is what suspension promises, with four variables per execution
(phase, questions open, answered, missed) and nine actions: a question is asked
once, and again after its answer only if a pass had missed it before (`Miss`:
its step failed or was skipped); an execution waits while a question is open,
goes on after an answer, and ends once, closing its questions. `WaitResume` maps
`phase` to the status, the questions to tokens by status and the missed ones to
`Stale` (`Promise`); `KeepsPromise` is the refinement.

### DagRun

One execution of a workflow given as a record `flow`: data edges, trigger
edges, disabled steps, wait steps, sinks, steps that may fail, the fail policy,
and the risks that apply (`breaker`, `timeout`, `fanin`, `journal`). A workbook
is represented by the step it comes from: `ctx.out` is the key set of
`step_outputs`.

| Actions | Code |
|---|---|
| `Start`, `Refuse` | `topological_levels` (Kahn), the active steps and the poison of disabled ones (dag_executor.py:173-232, 862-926) |
| `OpenLevel` | who runs and who is recorded skipped (962-1045) |
| `SkipOver`, `RunFine`, `RunFails`, `RunWaits`, `FanInTooLarge` | one step of an open level: breaker, attempts, suspension, a fan-in that raises (308-580, 1048-1117) |
| `CloseLevel`, `PipelineRaises`, `EndLevels` | outputs, purge, policy, flush of the journal, stop on a suspension (1115-1209) |
| `Persist`, `Verdict`, `Timeout` | `_persist_dag_step_results`, the verdict of a run (executor.py:403-514) and of a resume (2983-3060), `wait_for` |
| `Resume` | context and steps to skip from the checkpoint and the journal (2805-2889) |
| `Exceed` | `_check_circuit_breaker` |

Notes on the abstraction. A step that succeeds is taken to produce a workbook;
in the instances sinks are leaves, so what an e-mail or a report returns is
never an input. A wait step of `DagRun` is answered after the execution has
stopped, once; everything else about answers is `WaitResume`'s. A step record is
its step, status and attempt.

### SinkDelivery

Sends are executions of sink steps in a pass. A *sink* stands for everything a
key is computed from except the date (automation, step configuration, inputs,
attachments), so two sends with the same sink have the same key on the same
day. `send[a]` goes claim, insert, send, then release on failure; `log` gives
the expiry of the row of each key; `out` is a history variable of what has
really left, item by item.

| Actions | Code |
|---|---|
| `Begin`, `OwnerInactive` | start of a sink step; a mail is not sent for a deactivated owner (executor.py:3535-3569) |
| `Lookup`, `Insert`, `ClaimFails` | `claim_idempotency_key` (idempotency_service.py:146-182); a database error lets the sink run unclaimed (executor.py:3210-3239) |
| `NoTickets`, `NoSmtp`, `BrokenSmtp` | the ways a mail step ends before sending (3784-3826) |
| `Deliver`, `Bounce`, `EndSend` | the tickets of a mail or the file of a report (3838-3907) |
| `Release` | release, then retry or failure (3241-3262, dag_executor.py:498-530) |
| `Cancel`, `Crash` | `CancelledError`; the process stops. A ticket handed to the SMTP thread may leave after the cancellation |
| `Purge`, `Tick` | the hourly purge; time |

`weather` is the set of hazards of a behaviour: SMTP absent, its configuration
broken, cancellations, crashes, database errors, overlapping sends of one sink,
a client that reports a failure for a mail that left, a deactivated owner.

### RunLifecycle

One automation around its runs. A *call* is a call of `execute_automation`, by a
job, a webhook or somebody, later perhaps the resume of its execution.
Cancel-on-next-run may fail (`CancelAttempts`), and so may the write of a
verdict (`CommitFails`) and that of the handler that rescues it (`LoseEnd`).

| Variable | Code |
|---|---|
| `row` | `Automation`: exists, `is_active`, `paused_reason`, `consecutive_failure_count`, its schedule (a version number) |
| `job`, `when` | the job `automation_<id>` and the next date of each schedule: to come, due, beyond the grace time |
| `registry` | `_automation_run_locks[id]`: which lock object a call gets |
| `run` | each call: program counter, trigger, lock, the automation it loaded, its execution, its verdict and whether that was lost |
| `req` | requests: what is left to do after their commit, and the schedule they captured |
| `up`, `killed` | the process (`down`, `boot`: the scheduler runs and the loader has not, `up`); the kill switch |
| `past`, `spent` | history: failed verdicts since the last success or activation; single dates already run |

| Actions | Code |
|---|---|
| `Fire`, `Miss`, `Elapse` | the scheduler with `coalesce`, `max_instances = 1` and a grace time (scheduler.py:350-380) |
| `Trigger`, `Enter`, `Refuse`, `Start`, `OwnerMissing` | loader.py:51-104; executor.py:3086-3169, 141-300 |
| `Verdict`, `Suspend`, `CommitFails`, `Notify`, `Raise`, `LoseEnd` | the end of a run: counter, pause, once, notifications, and the handlers of errors (executor.py:403-925) |
| `Answer`, `ResumePass`, `EndResume` | a resume, which keeps no count |
| `ToggleOn`, `ToggleOff`, `Reschedule`, `Arm`, `Disarm`, `Delete`, `Erase`, `Drop` | the requests of automations.py, each as its commit and what follows it |
| `AgentToggle`, `KillSwitch` | the assistant's tool (agent_tools_app.py:180-204); the feature flag |
| `CleanOrphan`, `Crash`, `Boot`, `Load` | scheduler.py:1100-1205, a stop, `start_scheduler`, `load_active_automations` |

A *scene* fixes for a behaviour what may go wrong, the kind of each schedule and
how many calls and schedules there are.

### WaitExpiry

The questions of an automation in time, counted in quarters of an hour, the
period of the job.

| Variable | Code |
|---|---|
| `row` | token and execution of each question: statuses, `created_at`, `expires_at`, what the step asked for, the reminder mark, the file named |
| `post`, `disk` | submissions of the form; files, each named by the submission that wrote it |
| `job` | `cleanup_wait_tokens_job`: where it is, and the questions it has read and not yet dealt with |
| `dates` | when the automation's job fires |

| Actions | Code |
|---|---|
| `Ask`, `Suspend`, `MailFails` | the wait adapter with `compute_wait_expires_at` (wait_resume.py:42-138) |
| `Submit`, `Answer`, `Lose`, `DbError` | the form: file first, then the compare-and-set (wait_response.py:342-518) |
| `Expire`, `Remind`, `Mail`, `Purge`, `PurgeDirs` | the job, commit by commit (wait_resume.py:490-840) |
| `Resume`, `Cancel`, `DeleteStep`, `EditSchedule`, `Tick`, `Crash` | the rest of the world |

### WriteSession

| Variable | Code |
|---|---|
| `row` | `sql_write_audit`: status, deadline passed, age of the status, link sent |
| `call` | proposals and clicks: where they are, and about which demand |
| `tx` | the thread that works for a call: five moves of `execute_write`, the autocommit it has read, the outcome |
| `conn` | the connection: autocommit, statements of the open transaction |
| `kept` | history: the statements the source database has committed |

| Actions | Code |
|---|---|
| `Propose`, `Insert`, `Mail`, `Unsent` | `propose_sql_write` (iris_write_session.py:434-640) |
| `Reserve`, `TooLate`, `Recheck`, `Finish`, `Reject` | `dba_confirm`, `dba_reject` (645-1041) |
| `WriteFails` | an update of the audit row that the local database refuses |
| `ReadMode`, `SetMode`, `Execute`, `Refused`, `EndTx`, `LineBreaks`, `RollbackFails`, `Restore`, `RestoreFails` | `execute_write` (sage_connector.py:1129-1208) |
| `Elapse`, `Age`, `Sweep`, `Crash` | time, `cleanup_expired_and_zombie`, a stop |

## 3. Runs

`CHECK_DEADLOCK FALSE` everywhere: an execution that has ended, a day that is
over, a token store that is used up, demands that are settled are ends of the
system, not deadlocks.

| Run | Bounds | Shows |
|---|---|---|
| `wait_calm` | 2 executions, 4 tokens, 3 wait steps in a chain, the first tried twice | with failed and skipped steps, switching off, mail failures, a lost owner and deadlines between passes: no answer accepted in vain, no link that nobody waits for, no answered question asked again unless its step was missed before, and the refinement of `WaitPromise` |
| `wait_hazards` | 1 execution, 2 tokens, two wait steps side by side, **every** hazard but `dberror` | types, one walk of the graph at a time, no resume without an accepted answer |
| `wait_ends` | 2 executions, 2 tokens, 1 wait step, fair | with crashes, refused writes, mails, schedulings and misfires: no resume behind a run that could cancel it; every execution ends, or an accepted answer was lost between commit and job |
| `dag_run` | 861 workflows over 4 steps, 1 retry | every acyclic graph over 4 steps under each policy, with limits; trigger edges and disabled steps; one wait step anywhere, or two in several positions; one wait with failures around it, under each policy; three graphs under all risks at once, under each policy; a graph with a cycle, with and without the disabled step that breaks it |
| `sink_day` | 2 sends of 3 sinks in all combinations, 1 retry, 4 instants over 2 days, TTL 2 | each hazard alone and those that interact |
| `life` | up to 3 calls, 2 schedules, 2 requests at once, threshold 2; eight scenes | failures counted to the threshold; crashes over single dates that are replaced; requests during runs; deletion with a run in flight; overlapping requests; errors of the end of a run; kill switch, late dates, job store, assistant |
| `life_ends` | 2 calls, fair | with crashes, deletion, and a database that may refuse every write of the end of a run, no execution stays running |
| `expiry` | 1 question, 2 submissions, 3 schedules, links of 1 to 3 quarters, horizon 6 | each hazard alone and a mixture |
| `write` | 2 demands, 3 clicks, fair | each hazard alone and those that interact |
| `dag_inputs`, `write_shared`, `expiry_step` | the smallest instance that shows it | the findings of section 6 |

Why the bounds are enough. *Waits*: the hazards involve two executions (a run
overtaking a resume), two tokens of one execution (a chain, a level) and the
one job and one lock they share. A question that was missed, asked, answered and
asked again needs a third step to suspend on, and four tokens. The constraint
`FewAsked` of `wait_calm` divides the four: an execution alone asks up to four
times; when there are two, each asks once. `wait_hazards` leaves out `dberror` for
its size: `wait_ends` has it, and the three properties are proved with it.
*DAG*: a level, the one before and the one after need three steps, a fourth
gives a diamond and a step beside the path; any acyclic graph can be numbered so
that edges go up, so the instances cover all of them. One retry distinguishes
the first attempt, a later one and the last. *Sinks*: claims conflict by pairs;
two items tell a partial delivery from a full one; four instants over two days
put a midnight between two attempts and an expiry within the horizon.
*Lifecycle*: a threshold of two needs two failures in a row and a third call that
meets the pause; a schedule conflicts with the one it replaces; requests
conflict by pairs. *Deadlines*: questions meet only in the bulk updates of the
job, which treat each row by itself, and in `Cancel`, so one is enough; a link is
shorter, as long as, or longer than the way to the next run; six quarters let it
live, expire and be purged. *Writes*: threads conflict by pairs and a third click
meets what two others left. Things that have not
happened yet are taken in one order. The
proofs of section 5 lift the properties they cover from these bounds.

Properties, by run:

* `wait_calm`: `WaitingIsAnswerable`, `PendingIsAwaited`, `AnsweredNotAskedAgain`,
  `KeepsPromise`.
* `wait_hazards`: `TypeOK`, `OnePipeline`, `NoResumeWithoutAnswer`.
* `wait_ends`: `NoStaleResume`, `EveryRunEnds`.
* `dag_run`: `TypeOK`, `NeverStalls`, `SettledFirst`, `FailureStops`,
  `SkippedForCause`, `InputsUnlessShared`, `NothingTwice`, `JournalWhole`,
  `HonestVerdict`, `DeliveredStands`.
* `sink_day`: `TypeOK`, `OncePerDay`, `OneAttempt`, `RetryRuns`,
  `SkippedForDelivery`.
* `life`: `OnePass`, `PausedInTime`, `PauseDeserved`, `DeliveredNotFailed`,
  `ActiveIsScheduled`, `CompletedByRun`, `NoRefire`.
* `life_ends`: `RunsEnd`.
* `expiry`: `BeforeNextRun`, `Reminded`, `AnswersSurvive`, `FilesFollowRows`.
* `write`: `Once`, `VerdictTrue`, `EstimatesRollBack`, `Settles`.
* `dag_inputs`: `InputsComplete`; `write_shared`: `EstimatesLeaveNothing`;
  `expiry_step`: `NoWaitWithoutLink`.

The type invariants of `RunLifecycle`, `WaitExpiry` and `WriteSession` are proved,
not run.

Several properties carry the condition under which they hold. The conditions
were found by dropping them, with TLC or by a proof that did not close.

*Suspension.* `NoStaleResume` fails when a run starts during a resume (`overlap`)
and when something happens between the read and the write of a sweep (`gap`).
With `dberror` it says what is left: an execution may be overtaken only by runs
whose own cancellation failed (`blind`), and the first that succeeds cancels it.
It survives every other hazard. The others of `wait_calm` need more:
`WaitingIsAnswerable` fails with `midrun`, `deadline`, `overlap`, `unscheduled`,
`misfire` or `crash`; `PendingIsAwaited` with `gap`, `timeout`, `crash` or
`dberror`; `AnsweredNotAskedAgain` with `midrun`, `crash`, `dberror` or two wait
steps in a level, and it leaves out the steps in `Stale`, which the code does ask
again (section 6). What
an orphan cleanup may do to a long execution (`slow`) breaks the refinement only.

*Graph.* `NothingTwice` fails with two suspensions and failures (the row of a
failed attempt is never replaced, so a later success at the same attempt is not
journalled and the next resume runs the step again) or when rows cannot be
written; `DeliveredStands` fails when the breaker trips in a resumed pass, with
several waits under `abort_all`, and when a timeout or a fan-in interrupts the
pass; `JournalWhole` leaves out a step that failed at its last attempt and
succeeded at its first after a resume, which keeps two rows.
`InputsUnlessShared` holds when every other step is before or after the wait
along *active* steps: a disabled step holds nothing back, so a step that only a
disabled one separates from the wait may share its level. Four steps are too few
to show that; the proof asked for it and a graph of five confirmed it.

*Lifecycle.* `DeliveredNotFailed` has one exception, a run whose verdict could
not be written by the handler of errors either (`lost`). `ActiveIsScheduled`
needs requests that do not overlap, a job store that accepts the job and an
assistant that leaves `is_active` alone; `CompletedByRun` needs requests and
runs that do not overlap, because the end of a run works on the schedule it
loaded at its start. `NoRefire` needs that whatever switches the automation on
renews its job while no run is on (`Steady`): see the boot in section 6.

*Deadlines and writes.* `BeforeNextRun` leaves out a run within the margin of the
question and schedules edited afterwards; `FilesFollowRows` leaves out a stop of the
process. `VerdictTrue` and `EstimatesRollBack` need one writing thread at a time;
the half of `VerdictTrue` about failed demands also that nothing cuts the commit
from its verdict (`Cuts`: a stop, the line, a mail misreported, the half hour of
the sweep, the local database), and `EstimatesRollBack` that rollbacks succeed.

## 4. Fairness

Three runs use fairness; it is what the code's scheduling gives: a coroutine or
thread that is ready runs, a request handler goes on after its commit, APScheduler
fires due jobs and periodic sweeps, clocks advance. No fairness is given to
anything a person does or that may fail: nobody has to answer, confirm, switch
off or start a run, and mails, scheduling, misfires and crashes may happen or not.

* `wait_ends`: weak fairness of the writes of sweeps, of the expiry and orphan
  sweeps, of the steps of runs and resumes, of `Schedule`, `Fire`, and of time
  (`Deadline`, `Age`). `EveryRunEnds` then says that an execution which starts
  becomes terminal, except when `AnswerLost` holds: an answer was accepted and
  its job was lost (failed `add_job`, misfire, stop of the process). That
  exception is real: no sweep looks at a resolved token whose execution waits.
* `life_ends`: weak fairness of the boot, the loader and the second halves of
  requests; strong fairness of the steps of a call and of the orphan cleanup. It
  is strong because crashes disable both again and again: a process that always
  stopped before its sweep would leave an execution running, and the code has
  nothing against that.
* `write`: weak fairness of threads, of what a click does after its reservation,
  of time and of the sweep. Nothing makes a DBA click: demands settle by expiry.

## 5. Proofs

| Theorem | For every value of the constants | Argument |
|---|---|---|
| `WaitResumeProofs!Typed` | `[]TypeOK` | inductive; one lemma per group of handlers |
| `WaitResumeProofs!MutualExclusion` | `[]OnePipeline` | `LockHeld`: a worker between taking and releasing the run lock is its holder; a crash frees the lock and stops every worker at once |
| `WaitResumeProofs!AnswerFirst` | `[]NoResumeWithoutAnswer` | inductive as it stands: a token leaves `pending` for good before it is scheduled |
| `WaitOrderProofs!NoResumeBehindARun` | `InTurn` ⟹ `[]NoStaleResume` | `OrderInv`: executions begin in order, all that work are the latest but for runs that could not cancel (`WorkingLatest`), and what waits is the latest so understood or in the snapshot of the run that will cancel it (`WaitingLatest`, `Swept`) |
| `WaitCalmProofs!WaitingStaysAnswerable` | `Calm` ⟹ `[]WaitingIsAnswerable` | `CalmInv`, 26 conjuncts that tie status, token, journal row, job and program counter: a worker at a time, an open question at a time, and each answer in exactly one place on its way (`unsched`, job, claim, pass) |
| `WaitCalmProofs!AnswersAreAwaited` | `Calm` ⟹ `[]PendingIsAwaited` | the same: `Pending`, and what a sweep has read is still so when it writes (`SweepSees`) |
| `WaitCalmProofs!AnsweredOnce` | `Calm` ⟹ `[]AnsweredNotAskedAgain` | the same: the question that is answered has a success, or its step is `Stale` (`AnsweredRow`), and a pass skips what has a success (`SkipRow`); a question has at most one waiting row, of the attempt that asked (`OneRow`, `RowTry`) |
| `WaitCalmProofs!PromiseKept` | `Calm` ⟹ `KeepsPromise` | the same invariant, one lemma per handler: each step is one step of `WaitPromise` or a stutter |
| `DagRunProofs!Typed` | `[]TypeOK` | inductive |
| `DagRunProofs!Advances` | `[]NeverStalls` | `Sorted`: what is left is active, and a cyclic graph never starts; a set without a minimal step would be a cycle |
| `DagRunProofs!Ordered` | `[]SettledFirst` | `Behind`: every active step is left, in the open level, done before, or recorded in this pass; an open step has no parent left or open |
| `DagRunProofs!Contained` | `[]FailureStops` | `Stopped`, `Cleared`: what a recorded failure stops is in the context before the next level opens |
| `DagRunProofs!Justified` | `[]SkippedForCause` | `Caused`: every doomed step and every skipped record has its cause |
| `DagRunProofs!Honest` | `[]HonestVerdict` | `Earned`: a success, in memory or in the journal, is a step that succeeded; `Covered`: at the verdict each active step has a record or was skipped as already done |
| `DagRunProofs!Accounted` | `[]JournalWhole` | `Single`: one record a step in a pass; `Rows`: the rows are those of the records flushed and of earlier passes; `Covered` |
| `DagRunProofs!RunOnce` | `[]NothingTwice` | `Once`: what has succeeded is recorded in this pass, as success, or is skipped by it; `Single`: a recorded step is not opened again |
| `DagRunProofs!Delivers` | `[]DeliveredStands` | `Chained`: what is left of the graph is always one of a nested family of sets, so that a resumed pass can be compared with the one before (`FirstPass`, `NextPass`); `Shown`: what a sink has delivered is in memory or in the journal |
| `DagRunProofs!InputsKept` | `[]InputsUnlessShared` | `Passed`: an output is there until its last child is settled; `Gentle`: with a wait alone in its level and no failure, the checkpoint holds all that later steps need |
| `SinkDeliveryProofs!Typed` | `[]TypeOK` | inductive |
| `SinkDeliveryProofs!AtMostOnce` | `[]OncePerDay` | `Once`: a send at work holds its key alone, and what is out is held by the send that delivered it or locked by a row or by the end of its day; `Time`: a row outlives the day of its key |
| `SinkDeliveryProofs!DeliversOnce` | `[]OneAttempt` | `Final`: what a send has delivered it delivered in its present attempt, which has not failed |
| `SinkDeliveryProofs!RetriesExecute` | `[]RetryRuns` | `Again`: alone on its sink, a send that retries left no live row of its own under today's key |
| `SinkDeliveryProofs!SkipsStand` | `[]SkippedForDelivery` | `Stands`: a row is backed by a send at work or by a delivery |
| `RunLifecycleProofs!Types` | `[]TypeOK` | inductive |
| `RunLifecycleProofs!PassesExclude` | `[]OnePass` | `Exclusive`: every call in a pass holds the first lock of the registry; another one exists only once the automation is gone, when nothing starts any more |
| `RunLifecycleProofs!DeliveriesKept` | `[]DeliveredNotFailed` | `Truthful`: a verdict is written once, with its status, by the call that is still in its pass and whose execution does not wait, so that neither a cancellation nor a resume touches it (`VerdictLast`, `PassingRuns`) |
| `RunLifecycleProofs!PausesInTime` | `[]PausedInTime` | `Counts`: the counter of the row is the number of failed verdicts since the last success or activation, and what a call has loaded is no fresher |
| `RunLifecycleProofs!PausesDeserved` | `PauseDeserved` | the same invariant, at the step that pauses |
| `RunLifecycleProofs!Scheduling` | `[]ActiveIsScheduled` | `Book`: schedules grow, requests take turns, and what a request captured is what it will arm (`Versioned`, `Turns`, `Armed`) |
| `RunLifecycleProofs!Completes` | `CompletedByRun` | `Calls`: where the schedule of each call comes from, and what a boot or an edit may have left of it; `DateCome`: a scheduled call has its date behind it |
| `RunLifecycleProofs!NotFiredAgain` | `NoRefire` | `Spent`: a date that was run has an execution that ended, which the loader sees (`SpentRan`); while the automation is on, its job is not in the store unless a request is about to replace it (`SpentOff`), and no call for it is on its way (`SpentOut`) |
| `WaitExpiryProofs!Types` | `[]TypeOK` | inductive; the deadline is a number because of all runs to come one is first (well-foundedness of `<`) |
| `WaitExpiryProofs!ClosedBeforeNextRun` | `[]BeforeNextRun` | `DeadlineBounds` at the step that asks; `Spaced`: it goes on holding of the dates |
| `WaitExpiryProofs!RemindersLeave` | `[]Reminded` | `Courtesy`: the pass of the last quarter of a link has marked its row, and a mark is a mail that left or that the job has in hand |
| `WaitExpiryProofs!AnswersKept` | `[]AnswersSurvive` | `Ties`: the file of a row is of a submission that is over; `Kept`: the job removes only what is past its deadline |
| `WaitExpiryProofs!FilesFollow` | `[]FilesFollowRows` | `Owned`: a file without its row is in the hands of the job |
| `WriteSessionProofs!Types` | `[]TypeOK` | inductive |
| `WriteSessionProofs!AtMostOnce` | `[]Once` | `Reserved`: a click that was involved in a demand is the only one, and the demand never awaits again |
| `WriteSessionProofs!DryRunsVanish` | `[]EstimatesRollBack` | `Orderly`: between two threads the connection is in autocommit with nothing open, and a thread finds open its own statement only, or nothing but what a failed rollback has left (`Unrolled`) |
| `WriteSessionProofs!AuditHonest` | `[]VerdictTrue` | `Orderly` and, in a behaviour without the hazards that cut a write from its verdict (`Sheltered`), `Uncut`: a demand executes exactly while a click holds it |

Assumptions are the named `ASSUME`s of each module and say only what constants
are: executions, tokens and steps are different things, levels are numbers,
flows are well-formed records over a finite set of steps, there is a question
and a demand. Three have content. `SinkDelivery!DaysAssumption`: time does not
run backwards and a row lives at least as long as a day; the code gives 24 hours
(`IDEMPOTENCY_TTL_HOURS`) and keys by UTC date; a shorter lifetime breaks
`OncePerDay` (the altered definition `ShortLife` shows it).
`WaitExpiry!RetentionAssumption`: the retention is no shorter than the longest
life of a link; both default to 30 days, but `WAIT_TOKEN_RETENTION_DAYS` may be
set to less, and an answer given late may then be purged before its resume.
`RunLifecycle!FailuresAssumption`: the threshold is at least two (the code:
five).

Two theorems' hypotheses are not assumptions of a module but conditions on
`Env`, since the code can meet what they exclude. `InTurn` is "neither `overlap`
nor `gap`": crashes, misfires, answers and deadlines in the middle of a pass and
all else are allowed, with any levels. `Calm` is what `wait_calm` checks: `Env`
holds at most `toggle`, `mail` and `owner`, and no two wait steps share a level.
Section 3 says what breaks without them.

Every invariant and action property that a passing run checks has its theorem.
Only model-checked: liveness (`EveryRunEnds`, `RunsEnd`, `Settles`), which
involves fairness and `ENABLED`, out of the prover's reach. Out of its reach too
is what recursion computes for every input: `Descendants` and `Poisoned` are
recursive functions whose *use* is proved, while that they compute reachability
is only exercised by the instances of `dag_run`. The proofs of
`InputsUnlessShared` do without: `After` states reachability as membership in
every closed set.

## 6. Findings

Runs expected to be violated; `PROJECT.json` quotes the lines.

| Run | What it shows |
|---|---|
| `dag_inputs` | the checkpoint is taken before the outputs of the other steps of the level are stored; the resume skips those steps and their children run without their workbooks |
| `write_shared` | two calls of `execute_write` share the autocommit and the transaction of one connection: an estimate may be committed by another call, before any DBA has approved it (sage_connector.py:1131-1150, 1190) |
| `expiry_step` | the deletion of a step awaits, with the write lock of SQLite in its hands, a cancellation that needs the lock in another session: the cancellation times out, the cascade deletes the tokens, and an execution waits for ever for a link that is gone (automations.py:4284-4318) |

Met while modelling, by dropping a hypothesis from a property or a hazard from a
weather, without a run of their own:

*Suspension*

* An answer accepted before the asking run has ended leaves the execution waiting
  for good: the end of the run marks it `waiting` again (executor.py:435-440).
* A resume that has claimed its execution and waits for the run lock escapes
  cancel-on-next-run and walks the graph after the newer run (executor.py:2949,
  210-213).
* The orphan cleanup judges a resumed execution by the `started_at` of its first
  run and fails it while it works (scheduler.py:1190).
* A wait step that failed or was skipped in one pass and asks in a later one has no
  waiting row, since the row of its (step, attempt) exists (executor.py:1582-1592).
  Its answer leaves no success (2817-2840), so that a resume for a later question
  asks it again: three wait steps in a chain are enough.
* When cancel-on-next-run fails, the new execution is created all the same
  (executor.py:233-239); the answer to the old one resumes it behind the newer run,
  against the reason given at 211-213.
* A checkpoint that cannot be saved fails the step after its mail has left; the
  link stays open, and a retry mails another one (executor.py:4347-4352).
* Two wait steps in one level: the resume of the first answer asks the other
  question again, and the single checkpoint keeps the reminder of one of them
  (executor.py:4339).

*Graph and sinks*

* A run whose sinks were all skipped by the circuit breaker is a success: the rule
  of executor.py:384 is about sinks, the test of 418 about all steps.
* `FanInTooLargeError` is raised outside the retry loop (dag_executor.py:1072,
  1115) and fails the execution as a whole, where the docstring at 353-357 says
  the step fails cleanly. `DagRun` models what the code does.
* A mail step without SMTP configuration keeps its claim: executions later in the
  day are skipped as already sent (executor.py:3820). With `BrokenSmtp` the retry
  meets its own claim and is recorded as a success "already sent", against the
  comment of dag_executor.py:438-443; `RetryRuns` excludes the hazard.
* The key of the log holds the date of the claim; `idempotency_log.py:10-12`
  speaks of the date of the run. A step executed again by a resume days later
  has a new key.
* The release deletes the row of the key, whoever inserted it: after a claim
  that failed open, one send may free the row of another.

*Lifecycle*

* The end of a run decides "once" on the schedule it loaded at its start: a daily
  schedule given meanwhile is deactivated as completed (executor.py:595).
* The loader deactivates a rescheduled single date that passed while the process
  was down, because an earlier scheduled execution exists (loader.py:204-216).
* Overlapping toggles, and the assistant's toggle, which writes `is_active` only
  (agent_tools_app.py:180-204), leave an active automation without a job or the
  reverse; a stop between the commit of an edit and `add_job` leaves the old job.
* At a boot the scheduler runs before the loader. The job of a single date may fire
  in between; the loader then sees no run that has ended and restores the job
  (loader.py:159-256). If the verdict pauses the automation and it is switched on
  by something that does not renew the job (the assistant's tool, a job store
  that refuses, a stop after the commit), the restored job runs the date again.
* Exceptions and timeouts never count as failures, against the comment at
  executor.py:574-576; a single date ended by an exception is not deactivated
  (582-589), and one that waits, or was cut, may fire again within the grace time
  after a restart.
* When the database refuses both the verdict and the write of the handler of
  errors, the execution stays running until the orphan cleanup.

*Writes*

* A rollback that fails is logged (sage_connector.py:1161-1173); the return to
  autocommit at 1190 then commits what it left open, the rows of an estimate
  included.
* The verdict of a write is recorded outside any handler (iris_write_session.py:
  900-910): when the local database refuses it, the demand stays executing and the
  sweep declares failed what has been written.

*Deadlines and files*

* `compute_wait_expires_at` falls back to thirty days when the next run is less
  than five minutes away (wait_resume.py:88-95), past the runs that
  executor.py:4191-4193 says it precedes: the second disjunct of `BeforeNextRun`.
* The comment at wait_response.py:480-485 says that the retention does not catch an
  orphan file; it does, with the directory of its row. What nothing catches is a
  stop between the deletion of rows and that of their directories, or the cascade
  of a deleted step.
* A reminder is marked before it is mailed, so it is lost when SMTP is missing.
* `WAIT_TOKEN_RETENTION_DAYS` below the life of a link lets the purge take an
  answer whose resume has not run: the execution stays waiting.
* The deletion of an automation also writes before it cancels waits in another
  session (automations.py:2122-2146), the pattern of `expiry_step`; there the
  executions go with it.

## 7. Plan

Done, in this order: `WaitPromise`, `WaitResume`, `DagRun`, `SinkDelivery`,
`RunLifecycle`, `WriteSession`, `WaitExpiry`, with their instances and proofs.
Next:

1. Proofs under weaker conditions: `WaitingIsAnswerable` with `gap`, `timeout` and
   `slow`, `PendingIsAwaited` with answers in the middle of a pass, each with the
   part of `CalmInv` that survives; then `EveryRunEnds` reduced to the lemmas that
   its fairness needs.
2. **PipelineChannel** — event buffer, subscribers, questions with timeout and
   cancellation; abstractly, a log each subscriber sees a suffix of.
3. **RequestGuards** — request keys with TTL, sliding windows and lockouts at
   their limit.
4. **DagValidator** — the structural rules as operators: what it accepts is
   acyclic in the sense of `DagRun`, its depth-first search against the
   definition of a cycle.
5. **Caches** — a value computed before an invalidation and stored after it.

## 8. What is not modelled

* **Data**: workbooks, SQL, files, templates, e-mail bodies. `DagRun` keeps
  where a workbook comes from, `SinkDelivery` which items leave, `WriteSession`
  which statements are kept.
* **The AI pipeline** (agents, tools, prompts, SQL generation, learning), about
  half of the Python code: what it decides depends on language models and
  heuristics on text, so that no specification of it follows from the source. Its
  control is `WriteSession` and steps 2 and 3 of the plan.
* **Data access control, anonymisation, reporting, dashboards, exports**: pure
  functions of data, or records updated by one request at a time. Their caches
  and locks are step 5.
* **ERP access, SMTP, language-model providers**: I/O on external systems,
  present in the models only as the outcomes the code distinguishes.
* **Web application and front-end**: routing, rendering, validation of requests.
* **Deployment, scripts**: offline tools.
* Within the modelled components: more than one process (the scheduler takes a
  leader lock and the run lock is in memory, so the models have one process);
  the other system jobs of the scheduler; the reuse of row identifiers by SQLite;
  logging, notifications and metrics.
