---------------------------- MODULE RunLifecycle ----------------------------
(* The life of ONE automation around its runs: its row and its scheduler job,  *)
(* the triggers, the run lock, the bookkeeping that follows a verdict, the     *)
(* boot of the process and the requests that toggle, reschedule and delete it: *)
(* execute_automation of executor.py, loader.py, scheduler.py and the handlers *)
(* of automations.py.  What a pass over the DAG does is DagRun; what a wait    *)
(* does is WaitResume: here a pass ends with an outcome.                       *)
EXTENDS Naturals, FiniteSets

CONSTANTS
    Runs,         \* calls of execute_automation
    Schedules,    \* number of schedules the automation may be given, one after the other
    Requests,     \* requests on the automation in progress at once
    MaxFailures,  \* MAX_CONSECUTIVE_FAILURES
    Scenes        \* the behaviours considered, see AllScenes

Hazards == {"crash",     \* the process stops and boots again
            "torn",      \* it may stop between the two halves of a request
            "dberror",   \* a commit after the verdict, in the handler of an error, or of a cancellation, fails
            "owner",     \* the owner of the automation is deactivated
            "busy",      \* the scheduler fires a job after its grace time
            "jobstore",  \* schedule_automation returns False
            "switch",    \* the administrator uses the kill switch
            "tabs",      \* two requests on the automation overlap
            "overlap",   \* requests and runs overlap
            "agent",     \* the assistant toggles the automation
            "delete"}

Versions == 1..Schedules
Verdicts == {"success", "partial", "failed", "denied"}
\* What may go wrong, the kind of each schedule, the calls that happen, the schedules that are
\* given, and the verdicts of the runs.
AllScenes == [risk : SUBSET Hazards, kind : [Versions -> {"once", "daily"}], calls : SUBSET Runs,
              given : Versions, ends : SUBSET Verdicts]

ASSUME SchedulesAssumption == Schedules \in Nat \ {0}
ASSUME FailuresAssumption == MaxFailures \in Nat \ {0, 1}
ASSUME ScenesAssumption == Scenes \subseteq AllScenes

VARIABLES
    scene,    \* this behaviour's
    up,       \* the process: down, boot (the scheduler runs, the loader has not), up
    killed,   \* FLAG_AUTOMATIONS_DISABLED
    row,      \* the automation: exists, is_active, paused_reason, failure count, schedule
    job,      \* the schedule of the job automation_<id> in the job store, 0 when none
    when,     \* the next date of a schedule: to come, due, or beyond the grace time
    registry, \* the lock object that the registry gives out
    run,      \* calls: program counter, trigger, schedule fired, lock, what was loaded, row,
              \* verdict of the pass, and whether no write of its end reached the database
    req,      \* requests: what is left to do after the first commit, and what they captured
    spent,    \* history: single dates run to their verdict, or to any end before a boot
    past      \* history: verdicts since the automation was last switched on

vars == <<scene, up, killed, row, job, when, registry, run, req, spent, past>>
env  == <<scene, killed>>

Finished == {"success", "partial", "failed", "cancelled"}
Statuses == {"none", "running", "waiting", "gone"} \cup Finished
Rows     == [here : BOOLEAN, active : BOOLEAN, fails : Nat, ver : Versions,
             reason : {"none", "denied", "failures", "once"}]
Sources  == {"schedule", "webhook", "manual"}
Loaded   == [active : BOOLEAN, fails : Nat, ver : Versions]
RunStates == [pc : {"idle", "called", "queued", "pass", "notify", "done"}, src : Sources \cup {"resume"},
              first : Sources, ver : Versions, lock : Nat, seen : Loaded, st : Statuses,
              verdict : {"none"} \cup Verdicts, lost : BOOLEAN]
ReqStates == [todo : {"none", "arm", "disarm", "erase", "drop"}, ver : Versions]

TypeOK ==
    /\ scene \in AllScenes
    /\ up \in {"down", "boot", "up"} /\ killed \in BOOLEAN
    /\ row \in Rows
    /\ job \in {0} \cup Versions
    /\ when \in [Versions -> {"future", "due", "late"}]
    /\ registry \in Nat
    /\ run \in [Runs -> RunStates]
    /\ req \in [Requests -> ReqStates]
    /\ spent \subseteq Versions
    /\ past \subseteq Runs

FirstVersion == 1
Nothing == [active |-> FALSE, fails |-> 0, ver |-> FirstVersion]

\* An automation is created inactive, without a job.
Init ==
    /\ scene \in Scenes
    /\ up = "up" /\ killed = FALSE
    /\ row = [here |-> TRUE, active |-> FALSE, fails |-> 0, ver |-> FirstVersion, reason |-> "none"]
    /\ job = 0
    /\ when = [v \in Versions |-> "future"]
    /\ registry = 0
    /\ run = [r \in Runs |-> [pc |-> "idle", src |-> "manual", first |-> "manual", ver |-> FirstVersion,
                              lock |-> 0, seen |-> Nothing, st |-> "none", verdict |-> "none",
                              lost |-> FALSE]]
    /\ req = [q \in Requests |-> [todo |-> "none", ver |-> FirstVersion]]
    /\ spent = {}
    /\ past = {}

-------------------------------------------------------------------------------
\* A call that is over holds nothing any more.
Over(r, st) == [run[r] EXCEPT !.pc = "done", !.st = st, !.lock = 0, !.seen = Nothing]
May(h)    == h \in scene.risk
Quiet == \A q \in Requests : req[q].todo = "none"
\* Calls that have not happened are interchangeable: they are taken in one order.
Idle  == {r \in scene.calls : run[r].pc = "idle"}
Comes(r) == Idle # {} /\ r = (CHOOSE s \in Idle : TRUE) /\ (May("overlap") \/ Quiet)
Active(r) == run[r].pc \in {"called", "queued", "pass", "notify"}
Holds(r)  == run[r].pc \in {"pass", "notify"}
Once(v)   == scene.kind[v] = "once"
ScheduledRuns(v) == {r \in Runs : run[r].first = "schedule" /\ run[r].ver = v}
Resting   == \A r \in Runs : ~Active(r)

(* The scheduler.  coalesce = True, max_instances = 1, and a grace time; the date of a    *)
(* DateTrigger leaves the job store as soon as it fires or is missed.                     *)
Rewound(v) == IF Once(v) THEN when ELSE [when EXCEPT ![v] = "future"]
NextDate ==
    /\ job' = IF Once(job) THEN 0 ELSE job
    /\ when' = Rewound(job)

Fire(r) ==
    /\ up # "down" /\ job # 0 /\ when[job] = "due"
    /\ Comes(r)
    /\ \A s \in Runs : Active(s) => run[s].src # "schedule"
    /\ run' = [run EXCEPT ![r].pc = "called", ![r].src = "schedule", ![r].first = "schedule", ![r].ver = job]
    /\ NextDate
    /\ UNCHANGED <<env, up, row, registry, req, spent, past>>

Miss ==
    /\ up # "down" /\ job # 0
    /\ \/ when[job] = "late"
       \/ when[job] = "due" /\ \E s \in Runs : Active(s) /\ run[s].src = "schedule"
    /\ NextDate
    /\ UNCHANGED <<env, up, row, registry, run, req, spent, past>>

Elapse(v) ==
    /\ v \in {job, row.ver} /\ (Once(v) \/ job = v)
    /\ \/ when[v] = "future" /\ when' = [when EXCEPT ![v] = "due"]
       \/ /\ when[v] = "due" /\ (up = "down" \/ job # v \/ May("busy"))
          /\ when' = [when EXCEPT ![v] = "late"]
    /\ UNCHANGED <<env, up, row, job, registry, run, req, spent, past>>

(* Calls.  _run_automation_with_kill_switch_check, then execute_automation of the module, *)
(* which takes the lock of the automation, then the one of the executor.                  *)
Trigger(r, source) ==
    /\ up = "up" /\ row.here
    /\ Comes(r)
    /\ run' = [run EXCEPT ![r].pc = "called", ![r].src = source, ![r].first = source]
    /\ UNCHANGED <<env, up, row, job, when, registry, req, spent, past>>

Enter(r) ==
    /\ run[r].pc = "called"
    /\ IF run[r].src = "schedule" /\ (killed \/ ~row.here)
       THEN run' = [run EXCEPT ![r] = Over(r, "none")]
       ELSE run' = [run EXCEPT ![r].pc = "queued", ![r].lock = registry]
    /\ UNCHANGED <<env, up, row, job, when, registry, req, spent, past>>

NoLock(r)   == run[r].pc = "queued"                                             \* mutant
HasLock(r)  == run[r].pc = "queued" /\ \A s \in Runs : Holds(s) => run[s].lock # run[r].lock
Refused(r)  == killed \/ ~row.here \/ (~row.active /\ run[r].src # "manual")
\* cancel_pending_waits_for_automation: the executions that wait are cancelled.
Cancelled(s) == IF run[s].st = "waiting" THEN [run[s] EXCEPT !.st = "cancelled"] ELSE run[s]
\* Its callers go on when it fails.
CancelAttempts == {[s \in Runs |-> Cancelled(s)]} \cup (IF May("dberror") THEN {run} ELSE {})

Refuse(r) ==
    /\ HasLock(r) /\ run[r].src # "resume" /\ Refused(r)
    /\ run' = [run EXCEPT ![r] = Over(r, "none")]
    /\ UNCHANGED <<env, up, row, job, when, registry, req, spent, past>>

Start(r) ==
    /\ HasLock(r) /\ run[r].src # "resume" /\ ~Refused(r)
    /\ \E others \in CancelAttempts :
          run' = [others EXCEPT ![r].pc = "pass", ![r].st = "running",
                                ![r].seen = [active |-> row.active, fails |-> row.fails, ver |-> row.ver]]
    /\ UNCHANGED <<env, up, row, job, when, registry, req, spent, past>>

\* Fail-closed: the execution of a trigger fails when the owner cannot be loaded.
OwnerMissing(r) ==
    /\ May("owner")
    /\ HasLock(r) /\ run[r].src \in {"schedule", "webhook"} /\ ~Refused(r)
    /\ \E others \in CancelAttempts : run' = [others EXCEPT ![r] = Over(r, "failed")]
    /\ UNCHANGED <<env, up, row, job, when, registry, req, spent, past>>

(* The end of a pass: the bookkeeping works on the automation loaded at its start.        *)
StatusOf(o) == IF o = "denied" THEN "failed" ELSE o
Passing(r)  == run[r].pc = "pass" /\ run[r].src # "resume"
Recorded(r, st) == IF run[r].st = "gone" THEN "gone" ELSE st

NeverReset(r, o) == IF o = "failed" THEN row.fails + 1 ELSE row.fails           \* mutant
Count(r, o) ==
    CASE o = "failed" -> row.fails + 1
      [] o = "success" /\ run[r].seen.fails > 0 -> 0
      [] OTHER -> row.fails
LateReason(r, o) ==                                                             \* mutant
    IF o = "failed" /\ Count(r, o) > MaxFailures THEN "failures" ELSE "none"
AnyReason(r, o) == IF Once(run[r].seen.ver) THEN "once" ELSE "none"             \* mutant
ReasonOf(r, o) ==
    CASE ~run[r].seen.active -> "none"
      [] o = "denied" -> "denied"
      [] o = "failed" /\ Count(r, o) >= MaxFailures -> "failures"
      [] run[r].src = "schedule" /\ Once(run[r].seen.ver) -> "once"
      [] OTHER -> "none"
PausedFor(why) == IF why = "none" THEN row ELSE [row EXCEPT !.active = FALSE, !.reason = why]

Verdict(r, o) ==
    /\ Passing(r) /\ row.here
    /\ run' = [run EXCEPT ![r].pc = "notify", ![r].st = StatusOf(o), ![r].verdict = o]
    /\ row' = [PausedFor(ReasonOf(r, o)) EXCEPT !.fails = Count(r, o)]
    /\ past' = CASE o = "failed" -> past \cup {r} [] o = "success" -> {} [] OTHER -> past
    /\ spent' = IF run[r].src = "schedule" THEN spent \cup {run[r].ver} ELSE spent
    /\ UNCHANGED <<env, up, job, when, registry, req>>

\* A wait step has suspended the run: no bookkeeping.
Suspend(r) ==
    /\ Passing(r) /\ row.here
    /\ run' = [run EXCEPT ![r] = Over(r, "waiting")]
    /\ UNCHANGED <<env, up, row, job, when, registry, req, spent, past>>

AllFailed(r, o) == "failed"                                                     \* mutant
\* The handler of errors: what was delivered stays so, the rest fails.
Rescued(r, o) == IF o \in {"success", "partial"} THEN o ELSE "failed"

\* Its commit fails: nothing of the bookkeeping remains.
CommitFails(r, o) ==
    /\ May("dberror") \/ ~row.here
    /\ Passing(r)
    /\ run' = [run EXCEPT ![r] = [Over(r, Recorded(r, Rescued(r, o))) EXCEPT !.verdict = o]]
    /\ UNCHANGED <<env, up, row, job, when, registry, req, spent, past>>

\* A notification that fails goes through the same handler.
Notify(r) ==
    /\ run[r].pc = "notify"
    /\ \E st \in {run[r].st, Recorded(r, Rescued(r, run[r].verdict))} :
          run' = [run EXCEPT ![r] = Over(r, st)]
    /\ UNCHANGED <<env, up, row, job, when, registry, req, spent, past>>

\* The pass raises: a timeout, an error, data access denied.
Raise(r) ==
    /\ Passing(r)
    /\ \E why \in {"none", "denied"} :
          row' = IF row.here /\ row.active THEN PausedFor(why) ELSE row
    /\ run' = [run EXCEPT ![r] = Over(r, Recorded(r, "failed"))]
    /\ UNCHANGED <<env, up, job, when, registry, req, spent, past>>

\* The database refuses every write of the end of a run, the one of the rescue included: its
\* execution stays running, with or without a verdict.
LoseEnd(r) ==
    /\ May("dberror")
    /\ Passing(r)
    /\ \E o \in scene.ends \cup {"none"} :
          run' = [run EXCEPT ![r] = [Over(r, run[r].st) EXCEPT !.verdict = o, !.lost = TRUE]]
    /\ UNCHANGED <<env, up, row, job, when, registry, req, spent, past>>

(* An answer resumes an execution under the lock; it keeps no count.                      *)
Answer(r) ==
    /\ up = "up" /\ run[r].pc = "done" /\ run[r].st = "waiting"
    /\ run' = [run EXCEPT ![r].pc = "queued", ![r].st = "running", ![r].src = "resume", ![r].lock = registry]
    /\ UNCHANGED <<env, up, row, job, when, registry, req, spent, past>>

ResumePass(r) ==
    /\ HasLock(r) /\ run[r].src = "resume"
    /\ run' = [run EXCEPT ![r].pc = "pass"]
    /\ UNCHANGED <<env, up, row, job, when, registry, req, spent, past>>

EndResume(r) ==
    /\ run[r].pc = "pass" /\ run[r].src = "resume"
    /\ \E st \in {"success", "partial", "failed", "waiting"} :
          run' = [run EXCEPT ![r] = Over(r, Recorded(r, st))]
    /\ UNCHANGED <<env, up, row, job, when, registry, req, spent, past>>

(* The process.                                                                           *)
ScheduledOrphan(r) == run[r].st = "running" /\ run[r].pc = "done" /\ run[r].first = "schedule"  \* mutant
Orphan(r) == run[r].st = "running" /\ run[r].pc = "done"
\* cleanup_orphaned_executions_job, hourly and at boot, once the cutoff has passed.
CleanOrphan(r) ==
    /\ up # "down" /\ Orphan(r)
    /\ run' = [run EXCEPT ![r].st = "failed"]
    /\ UNCHANGED <<env, up, row, job, when, registry, req, spent, past>>

Crash ==
    /\ May("crash") /\ up # "down" /\ (May("torn") \/ Quiet)
    /\ up' = "down"
    /\ run' = [r \in Runs |-> IF Active(r) THEN Over(r, run[r].st) ELSE run[r]]
    /\ req' = [q \in Requests |-> [todo |-> "none", ver |-> FirstVersion]]
    /\ UNCHANGED <<env, row, job, when, registry, spent, past>>

Boot ==
    /\ up = "down" /\ up' = "boot"
    /\ spent' = spent \cup {v \in Versions \ {job} : \E r \in ScheduledRuns(v) : run[r].st \in Finished}
    /\ UNCHANGED <<env, row, job, when, registry, run, req, past>>

NeverFired == FALSE                                                             \* mutant
\* A scheduled execution of the automation has ended, and the date of its schedule has passed.
FiredOnce ==
    /\ Once(row.ver) /\ when[row.ver] # "future"
    /\ \E r \in Runs : run[r].first = "schedule" /\ run[r].st \in Finished

NoRestore == FALSE                                                              \* mutant
Restores  == row.here /\ row.active /\ ~FiredOnce /\ job = 0
\* load_active_automations
Load ==
    /\ up = "boot" /\ up' = "up"
    /\ row' = IF row.here /\ row.active /\ FiredOnce THEN PausedFor("once") ELSE row
    /\ IF Restores THEN job' = row.ver /\ when' = Rewound(row.ver) ELSE UNCHANGED <<job, when>>
    /\ UNCHANGED <<env, registry, run, req, spent, past>>

(* The requests: each commits, then works on the job store with what it captured.         *)
\* Requests that have nothing to do are interchangeable: they are taken in one order.
Spare == {q \in Requests : req[q].todo = "none"}
Alone(q) ==
    /\ up = "up" /\ row.here
    /\ Spare # {} /\ q = CHOOSE p \in Spare : TRUE
    /\ May("tabs") \/ Quiet
    /\ May("overlap") \/ Resting
Left(q, todo) == req' = [req EXCEPT ![q].todo = todo, ![q].ver = row.ver]
Done(q)       == req' = [req EXCEPT ![q].todo = "none", ![q].ver = FirstVersion]

ToggleOn(q) ==
    /\ Alone(q) /\ ~row.active
    /\ row' = [row EXCEPT !.active = TRUE, !.fails = 0, !.reason = "none"]
    /\ past' = {}
    /\ Left(q, "arm")
    /\ UNCHANGED <<env, up, job, when, registry, run, spent>>

ToggleOff(q) ==
    /\ Alone(q) /\ row.active
    /\ row' = [row EXCEPT !.active = FALSE]
    /\ Left(q, "disarm")
    /\ UNCHANGED <<env, up, job, when, registry, run, spent, past>>

\* PUT of a schedule: its date is in the future; it is put in the job store if active.
Reschedule(q) ==
    /\ Alone(q) /\ row.ver < scene.given
    /\ row' = [row EXCEPT !.ver = @ + 1]
    /\ IF row.active THEN req' = [req EXCEPT ![q].todo = "arm", ![q].ver = row.ver + 1]
       ELSE UNCHANGED req
    /\ UNCHANGED <<env, up, job, when, registry, run, spent, past>>

\* schedule_automation
Arm(q) ==
    /\ req[q].todo = "arm"
    /\ \/ job' = req[q].ver /\ when' = Rewound(req[q].ver)
       \/ May("jobstore") /\ UNCHANGED <<job, when>>
    /\ spent' = spent \ {req[q].ver}
    /\ Done(q)
    /\ UNCHANGED <<env, up, row, registry, run, past>>

NoJob == 0
\* The waits are cancelled, with their mails, before unschedule_automation.
Disarm(q) ==
    /\ req[q].todo = "disarm"
    /\ run' \in CancelAttempts
    /\ job' = NoJob
    /\ Done(q)
    /\ UNCHANGED <<env, up, row, when, registry, spent, past>>

Delete(q) ==
    /\ May("delete")
    /\ Alone(q)
    /\ job' = NoJob
    /\ Left(q, "erase")
    /\ UNCHANGED <<env, up, row, when, registry, run, spent, past>>

\* The executions go with the automation.
Erase(q) ==
    /\ req[q].todo = "erase"
    /\ row' = [row EXCEPT !.here = FALSE]
    /\ run' = [r \in Runs |-> IF run[r].st = "none" THEN run[r] ELSE [run[r] EXCEPT !.st = "gone"]]
    /\ IF row.here THEN Left(q, "drop") ELSE Done(q)
    /\ UNCHANGED <<env, up, job, when, registry, spent, past>>

\* _drop_automation_run_lock: the next call makes another lock.
Drop(q) ==
    /\ req[q].todo = "drop"
    /\ registry' = registry + 1
    /\ Done(q)
    /\ UNCHANGED <<env, up, row, job, when, run, spent, past>>

\* The tool of the assistant writes is_active, and nothing else.
AgentToggle ==
    /\ May("agent")
    /\ up = "up" /\ row.here
    /\ row' = [row EXCEPT !.active = ~@]
    /\ UNCHANGED <<env, up, job, when, registry, run, req, spent, past>>

KillSwitch ==
    /\ May("switch")
    /\ killed' = ~killed
    /\ UNCHANGED <<scene, up, row, job, when, registry, run, req, spent, past>>

RunStep(r) ==
    \/ Enter(r) \/ Refuse(r) \/ Start(r) \/ OwnerMissing(r)
    \/ Suspend(r) \/ Notify(r) \/ Raise(r) \/ LoseEnd(r)
    \/ \E o \in scene.ends : Verdict(r, o) \/ CommitFails(r, o)
    \/ ResumePass(r) \/ EndResume(r)
RunNext(r) ==
    \/ Fire(r) \/ RunStep(r) \/ Answer(r) \/ CleanOrphan(r)
    \/ \E source \in {"webhook", "manual"} : Trigger(r, source)
Finish(q) == Arm(q) \/ Disarm(q) \/ Erase(q) \/ Drop(q)
Request(q) == ToggleOn(q) \/ ToggleOff(q) \/ Reschedule(q) \/ Delete(q) \/ Finish(q)

Next ==
    \/ Miss \/ Crash \/ Boot \/ Load \/ AgentToggle \/ KillSwitch
    \/ \E v \in Versions : Elapse(v)
    \/ \E r \in Runs : RunNext(r)
    \/ \E q \in Requests : Request(q)

Spec == Init /\ [][Next]_vars

\* The process is started again and does not always stop before its sweep; every pass ends,
\* and a thread that waits for the lock of the automation gets it in the end.
Fairness ==
    /\ WF_vars(Boot) /\ WF_vars(Load)
    /\ \A r \in Runs : SF_vars(RunStep(r)) /\ SF_vars(CleanOrphan(r))
    /\ \A q \in Requests : WF_vars(Finish(q))
FairSpec == Spec /\ Fairness

-------------------------------------------------------------------------------
(* Properties.  Orderly: each request finishes what it began before another one starts, and *)
(* the process does not stop in the middle of a change of schedule.                         *)
Orderly == /\ scene.risk \cap {"tabs", "agent", "jobstore"} = {}
           /\ May("torn") => scene.given = 1

\* At most one pass over the DAG of the automation at a time, run or resume, even when it
\* is deleted in the middle and its lock leaves the registry (executor.py).
OnePass == \A r, s \in Runs : run[r].pc = "pass" /\ run[s].pc = "pass" => r = s

\* An automation is paused for too many failures only after as many failed verdicts with
\* no success and no reactivation in between (executor.py, MAX_CONSECUTIVE_FAILURES).
Deserved ==
    row.reason # "failures" /\ row'.reason = "failures" => Cardinality(past') >= MaxFailures
PauseDeserved == [][Deserved]_vars

\* ... and it is paused by then: an active automation has fewer of them behind it.
PausedInTime == row.active /\ ~May("agent") => Cardinality(past) < MaxFailures

\* What was delivered is never recorded as failed, when the commit of the verdict fails
\* after the delivery, a notification fails, a resume, a cleanup or a boot comes after it
\* (executor.py, the sentinel of the verdict), unless the rescue's own write failed too.
DeliveredNotFailed ==
    \A r \in Runs : run[r].verdict \in {"success", "partial"}
                        => run[r].st \in {run[r].verdict, "gone"} \/ run[r].lost

\* Once requests have settled, an active automation whose next date is to come has the job
\* of its schedule, whatever runs, boots and cleanups do.
ActiveIsScheduled ==
    Orderly =>
        (up = "up" /\ Quiet /\ row.here /\ row.active
            => job = row.ver \/ (Once(row.ver) /\ when[row.ver] # "future"))

\* While requests do not overlap runs nor each other, an automation is declared completed
\* only when its schedule is a single date, that date has come, and a scheduled run has
\* started: a test by hand does not use its date up.
CompletedByRun ==
    [][row.reason # "once" /\ row'.reason = "once" /\ Orderly /\ ~May("overlap")
        => Once(row.ver) /\ when[row.ver] # "future" /\ \E v \in Versions : ScheduledRuns(v) # {}]_vars

\* A single date that has been run to its verdict, or to any end before a boot, is run again
\* only if a request puts it back: not by a job left in the store, nor by the loader.  Steady:
\* what switches the automation on always gives it its job anew, while no run is on.
Steady   == scene.risk \cap {"overlap", "agent", "jobstore", "torn"} = {}
NoRefire ==
    [][\A r \in Runs : run[r].pc = "queued" /\ run[r].src = "schedule" /\ run'[r].pc = "pass"
            /\ Once(run[r].ver) /\ Steady => run[r].ver \notin spent]_vars

\* No execution stays running for ever, whatever fails and whenever the process stops.
RunsEnd == \A r \in Runs : run[r].st = "running" ~> run[r].st # "running"
===============================================================================
