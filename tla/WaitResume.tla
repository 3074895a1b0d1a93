------------------------------ MODULE WaitResume ------------------------------
(* Runs, suspensions and resumptions of ONE automation whose DAG holds         *)
(* email_wait_response steps: executor.execute_automation, the adapter of the  *)
(* wait step, WaitResponseHandler.post, executor.resume_automation_job and the *)
(* jobs that sweep tokens and executions.                                      *)
(*                                                                             *)
(* A worker is either the run that created an execution (named by it) or the   *)
(* resume job of an answered token (named by it).  Steps that cannot suspend   *)
(* are abstracted: they matter only through the verdict and through wait steps *)
(* they fail or skip.  "done" stands for success and partial alike.            *)
EXTENDS Naturals, FiniteSets

CONSTANTS
    Execs,      \* executions of the automation, numbered in creation order
    Tokens,     \* rows of the wait-token table, numbered in creation order
    WaitSteps,  \* the email_wait_response steps of the DAG
    Level,      \* their topological level: steps of a level run in parallel
    Tries,      \* how often each of them is tried in a pass: max_retries + 1
    Env,        \* what the environment may do, see Hazards
    None

\* One name per thing that can go wrong or overlap; a run enables the ones it studies.
Hazards == {"midrun",   \* answers and toggles land during a pass over the DAG
            "deadline", \* so do deadlines
            "overlap",  \* a trigger fires while a resume is in flight
            "gap",      \* other steps fall between the read and the write of a sweep
            "toggle", "mail", "timeout", "owner",
            "slow",     \* an execution may be older than the orphan cutoff and alive
            "dberror",  \* writes whose failure is only logged fail: cancel-on-next-run,
                        \* the journal, the checkpoint
            "unscheduled", "misfire", "crash"}
\* The DAG executor clamps max_retries to 0..5.
Attempts == 1..6

ASSUME ExecsAssumption == Execs \subseteq Nat
ASSUME TokensAssumption == Tokens \subseteq Nat
ASSUME StepsAssumption == Level \in [WaitSteps -> Nat]
ASSUME TriesAssumption == Tries \in [WaitSteps -> Attempts]
ASSUME EnvAssumption   == Env \subseteq Hazards
ASSUME KindAssumption  == Execs \cap Tokens = {}
ASSUME NoneAssumption  == None \notin Execs \cup Tokens \cup WaitSteps

VARIABLES
    exec,     \* Execution rows: status and wait_checkpoint (the step it was taken at)
    token,    \* WaitToken rows: status, execution, step; mailed once the link has left
    row,      \* StepExecution rows of the wait steps, one per step and attempt
    overdue,  \* tokens whose expires_at has passed
    old,      \* executions whose started_at is before the orphan cutoff
    unsched,  \* answered tokens whose request handler has not reached add_job
    job,      \* the scheduler's job resume_exec_<id> of each execution: its token
    worker,   \* runs and resumes: program counter, where each wait step is and in which
              \* attempt; blind: the run could not cancel what waited
    lock,     \* holder of the automation's run lock
    sweep     \* what each sweeper has read and not yet written

vars == <<exec, token, row, overdue, old, unsched, job, worker, lock, sweep>>

Workers  == Execs \cup Tokens
Sweepers == {"run", "toggle", "expire", "orphan"}
Terminal == {"done", "failed", "cancelled"}
Statuses == {"none", "running", "waiting"} \cup Terminal
TokenStatuses == {"free", "pending", "resolved", "expired", "cancelled", "gone"}
\* A wait step in a pass: not reached, token committed, mail sent, then its record; known:
\* a success of an earlier pass.
Recorded == {"waiting", "failed", "skipped"}
Places   == {"todo", "asked", "mailed", "known"} \cup Recorded
Counters == {"idle", "snap", "dag", "claim", "load", "lock", "persist", "final", "done"}

ExecRows     == [Execs -> [st : Statuses, ckpt : WaitSteps \cup {None}]]
TokenRows    == [Tokens -> [st : TokenStatuses, ex : Execs \cup {None},
                            step : WaitSteps \cup {None}, mailed : BOOLEAN]]
StepRows     == [WaitSteps -> [Attempts -> {"none", "success"} \cup Recorded]]
JournalRows  == [Execs -> StepRows]
WorkerStates == [Workers -> [pc : Counters, at : [WaitSteps -> Places],
                             try : [WaitSteps -> Attempts], blind : BOOLEAN]]
SweepStates  == [Sweepers -> [on : BOOLEAN, ex : SUBSET Execs, tk : SUBSET Tokens]]

TypeOK ==
    /\ exec \in ExecRows /\ token \in TokenRows /\ row \in JournalRows
    /\ overdue \subseteq Tokens /\ old \subseteq Execs /\ unsched \subseteq Tokens
    /\ job \in [Execs -> Tokens \cup {None}]
    /\ worker \in WorkerStates
    /\ lock \in Workers \cup {None}
    /\ sweep \in SweepStates

NoSweep == [on |-> FALSE, ex |-> {}, tk |-> {}]
Fresh   == [s \in WaitSteps |-> "todo"]
Idle    == [pc |-> "idle", at |-> Fresh, try |-> [s \in WaitSteps |-> 1], blind |-> FALSE]

Init ==
    /\ exec = [e \in Execs |-> [st |-> "none", ckpt |-> None]]
    /\ token = [t \in Tokens |-> [st |-> "free", ex |-> None, step |-> None, mailed |-> FALSE]]
    /\ row = [e \in Execs |-> [s \in WaitSteps |-> [a \in Attempts |-> "none"]]]
    /\ overdue = {} /\ old = {} /\ unsched = {}
    /\ job = [e \in Execs |-> None]
    /\ worker = [w \in Workers |-> Idle]
    /\ lock = None
    /\ sweep = [k \in Sweepers |-> NoSweep]

-------------------------------------------------------------------------------
ExecOfSelf(w) == w                                                    \* mutant
ExecOf(w) == IF w \in Execs THEN w ELSE token[w].ex
At(w, s)  == worker[w].at[s]
Try(w, s) == worker[w].try[s]
Goto(w, pc)   == worker' = [worker EXCEPT ![w].pc = pc]
Place(w, s, p) == worker' = [worker EXCEPT ![w].at[s] = p]
SetStatus(e, st) == exec' = [exec EXCEPT ![e].st = st]

InFlight(w) == \E s \in WaitSteps : At(w, s) \in {"asked", "mailed"}
Stopped(w)  == \E s \in WaitSteps : At(w, s) = "waiting"

\* The run lock of the automation, shared by runs and resumes.
AnyLock  == TRUE                                                       \* mutant
LockFree == lock = None

\* A pass over the DAG of e is under way, or its outcome is not recorded yet.
InPass(e) == \E w \in Workers : worker[w].pc \in {"dag", "persist", "final"} /\ ExecOf(w) = e
Resuming(t) == worker[t].pc \in {"claim", "load", "lock", "dag", "persist", "final"}

\* Levels run in order, the steps of a level together; a suspended level is the last.
Reached(w, s) ==
    /\ At(w, s) = "todo"
    /\ \A r \in WaitSteps : Level[r] < Level[s] => At(w, r) \in {"failed", "skipped", "known"}
LevelOver(w) == ~InFlight(w) /\ ~\E s \in WaitSteps : Reached(w, s)

\* Environment assumption of the runs without hazard h.
Outside(e, h) == h \in Env \/ ~InPass(e)

-------------------------------------------------------------------------------
\* execute_automation: take the lock, then read what cancel-on-next-run must cancel.
WaitingExecs == {e \in Execs : exec[e].st = "waiting"}
NoTokens(S)  == {}                                                     \* mutant
PendingOf(S) == {t \in Tokens : token[t].st = "pending" /\ token[t].ex \in S}
AskingOnly   == {e \in WaitingExecs : PendingOf({e}) # {}}             \* mutant
ToCancel     == WaitingExecs
CancelRead(k) ==
    sweep' = [sweep EXCEPT ![k] = [on |-> TRUE, ex |-> ToCancel, tk |-> PendingOf(ToCancel)]]

RunStart(e) ==
    /\ worker[e].pc = "idle"
    /\ \A d \in Execs : d < e => worker[d].pc # "idle"
    /\ "overlap" \in Env \/ \A t \in Tokens : ~Resuming(t)
    /\ LockFree
    /\ lock' = e
    /\ Goto(e, "snap")
    /\ CancelRead("run")
    /\ UNCHANGED <<exec, token, row, overdue, old, unsched, job>>

\* Rows are updated by primary key, whatever their status has become.
Sweep(k, tokenStatus, execStatus) ==
    /\ token' = [t \in Tokens |-> IF t \in sweep[k].tk /\ token[t].st # "gone"
                                  THEN [token[t] EXCEPT !.st = tokenStatus] ELSE token[t]]
    /\ exec' = [e \in Execs |-> IF e \in sweep[k].ex
                                THEN [st |-> execStatus, ckpt |-> None] ELSE exec[e]]
    /\ sweep' = [sweep EXCEPT ![k] = NoSweep]

\* The cancellation is committed, then the new execution is created running ...
RunCancel(e) ==
    /\ worker[e].pc = "snap" /\ sweep["run"].on
    /\ Sweep("run", "cancelled", "cancelled")
    /\ UNCHANGED <<row, overdue, old, unsched, job, worker, lock>>

\* ... which it also is when the cancellation failed: what waited goes on waiting.
RunCancelFails(e) ==
    /\ "dberror" \in Env
    /\ worker[e].pc = "snap" /\ sweep["run"].on
    /\ sweep' = [sweep EXCEPT !["run"] = NoSweep]
    /\ worker' = [worker EXCEPT ![e].blind = TRUE]
    /\ UNCHANGED <<exec, token, row, overdue, old, unsched, job, lock>>

RunCreate(e) ==
    /\ worker[e].pc = "snap" /\ ~sweep["run"].on
    /\ exec' = [exec EXCEPT ![e] = [st |-> "running", ckpt |-> None]]
    /\ Goto(e, "dag")
    /\ UNCHANGED <<token, row, overdue, old, unsched, job, lock, sweep>>

-------------------------------------------------------------------------------
\* The adapter of a wait step: commit a pending token, send the mail, then save the
\* checkpoint and suspend the execution, whatever its status is by then.
AskToken(w, s, t) ==
    /\ worker[w].pc = "dag" /\ Reached(w, s)
    /\ token[t].st = "free" /\ \A u \in Tokens : u < t => token[u].st # "free"
    /\ token' = [token EXCEPT ![t] = [st |-> "pending", ex |-> ExecOf(w), step |-> s, mailed |-> FALSE]]
    /\ Place(w, s, "asked")
    /\ UNCHANGED <<exec, row, overdue, old, unsched, job, lock, sweep>>

AskedToken(w, s, t) ==
    /\ worker[w].pc = "dag" /\ At(w, s) = "asked"
    /\ token[t].ex = ExecOf(w) /\ token[t].step = s
    /\ token[t].st \notin {"free", "gone"} /\ ~token[t].mailed

MailOut(w, s, t) ==
    /\ AskedToken(w, s, t)
    /\ token' = [token EXCEPT ![t].mailed = TRUE]
    /\ Place(w, s, "mailed")
    /\ UNCHANGED <<exec, row, overdue, old, unsched, job, lock, sweep>>

\* A step that raised is tried again from the start, with another token, then fails.
Fails(w, s) ==
    IF Try(w, s) < Tries[s]
    THEN worker' = [worker EXCEPT ![w].at[s] = "todo", ![w].try[s] = @ + 1]
    ELSE Place(w, s, "failed")

\* The token of a mail that did not leave is deleted.
MailFails(w, s, t) ==
    /\ "mail" \in Env
    /\ AskedToken(w, s, t)
    /\ token' = [token EXCEPT ![t].st = "gone"]
    /\ Fails(w, s)
    /\ UNCHANGED <<exec, row, overdue, old, unsched, job, lock, sweep>>

\* The step raises before it asks: its configuration, its input, the database.
StepFails(w, s) ==
    /\ worker[w].pc = "dag" /\ Reached(w, s)
    /\ Fails(w, s)
    /\ UNCHANGED <<exec, token, row, overdue, old, unsched, job, lock, sweep>>

\* A step upstream failed, or the circuit breaker tripped: the wait step is not tried.
SkipStep(w, s) ==
    /\ worker[w].pc = "dag" /\ Reached(w, s) /\ Try(w, s) = 1
    /\ Place(w, s, "skipped")
    /\ UNCHANGED <<exec, token, row, overdue, old, unsched, job, lock, sweep>>

Checkpoint(e, s)      == s
Suspend(w, s) ==
    /\ worker[w].pc = "dag" /\ At(w, s) = "mailed"
    /\ exec' = [exec EXCEPT ![ExecOf(w)] = [st |-> "waiting", ckpt |-> Checkpoint(ExecOf(w), s)]]
    /\ Place(w, s, "waiting")
    /\ UNCHANGED <<token, row, overdue, old, unsched, job, lock, sweep>>

\* The checkpoint cannot be saved: the step is tried again although its mail has left.
SuspendFails(w, s) ==
    /\ "dberror" \in Env
    /\ worker[w].pc = "dag" /\ At(w, s) = "mailed"
    /\ Fails(w, s)
    /\ UNCHANGED <<exec, token, row, overdue, old, unsched, job, lock, sweep>>

\* _persist_dag_step_results: a row for each record of the pass, unless the execution has
\* one of that step and attempt already, whatever that row says.
Missing(w, s) == At(w, s) \in Recorded /\ row[ExecOf(w)][s][Try(w, s)] = "none"
Journal(w) ==
    row' = [row EXCEPT ![ExecOf(w)] =
              [s \in WaitSteps |-> [a \in Attempts |->
                 IF Missing(w, s) /\ a = Try(w, s) THEN At(w, s) ELSE @[s][a]]]]

\* A run flushes its records after a level that ran steps, and before it ends.
LevelClosed(w) ==
    /\ ~InFlight(w)
    /\ \A r, s \in WaitSteps : Level[r] = Level[s] /\ At(w, r) \in Recorded => At(w, s) # "todo"
RunFlush(e) ==
    /\ worker[e].pc = "dag" /\ LevelClosed(e)
    /\ \E s \in WaitSteps : Missing(e, s)
    /\ Journal(e)
    /\ UNCHANGED <<exec, token, overdue, old, unsched, job, worker, lock, sweep>>

\* End of execute_automation: a suspended run is put back to waiting if it is not.
RunEnd(e) ==
    /\ worker[e].pc = "dag" /\ LevelOver(e)
    /\ "dberror" \in Env \/ \A s \in WaitSteps : ~Missing(e, s)
    /\ \E v \in IF Stopped(e) THEN {"waiting"} ELSE {"done", "failed"} : SetStatus(e, v)
    /\ Goto(e, "done")
    /\ lock' = None
    /\ UNCHANGED <<token, row, overdue, old, unsched, job, sweep>>

\* The global timeout (or any exception) of a run ends it failed.
RunAbort(e) ==
    /\ "timeout" \in Env
    /\ worker[e].pc = "dag"
    /\ SetStatus(e, "failed")
    /\ Goto(e, "done")
    /\ lock' = None
    /\ UNCHANGED <<token, row, overdue, old, unsched, job, sweep>>

-------------------------------------------------------------------------------
\* WaitResponseHandler.post: compare-and-set on a pending token that is not overdue,
\* then, out of the transaction, a job that replaces any job of the execution.
Answerable(t)  == token[t].st = "pending" /\ t \notin overdue
Unanswered(t) == unsched' = unsched \cup {t} /\ UNCHANGED token         \* mutant
Resolve(t)    == unsched' = unsched \cup {t} /\ token' = [token EXCEPT ![t].st = "resolved"]
Answer(t) ==
    /\ token[t].mailed /\ Answerable(t)
    /\ Outside(token[t].ex, "midrun")
    /\ Resolve(t)
    /\ UNCHANGED <<exec, row, overdue, old, job, worker, lock, sweep>>

Schedule(t) ==
    /\ t \in unsched
    /\ unsched' = unsched \ {t}
    /\ job' = [job EXCEPT ![token[t].ex] = t]
    /\ UNCHANGED <<exec, token, row, overdue, old, worker, lock, sweep>>

\* add_job failed: only logged.
ScheduleFails(t) ==
    /\ "unscheduled" \in Env
    /\ t \in unsched
    /\ unsched' = unsched \ {t}
    /\ UNCHANGED <<exec, token, row, overdue, old, job, worker, lock, sweep>>

\* The scheduler takes the job out of its store and runs it, or finds it too late.
Fire(e) ==
    /\ job[e] # None
    /\ Goto(job[e], "claim")
    /\ job' = [job EXCEPT ![e] = None]
    /\ UNCHANGED <<exec, token, row, overdue, old, unsched, lock, sweep>>

Misfire(e) ==
    /\ "misfire" \in Env
    /\ job[e] # None
    /\ job' = [job EXCEPT ![e] = None]
    /\ UNCHANGED <<exec, token, row, overdue, old, unsched, worker, lock, sweep>>

-------------------------------------------------------------------------------
\* _resume_automation_async.  The token is read, then waiting -> running is claimed by a
\* compare-and-set; a job that loses either leaves everything alone.
AnyStatus(e) == TRUE                                                   \* mutant
Claimable(e) == exec[e].st = "waiting"
Claim(t) ==
    /\ worker[t].pc = "claim"
    /\ IF token[t].st = "resolved" /\ Claimable(token[t].ex)
       THEN SetStatus(token[t].ex, "running") /\ Goto(t, "load")
       ELSE UNCHANGED exec /\ Goto(t, "done")
    /\ UNCHANGED <<token, row, overdue, old, unsched, job, lock, sweep>>

\* After the claim, the checks that abandon the resume, with the execution failed or
\* left as it is.
LoadRefused(t) ==
    LET e == token[t].ex IN
    /\ worker[t].pc = "load"
    /\ \/ token[t].st # "resolved" /\ UNCHANGED exec
       \/ token[t].st = "resolved" /\ t \in overdue /\ SetStatus(e, "failed")
       \/ /\ token[t].st = "resolved" /\ t \notin overdue
          /\ exec[e].st \notin {"waiting", "running"} /\ UNCHANGED exec
       \/ /\ token[t].st = "resolved" /\ t \notin overdue
          /\ exec[e].st \in {"waiting", "running"}
          /\ exec[e].ckpt = None /\ SetStatus(e, "failed")
    /\ Goto(t, "done")
    /\ UNCHANGED <<token, row, overdue, old, unsched, job, lock, sweep>>

\* The waiting row of the step (the latest, here any) becomes success; without one there is
\* only a warning.  The steps journalled as success, and this one, are not executed again.
OnlyThis(t, journal) == {token[t].step}                                \* mutant
SkipIds(t, journal)  ==
    {token[t].step} \cup {s \in WaitSteps : \E a \in Attempts : journal[s][a] = "success"}
Succeeds(journal, s) ==
    LET waits == {a \in Attempts : journal[s][a] = "waiting"} IN
    IF waits = {} THEN {journal} ELSE {[journal EXCEPT ![s][a] = "success"] : a \in waits}
Load(t) ==
    LET e == token[t].ex IN
    /\ worker[t].pc = "load"
    /\ token[t].st = "resolved" /\ t \notin overdue
    /\ exec[e].st \in {"waiting", "running"} /\ exec[e].ckpt # None
    /\ \E journal \in Succeeds(row[e], token[t].step) :
         /\ row' = [row EXCEPT ![e] = journal]
         /\ worker' = [worker EXCEPT ![t].pc = "lock", ![t].at =
              [s \in WaitSteps |-> IF s \in SkipIds(t, journal) THEN "known" ELSE "todo"]]
    /\ SetStatus(e, "running")
    /\ UNCHANGED <<token, overdue, old, unsched, job, lock, sweep>>

\* The owner of the automation can no longer be loaded.
ResumeRefused(t) ==
    /\ "owner" \in Env
    /\ worker[t].pc = "lock"
    /\ SetStatus(token[t].ex, "failed")
    /\ Goto(t, "done")
    /\ UNCHANGED <<token, row, overdue, old, unsched, job, lock, sweep>>

AcquireLock(t) ==
    /\ worker[t].pc = "lock" /\ LockFree
    /\ lock' = t
    /\ Goto(t, "dag")
    /\ UNCHANGED <<exec, token, row, overdue, old, unsched, job, sweep>>

\* The DAG returned: the lock is released before its outcome is recorded.
ResumeReturn(t) ==
    /\ worker[t].pc = "dag" /\ LevelOver(t)
    /\ lock' = None
    /\ Goto(t, "persist")
    /\ UNCHANGED <<exec, token, row, overdue, old, unsched, job, sweep>>

ResumePersist(t) ==
    /\ worker[t].pc = "persist"
    /\ Journal(t) \/ ("dberror" \in Env /\ UNCHANGED row)
    /\ Goto(t, "final")
    /\ UNCHANGED <<exec, token, overdue, old, unsched, job, lock, sweep>>

\* Verdict on the journal, where the records of this pass come first.
WaitsAgain(t) ==
    \E s \in WaitSteps :
        \/ At(t, s) = "waiting"
        \/ \E a \in Attempts : /\ row[token[t].ex][s][a] = "waiting"
                               /\ ~(At(t, s) \in Recorded /\ a = Try(t, s))
ResumeFinal(t) ==
    /\ worker[t].pc = "final"
    /\ IF WaitsAgain(t)
       THEN SetStatus(token[t].ex, "waiting")
       ELSE \E v \in {"done", "failed"} : exec' = [exec EXCEPT ![token[t].ex] = [st |-> v, ckpt |-> None]]
    /\ Goto(t, "done")
    /\ UNCHANGED <<token, row, overdue, old, unsched, job, lock, sweep>>

\* An exception out of the DAG marks the execution failed; one later on, only if running.
ResumeCrash(t) ==
    /\ "timeout" \in Env
    /\ worker[t].pc \in {"dag", "persist", "final"}
    /\ IF worker[t].pc = "dag" \/ exec[token[t].ex].st = "running"
       THEN SetStatus(token[t].ex, "failed") ELSE UNCHANGED exec
    /\ lock' = IF lock = t THEN None ELSE lock
    /\ Goto(t, "done")
    /\ UNCHANGED <<token, row, overdue, old, unsched, job, sweep>>

-------------------------------------------------------------------------------
\* Sweeps: each reads what it must change in one step and writes it in another.
\* Switching the automation off cancels its waits, without the run lock.
Toggle ==
    /\ "toggle" \in Env
    /\ WaitingExecs # {} /\ ~sweep["toggle"].on
    /\ \A e \in Execs : Outside(e, "midrun")
    /\ CancelRead("toggle")
    /\ UNCHANGED <<exec, token, row, overdue, old, unsched, job, worker, lock>>

Nobody(late)   == {}                                                   \* mutant
AwaitedBy(late) == {e \in WaitingExecs : \E t \in late : token[t].ex = e}
ExpireRead ==
    LET late == {t \in overdue : token[t].st = "pending"} IN
    /\ late # {} /\ ~sweep["expire"].on
    /\ sweep' = [sweep EXCEPT !["expire"] = [on |-> TRUE, tk |-> late, ex |-> AwaitedBy(late)]]
    /\ UNCHANGED <<exec, token, row, overdue, old, unsched, job, worker, lock>>

\* cleanup_orphaned_executions_job marks them failed and leaves the checkpoint.
Orphans      == {e \in old : exec[e].st = "running"}
OrphanRead ==
    /\ Orphans # {} /\ ~sweep["orphan"].on
    /\ sweep' = [sweep EXCEPT !["orphan"] = [on |-> TRUE, tk |-> {}, ex |-> Orphans]]
    /\ UNCHANGED <<exec, token, row, overdue, old, unsched, job, worker, lock>>

OrphanWrite ==
    /\ sweep["orphan"].on
    /\ exec' = [e \in Execs |-> IF e \in sweep["orphan"].ex
                                THEN [exec[e] EXCEPT !.st = "failed"] ELSE exec[e]]
    /\ sweep' = [sweep EXCEPT !["orphan"] = NoSweep]
    /\ UNCHANGED <<token, row, overdue, old, unsched, job, worker, lock>>

SweepWrite ==
    /\ \/ sweep["toggle"].on /\ Sweep("toggle", "cancelled", "cancelled")
       \/ sweep["expire"].on /\ Sweep("expire", "expired", "failed")
    /\ UNCHANGED <<row, overdue, old, unsched, job, worker, lock>>

-------------------------------------------------------------------------------
\* Time: a deadline passes; an execution grows older than the orphan cutoff, which the
\* global timeout keeps longer than any first run.
Deadline(t) ==
    /\ token[t].st \notin {"free", "gone"} /\ t \notin overdue
    /\ Outside(token[t].ex, "deadline")
    /\ overdue' = overdue \cup {t}
    /\ UNCHANGED <<exec, token, row, old, unsched, job, worker, lock, sweep>>

Age(e) ==
    /\ exec[e].st \notin {"none"} /\ e \notin old
    /\ worker[e].pc = "done"
    /\ "slow" \in Env \/ (exec[e].st = "running" /\ ~\E t \in Tokens : token[t].ex = e /\ Resuming(t))
    /\ old' = old \cup {e}
    /\ UNCHANGED <<exec, token, row, overdue, unsched, job, worker, lock, sweep>>

\* The process stops and starts again: memory is lost, the database and the job store stay.
Crash ==
    /\ "crash" \in Env
    /\ worker' = [w \in Workers |-> IF worker[w].pc = "idle" THEN worker[w]
                                    ELSE [worker[w] EXCEPT !.pc = "done"]]
    /\ unsched' = {} /\ lock' = None
    /\ sweep' = [k \in Sweepers |-> NoSweep]
    /\ worker' # worker
    /\ UNCHANGED <<exec, token, row, overdue, old, job>>

-------------------------------------------------------------------------------
RunStep(e) ==
    RunStart(e) \/ RunCreate(e) \/ RunFlush(e) \/ RunEnd(e) \/ RunAbort(e)
DagStep(w) ==
    \E s \in WaitSteps :
        \/ Suspend(w, s) \/ SuspendFails(w, s) \/ StepFails(w, s) \/ SkipStep(w, s)
        \/ \E t \in Tokens : AskToken(w, s, t) \/ MailOut(w, s, t) \/ MailFails(w, s, t)
HandlerStep(t) == Answer(t) \/ Schedule(t) \/ ScheduleFails(t)
ResumeStep(t) ==
    \/ Claim(t) \/ LoadRefused(t) \/ Load(t) \/ ResumeRefused(t) \/ AcquireLock(t)
    \/ ResumeReturn(t) \/ ResumePersist(t) \/ ResumeFinal(t) \/ ResumeCrash(t)
Write == SweepWrite \/ OrphanWrite \/ \E e \in Execs : RunCancel(e) \/ RunCancelFails(e)

Next ==
    \/ Write
    \/ /\ "gap" \in Env \/ \A k \in Sweepers : ~sweep[k].on
       /\ \/ \E e \in Execs : RunStep(e) \/ Fire(e) \/ Misfire(e) \/ Age(e)
          \/ \E w \in Workers : DagStep(w)
          \/ \E t \in Tokens : HandlerStep(t) \/ ResumeStep(t) \/ Deadline(t)
          \/ Toggle \/ ExpireRead \/ OrphanRead \/ Crash

Spec == Init /\ [][Next]_vars

\* Every coroutine that can run does, the scheduler fires its jobs and its periodic sweeps,
\* time passes.  Nobody has to answer, nothing has to fail.
Fairness ==
    /\ WF_vars(Write) /\ WF_vars(ExpireRead) /\ WF_vars(OrphanRead)
    /\ \A e \in Execs :
         /\ WF_vars(Fire(e)) /\ WF_vars(Age(e))
         /\ WF_vars(RunCreate(e) \/ RunFlush(e) \/ RunEnd(e))
    /\ \A w \in Workers : WF_vars(DagStep(w))
    /\ \A t \in Tokens : WF_vars(Schedule(t)) /\ WF_vars(ResumeStep(t)) /\ WF_vars(Deadline(t))
FairSpec == Spec /\ Fairness

-------------------------------------------------------------------------------
(* Properties.  Quiet(e): nothing is at work on e, its state is what recipients *)
(* and administrators see until the next event.                                 *)
Quiet(e) ==
    /\ \A w \in Workers : ExecOf(w) = e => worker[w].pc \in {"idle", "done"}
    /\ \A k \in Sweepers : ~sweep[k].on
Claimed(t) == worker[t].pc \in {"load", "lock", "dag", "persist", "final"}

\* At most one pass over the DAG of the automation at a time, run or resume: two would
\* send its mails and its queries twice (executor.py, the automation run lock).
OnePipeline ==
    \A v, w \in Workers : worker[v].pc = "dag" /\ worker[w].pc = "dag" => v = w

\* A resume job exists only for a token whose answer was accepted: the compare-and-set of
\* the handler precedes the job, and nothing makes a token pending again.
NoResumeWithoutAnswer ==
    \A t \in Tokens :
        t \in unsched \/ (\E e \in Execs : job[e] = t) \/ Resuming(t)
            => token[t].st \notin {"free", "pending"}

\* An execution left waiting can still be answered, or its answer is on its way to a
\* resume: nothing else will ever take it out of waiting.
WaitingIsAnswerable ==
    \A e \in Execs : exec[e].st = "waiting" /\ Quiet(e) =>
        \E t \in Tokens : /\ token[t].ex = e
                          /\ \/ token[t].st = "pending" /\ token[t].mailed
                             \/ token[t].st = "resolved" /\ (t \in unsched \/ job[e] = t)

\* A link that still accepts an answer belongs to an execution that waits for it, so that
\* no recipient's answer is accepted and thrown away.
PendingIsAwaited ==
    \A t \in Tokens : token[t].st = "pending" /\ Quiet(token[t].ex) =>
        exec[token[t].ex].st = "waiting"

\* No resume passes over the DAG once a newer execution of the automation exists
\* (cancel-on-next-run in execute_automation), except behind runs whose cancellation
\* failed: that failure is swallowed, and an old answer resumed on data that have changed.
NoStaleResume ==
    \A t \in Tokens : worker[t].pc = "dag" =>
        \A e \in Execs : exec[e].st # "none" => e <= token[t].ex \/ worker[e].blind

\* Nobody is asked again what was answered in the same execution, unless the step had
\* failed or been skipped in an earlier pass over it: that row holds the key of the
\* waiting row, so that the answer leaves no success behind.
Stale(e) == {s \in WaitSteps : \E a \in Attempts : row[e][s][a] \in {"failed", "skipped"}}
AnsweredNotAskedAgain ==
    \A t, u \in Tokens :
        /\ token[t].st = "resolved" /\ token[u].st = "pending"
        /\ token[t].ex = token[u].ex /\ token[t].step = token[u].step
        => token[t].step \in Stale(token[t].ex)

\* Every execution that starts ends, or an answer to it was accepted and then lost with
\* the process or the scheduler: the only way to stay open for ever.
AnswerLost(e) ==
    /\ exec[e].st = "waiting" /\ Quiet(e) /\ job[e] = None
    /\ \E t \in Tokens \ unsched : token[t].ex = e /\ token[t].st = "resolved"
EveryRunEnds ==
    \A e \in Execs : exec[e].st # "none" ~> exec[e].st \in Terminal \/ AnswerLost(e)

\* Suspension, answers, resumes and sweeps keep the promise of WaitPromise: a question
\* never missed before is asked once, an execution goes on only from an accepted answer,
\* and ends once.
StepsOf(e, st) ==
    {s \in WaitSteps : \E t \in Tokens : token[t].ex = e /\ token[t].step = s /\ token[t].st = st}
Promise == INSTANCE WaitPromise WITH
    phase    <- [e \in Execs |-> exec[e].st],
    open     <- [e \in Execs |-> StepsOf(e, "pending")],
    answered <- [e \in Execs |-> StepsOf(e, "resolved")],
    missed   <- [e \in Execs |-> Stale(e)]
KeepsPromise == Promise!PromiseSpec
===============================================================================
