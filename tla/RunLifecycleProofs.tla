-------------------------- MODULE RunLifecycleProofs --------------------------
(* For every number of runs, schedules and requests, every threshold of failures *)
(* and every scene: types, one pass at a time through deletions, the count of    *)
(* failures behind a pause, what is recorded of a delivery; that an active       *)
(* automation has its job, that only a run of the schedule completes it, and     *)
(* that a single date is not run twice.                                          *)
EXTENDS RunLifecycle, FiniteSetTheorems, TLAPS

-------------------------------------------------------------------------------
(* What the small writes return.                                                *)
\* The first schedule is one, and cleared fields have it.
LEMMA OneVersion == 1 \in Versions
BY SchedulesAssumption DEF Versions

\* The row of a call that is over, of one that is cancelled, of one whose status is written.
LEMMA OverType ==
    ASSUME run \in [Runs -> RunStates], NEW r \in Runs, NEW st \in Statuses
    PROVE  Over(r, st) \in RunStates
BY OneVersion DEF Over, RunStates, Loaded, Nothing, FirstVersion

LEMMA CancelledType ==
    ASSUME run \in [Runs -> RunStates], NEW r \in Runs
    PROVE  Cancelled(r) \in RunStates
BY DEF Cancelled, RunStates, Statuses, Finished

LEMMA RecordedType ==
    ASSUME NEW r, NEW st \in Statuses
    PROVE  Recorded(r, st) \in Statuses
BY DEF Recorded, Statuses

\* One call written, or all of them and then one.
LEMMA WriteType ==
    ASSUME run \in [Runs -> RunStates], NEW r, NEW x \in RunStates, run' = [run EXCEPT ![r] = x]
    PROVE  run' \in [Runs -> RunStates]
OBVIOUS

LEMMA AttemptsType ==
    ASSUME run \in [Runs -> RunStates]
    PROVE  CancelAttempts \subseteq [Runs -> RunStates]
BY CancelledType DEF CancelAttempts

LEMMA WriteAllType ==
    ASSUME run \in [Runs -> RunStates], NEW r \in Runs, NEW x \in RunStates, NEW others \in CancelAttempts,
           run' = [others EXCEPT ![r] = x]
    PROVE  run' \in [Runs -> RunStates]
BY AttemptsType

LEMMA PausedType ==
    ASSUME row \in Rows, NEW why \in {"none", "denied", "failures", "once"}
    PROVE  PausedFor(why) \in Rows
BY DEF PausedFor, Rows

LEMMA RewoundType ==
    ASSUME when \in [Versions -> {"future", "due", "late"}], NEW v
    PROVE  Rewound(v) \in [Versions -> {"future", "due", "late"}]
BY DEF Rewound

LEMMA LeftType ==
    ASSUME req \in [Requests -> ReqStates], row \in Rows, NEW q,
           NEW todo \in {"none", "arm", "disarm", "erase", "drop"}, Left(q, todo)
    PROVE  req' \in [Requests -> ReqStates]
BY DEF Left, ReqStates, Rows

LEMMA DoneType ==
    ASSUME req \in [Requests -> ReqStates], NEW q, Done(q)
    PROVE  req' \in [Requests -> ReqStates]
BY OneVersion DEF Done, ReqStates, FirstVersion

LEMMA CountType ==
    ASSUME row \in Rows, NEW r, NEW o
    PROVE  Count(r, o) \in Nat
BY DEF Count, Rows

LEMMA ReasonType ==
    ASSUME NEW r, NEW o
    PROVE  ReasonOf(r, o) \in {"none", "denied", "failures", "once"}
BY DEF ReasonOf

-------------------------------------------------------------------------------
(* Types, group by group.                                                       *)
LEMMA CallTypes ==
    ASSUME TypeOK, NEW r \in Runs,
           Fire(r) \/ Enter(r) \/ Answer(r) \/ ResumePass(r) \/ CleanOrphan(r)
             \/ (\E source \in {"webhook", "manual"} : Trigger(r, source))
    PROVE  TypeOK'
<1>1. run[r] \in RunStates /\ "none" \in Statuses /\ "failed" \in Statuses /\ "running" \in Statuses
  BY DEF TypeOK, Statuses, Finished
<1>2. CASE Fire(r)
  <2> DEFINE x == [run[r] EXCEPT !.pc = "called", !.src = "schedule", !.first = "schedule", !.ver = job]
  <2>1. x \in RunStates
    BY <1>1, <1>2 DEF Fire, TypeOK, RunStates, Sources
  <2>2. run' = [run EXCEPT ![r] = x]
    BY <1>2 DEF Fire
  <2>3. run' \in [Runs -> RunStates]
    BY <2>1, <2>2, WriteType DEF TypeOK
  <2> QED
    BY <1>2, <2>3, RewoundType DEF Fire, NextDate, TypeOK, env
<1>3. CASE Enter(r)
  <2>1. CASE run' = [run EXCEPT ![r] = Over(r, "none")]
    BY <1>1, <1>3, <2>1, OverType, WriteType DEF Enter, TypeOK, env
  <2>2. CASE run' = [run EXCEPT ![r].pc = "queued", ![r].lock = registry]
    <3>1. [run[r] EXCEPT !.pc = "queued", !.lock = registry] \in RunStates
      BY <1>1 DEF TypeOK, RunStates
    <3> QED
      BY <1>3, <2>2, <3>1 DEF Enter, TypeOK, env
  <2> QED
    BY <1>3, <2>1, <2>2 DEF Enter
<1>4. CASE Answer(r)
  BY <1>4 DEF Answer, TypeOK, RunStates, Statuses, env
<1>5. CASE ResumePass(r)
  BY <1>5 DEF ResumePass, TypeOK, RunStates, env
<1>6. CASE CleanOrphan(r)
  <2>1. [run[r] EXCEPT !.st = "failed"] \in RunStates
    BY <1>1 DEF RunStates
  <2> QED
    BY <1>6, <2>1 DEF CleanOrphan, TypeOK, env
<1>7. CASE \E source \in {"webhook", "manual"} : Trigger(r, source)
  <2> PICK source \in {"webhook", "manual"} : Trigger(r, source)
    BY <1>7
  <2>1. [run[r] EXCEPT !.pc = "called", !.src = source, !.first = source] \in RunStates
    BY <1>1 DEF RunStates, Sources
  <2> QED
    BY <2>1 DEF Trigger, TypeOK, env
<1> QED
  BY <1>2, <1>3, <1>4, <1>5, <1>6, <1>7

LEMMA PassTypes ==
    ASSUME TypeOK, NEW r \in Runs,
           Refuse(r) \/ Start(r) \/ OwnerMissing(r) \/ Suspend(r) \/ Notify(r)
             \/ Raise(r) \/ LoseEnd(r) \/ EndResume(r)
    PROVE  TypeOK'
<1>1. /\ run[r] \in RunStates /\ run[r].st \in Statuses /\ row \in Rows
      /\ {"none", "failed", "waiting", "success", "partial"} \subseteq Statuses
  BY DEF TypeOK, RunStates, Statuses, Finished
<1>2. \A st \in Statuses : Over(r, st) \in RunStates
  BY OverType DEF TypeOK
<1>3. CASE Refuse(r)
  BY <1>1, <1>2, <1>3, WriteType DEF Refuse, TypeOK, env
<1>4. CASE Start(r)
  <2> DEFINE y == [active |-> row.active, fails |-> row.fails, ver |-> row.ver]
  <2> PICK others \in CancelAttempts :
             run' = [others EXCEPT ![r].pc = "pass", ![r].st = "running", ![r].seen = y]
    BY <1>4 DEF Start
  <2>1. others \in [Runs -> RunStates] /\ y \in Loaded
    BY <1>1, AttemptsType DEF TypeOK, Rows, Loaded
  <2>2. [others[r] EXCEPT !.pc = "pass", !.st = "running", !.seen = y] \in RunStates
    BY <2>1 DEF RunStates, Statuses
  <2>3. run' = [others EXCEPT ![r] = [others[r] EXCEPT !.pc = "pass", !.st = "running", !.seen = y]]
    BY <2>1
  <2>4. run' \in [Runs -> RunStates]
    BY <2>2, <2>3, WriteAllType DEF TypeOK
  <2> QED
    BY <1>4, <2>4 DEF Start, TypeOK, env
<1>5. CASE OwnerMissing(r)
  <2>1. run' \in [Runs -> RunStates]
    BY <1>1, <1>2, <1>5, WriteAllType DEF OwnerMissing, TypeOK
  <2> QED
    BY <1>5, <2>1 DEF OwnerMissing, TypeOK, env
<1>6. CASE Suspend(r)
  BY <1>1, <1>2, <1>6, WriteType DEF Suspend, TypeOK, env
<1>7. CASE Notify(r)
  <2>1. PICK st \in {run[r].st, Recorded(r, Rescued(r, run[r].verdict))} :
           run' = [run EXCEPT ![r] = Over(r, st)]
    BY <1>7 DEF Notify
  <2>2. st \in Statuses
    BY <1>1, RecordedType DEF Rescued
  <2> QED
    BY <1>2, <1>7, <2>1, <2>2, WriteType DEF Notify, TypeOK, env
<1>8. CASE Raise(r)
  <2>1. row' \in Rows
    BY <1>1, <1>8, PausedType DEF Raise
  <2>2. run' \in [Runs -> RunStates]
    BY <1>1, <1>2, <1>8, RecordedType, WriteType DEF Raise, TypeOK
  <2> QED
    BY <1>8, <2>1, <2>2 DEF Raise, TypeOK, env
<1>9. CASE LoseEnd(r)
  <2>1. PICK o \in scene.ends \cup {"none"} :
           run' = [run EXCEPT ![r] = [Over(r, run[r].st) EXCEPT !.verdict = o, !.lost = TRUE]]
    BY <1>9 DEF LoseEnd
  <2>2. Over(r, run[r].st) \in RunStates /\ o \in {"none"} \cup Verdicts
    BY <1>1, <1>2 DEF TypeOK, AllScenes
  <2>3. [Over(r, run[r].st) EXCEPT !.verdict = o, !.lost = TRUE] \in RunStates
    BY <2>2 DEF RunStates
  <2> QED
    BY <1>9, <2>1, <2>3, WriteType DEF LoseEnd, TypeOK, env
<1>10. CASE EndResume(r)
  <2>1. run' \in [Runs -> RunStates]
    BY <1>1, <1>2, <1>10, RecordedType, WriteType DEF EndResume, TypeOK
  <2> QED
    BY <1>10, <2>1 DEF EndResume, TypeOK, env
<1> QED
  BY <1>3, <1>4, <1>5, <1>6, <1>7, <1>8, <1>9, <1>10

LEMMA VerdictTypes ==
    ASSUME TypeOK, NEW r \in Runs, NEW o \in Verdicts, Verdict(r, o) \/ CommitFails(r, o)
    PROVE  TypeOK'
<1>1. run[r] \in RunStates /\ row \in Rows /\ Rescued(r, o) \in Statuses /\ StatusOf(o) \in Statuses
  BY DEF TypeOK, Rescued, StatusOf, Statuses, Finished, Verdicts
<1>2. CASE Verdict(r, o)
  <2>1. [run[r] EXCEPT !.pc = "notify", !.st = StatusOf(o), !.verdict = o] \in RunStates
    BY <1>1 DEF RunStates
  <2>2. run' \in [Runs -> RunStates]
    BY <1>2, <2>1 DEF Verdict, TypeOK
  <2>3. PausedFor(ReasonOf(r, o)) \in Rows
    BY <1>1, PausedType, ReasonType
  <2>4. row' \in Rows
    BY <1>1, <1>2, <2>3, CountType DEF Verdict, Rows
  <2>5. spent' \subseteq Versions /\ past' \subseteq Runs
    BY <1>1, <1>2 DEF Verdict, TypeOK, RunStates
  <2> QED
    BY <1>2, <2>2, <2>4, <2>5 DEF Verdict, TypeOK, env
<1>3. CASE CommitFails(r, o)
  <2>1. Over(r, Recorded(r, Rescued(r, o))) \in RunStates
    BY <1>1, RecordedType, OverType DEF TypeOK
  <2>2. [Over(r, Recorded(r, Rescued(r, o))) EXCEPT !.verdict = o] \in RunStates
    BY <2>1 DEF RunStates
  <2> QED
    BY <1>3, <2>2, WriteType DEF CommitFails, TypeOK, env
<1> QED
  BY <1>2, <1>3

\* The verdicts of a scene are verdicts.
LEMMA TypesOfVerdicts ==
    ASSUME TypeOK, NEW r \in Runs, NEW o \in scene.ends, Verdict(r, o) \/ CommitFails(r, o)
    PROVE  TypeOK'
<1>1. o \in Verdicts
  BY DEF TypeOK, AllScenes
<1> QED
  BY <1>1, VerdictTypes

LEMMA RequestTypes ==
    ASSUME TypeOK, NEW q \in Requests, Request(q)
    PROVE  TypeOK'
<1>1. row \in Rows
  BY DEF TypeOK
<1>2. CASE ToggleOn(q)
  <2>1. row' \in Rows
    BY <1>1, <1>2 DEF ToggleOn, Rows
  <2> QED
    BY <1>1, <1>2, <2>1, LeftType DEF ToggleOn, TypeOK, env
<1>3. CASE ToggleOff(q)
  <2>1. row' \in Rows
    BY <1>1, <1>3 DEF ToggleOff, Rows
  <2> QED
    BY <1>1, <1>3, <2>1, LeftType DEF ToggleOff, TypeOK, env
<1>4. CASE Reschedule(q)
  <2>1. row.ver + 1 \in Versions
    <3>1. row.ver \in Nat /\ row.ver < scene.given /\ scene.given \in 1..Schedules
      BY <1>1, <1>4 DEF Reschedule, TypeOK, AllScenes, Rows, Versions
    <3> QED
      BY <3>1, SchedulesAssumption DEF Versions
  <2>2. row' \in Rows
    BY <1>1, <1>4, <2>1 DEF Reschedule, Rows
  <2>3. req' \in [Requests -> ReqStates]
    BY <1>4, <2>1 DEF Reschedule, ReqStates, TypeOK
  <2> QED
    BY <1>4, <2>2, <2>3 DEF Reschedule, TypeOK, env
<1>5. CASE Arm(q)
  <2>1. req[q].ver \in Versions
    BY DEF TypeOK, ReqStates
  <2>2. job' \in {0} \cup Versions /\ when' \in [Versions -> {"future", "due", "late"}]
    BY <1>5, <2>1, RewoundType DEF Arm, TypeOK
  <2> QED
    BY <1>5, <2>2, DoneType DEF Arm, TypeOK, env
<1>6. CASE Disarm(q)
  <2>1. run' \in [Runs -> RunStates]
    BY <1>6, AttemptsType DEF Disarm, TypeOK
  <2> QED
    BY <1>6, <2>1, DoneType DEF Disarm, TypeOK, NoJob, env
<1>7. CASE Delete(q)
  BY <1>1, <1>7, LeftType DEF Delete, TypeOK, NoJob, env
<1>8. CASE Erase(q)
  <2>1. row' \in Rows
    BY <1>1, <1>8 DEF Erase, Rows
  <2>2. \A r \in Runs : [run[r] EXCEPT !.st = "gone"] \in RunStates
    BY DEF TypeOK, RunStates, Statuses
  <2>3. run' \in [Runs -> RunStates]
    BY <1>8, <2>2 DEF Erase, TypeOK
  <2>4. req' \in [Requests -> ReqStates]
    BY <1>1, <1>8, LeftType, DoneType DEF Erase, TypeOK
  <2> QED
    BY <1>8, <2>1, <2>3, <2>4 DEF Erase, TypeOK, env
<1>9. CASE Drop(q)
  BY <1>9, DoneType DEF Drop, TypeOK, env
<1> QED
  BY <1>2, <1>3, <1>4, <1>5, <1>6, <1>7, <1>8, <1>9 DEF Request, Finish

LEMMA ProcessTypes ==
    ASSUME TypeOK, Miss \/ Crash \/ Boot \/ Load \/ AgentToggle \/ KillSwitch
                     \/ (\E v \in Versions : Elapse(v))
    PROVE  TypeOK'
<1>1. CASE Miss
  BY <1>1, RewoundType DEF Miss, NextDate, TypeOK, env
<1>2. CASE Crash
  <2>1. \A r \in Runs : run[r].st \in Statuses
    BY DEF TypeOK, RunStates
  <2>2. run' \in [Runs -> RunStates]
    BY <1>2, <2>1, OverType DEF Crash, TypeOK
  <2>3. req' \in [Requests -> ReqStates]
    BY <1>2, OneVersion DEF Crash, ReqStates, FirstVersion
  <2> QED
    BY <1>2, <2>2, <2>3 DEF Crash, TypeOK, env
<1>3. CASE Boot
  BY <1>3 DEF Boot, TypeOK, env
<1>4. CASE Load
  <2>1. row' \in Rows
    BY <1>4, PausedType DEF Load, TypeOK
  <2>2. row.ver \in Versions
    BY DEF TypeOK, Rows
  <2>3. job' \in {0} \cup Versions /\ when' \in [Versions -> {"future", "due", "late"}]
    BY <1>4, <2>2, RewoundType DEF Load, TypeOK
  <2> QED
    BY <1>4, <2>1, <2>3 DEF Load, TypeOK, env
<1>5. CASE AgentToggle
  BY <1>5 DEF AgentToggle, TypeOK, Rows, env
<1>6. CASE KillSwitch
  BY <1>6 DEF KillSwitch, TypeOK
<1>7. CASE \E v \in Versions : Elapse(v)
  BY <1>7 DEF Elapse, TypeOK, env
<1> QED
  BY <1>1, <1>2, <1>3, <1>4, <1>5, <1>6, <1>7

LEMMA InitTypes == Init => TypeOK
<1> SUFFICES ASSUME Init PROVE TypeOK
  OBVIOUS
<1>1. row \in Rows
  BY OneVersion DEF Init, Rows, FirstVersion
<1>2. run \in [Runs -> RunStates]
  BY OneVersion DEF Init, RunStates, Sources, Loaded, Nothing, FirstVersion, Statuses
<1>3. req \in [Requests -> ReqStates]
  BY OneVersion DEF Init, ReqStates, FirstVersion
<1> QED
  BY <1>1, <1>2, <1>3, ScenesAssumption DEF Init, TypeOK

LEMMA NextTypes ==
    ASSUME TypeOK, [Next]_vars
    PROVE  TypeOK'
<1>1. CASE \E r \in Runs : RunNext(r)
  BY <1>1, CallTypes, PassTypes, TypesOfVerdicts DEF RunNext, RunStep
<1>2. CASE \E q \in Requests : Request(q)
  BY <1>2, RequestTypes
<1>3. CASE Miss \/ Crash \/ Boot \/ Load \/ AgentToggle \/ KillSwitch \/ (\E v \in Versions : Elapse(v))
  BY <1>3, ProcessTypes
<1>4. CASE UNCHANGED vars
  BY <1>4 DEF vars, TypeOK
<1> QED
  BY <1>1, <1>2, <1>3, <1>4 DEF Next

-------------------------------------------------------------------------------
(* The invariant.  The lock of the registry changes only when the automation is *)
(* gone, and nothing starts any more; while it is there, every pass holds the   *)
(* first lock, so that passes exclude each other; and between two verdicts the  *)
(* row keeps the count a pass has loaded, unless the automation is switched on. *)
Working(r) == Holds(r) \/ (run[r].pc = "queued" /\ run[r].src = "resume")

OneHolder  == \A r, s \in Runs : Holds(r) /\ Holds(s) => r = s
FirstLock  == \A r \in Runs : Working(r) => run[r].lock = 0 /\ run[r].st # "none"
LocksGiven == \A r \in Runs : run[r].lock <= registry
NewLockWhenGone ==
    /\ registry > 0 => ~row.here
    /\ \A q \in Requests : req[q].todo = "drop" => ~row.here
CalledFirst == \A r \in Runs : run[r].pc = "called" => run[r].src # "resume"
NothingLeft == ~row.here => \A r \in Runs : run[r].st \in {"none", "gone"}
Exclusive == OneHolder /\ FirstLock /\ LocksGiven /\ NewLockWhenGone /\ CalledFirst /\ NothingLeft

VerdictLast ==
    \A r \in Runs : run[r].pc \in {"idle", "called", "queued", "pass"} \/ run[r].st = "waiting"
                        => run[r].verdict = "none"
PassingRuns == \A r \in Runs : Passing(r) => run[r].st # "waiting"
Truthful == VerdictLast /\ PassingRuns /\ DeliveredNotFailed

Counted ==
    /\ \A r \in past : r \in Runs /\ run[r].verdict = "failed"
    /\ IsFiniteSet(past) /\ row.fails = Cardinality(past)
LoadedCount == \A r \in Runs : Passing(r) => row.fails \in {run[r].seen.fails, 0}
SwitchedOn ==
    \A r \in Runs : row.active /\ ~May("agent") /\ Passing(r) /\ ~run[r].seen.active => past = {}
Counts == Counted /\ LoadedCount /\ SwitchedOn /\ PausedInTime

IInv == TypeOK /\ Exclusive /\ Truthful /\ Counts

\* What the calls are after the moves that write more than a field or two.
LEMMA FireFields ==
    ASSUME TypeOK, NEW r \in Runs, NEW source \in {"webhook", "manual"},
           Fire(r) \/ Trigger(r, source)
    PROVE  \A s \in Runs : /\ run'[s].pc = IF s = r THEN "called" ELSE run[s].pc
                           /\ s = r => run[s].pc = "idle"
                           /\ run'[s].lock = run[s].lock /\ run'[s].st = run[s].st
                           /\ run'[s].verdict = run[s].verdict /\ run'[s].seen = run[s].seen /\ run'[s].lost = run[s].lost
                           /\ IF s = r THEN run'[s].src # "resume" ELSE run'[s].src = run[s].src
<1>1. Comes(r) => run[r].pc = "idle"
  <2>1. ASSUME Idle # {} PROVE (CHOOSE s \in Idle : TRUE) \in Idle
    BY <2>1
  <2> QED
    BY <2>1 DEF Comes, Idle
<1> QED
  BY <1>1 DEF Fire, Trigger, TypeOK, RunStates

LEMMA EnterFields ==
    ASSUME TypeOK, NEW r \in Runs, Enter(r)
    PROVE  \A s \in Runs : /\ s # r => run'[s] = run[s]
                           /\ s = r => run[s].pc = "called" /\ run'[s].pc \in {"queued", "done"}
                           /\ run'[s].pc = "queued" => run'[s].src = run[s].src /\ run'[s].st = run[s].st
                           /\ run'[s].lock \in {0, registry, run[s].lock}
                           /\ run'[s].st \in {"none", run[s].st}
                           /\ run'[s].verdict = run[s].verdict /\ run'[s].lost = run[s].lost
<1>1. CASE run' = [run EXCEPT ![r] = Over(r, "none")]
  BY <1>1 DEF Enter, Over, TypeOK, RunStates
<1>2. CASE run' = [run EXCEPT ![r].pc = "queued", ![r].lock = registry]
  BY <1>2 DEF Enter, TypeOK, RunStates
<1> QED
  BY <1>1, <1>2 DEF Enter

\* A call that another one spares, or cancels if it waits.
Spared(s) ==
    /\ run'[s].pc = run[s].pc /\ run'[s].src = run[s].src /\ run'[s].first = run[s].first
    /\ run'[s].ver = run[s].ver /\ run'[s].lock = run[s].lock /\ run'[s].seen = run[s].seen
    /\ run'[s].verdict = run[s].verdict /\ run'[s].lost = run[s].lost
    /\ run'[s].st = run[s].st \/ (run[s].st = "waiting" /\ run'[s].st = "cancelled")

LEMMA AttemptFields ==
    ASSUME TypeOK, NEW others \in CancelAttempts, NEW s \in Runs
    PROVE  /\ others[s] \in RunStates
           /\ others[s].src = run[s].src /\ others[s].first = run[s].first /\ others[s].ver = run[s].ver
           /\ others[s].lock = run[s].lock /\ others[s].verdict = run[s].verdict
           /\ others[s].lost = run[s].lost
           /\ run'[s] = others[s] => Spared(s)
<1>1. others[s] \in {run[s], Cancelled(s)}
  BY DEF CancelAttempts
<1>2. run[s] \in RunStates /\ Cancelled(s) \in RunStates
  BY CancelledType DEF TypeOK
<1>3. CASE others[s] = run[s]
  BY <1>2, <1>3 DEF Spared
<1>4. CASE others[s] = Cancelled(s)
  <2>1. /\ Cancelled(s).pc = run[s].pc /\ Cancelled(s).src = run[s].src /\ Cancelled(s).first = run[s].first
        /\ Cancelled(s).ver = run[s].ver /\ Cancelled(s).lock = run[s].lock
        /\ Cancelled(s).seen = run[s].seen /\ Cancelled(s).verdict = run[s].verdict
        /\ Cancelled(s).lost = run[s].lost
        /\ Cancelled(s).st = IF run[s].st = "waiting" THEN "cancelled" ELSE run[s].st
    BY <1>2 DEF Cancelled, RunStates
  <2> QED
    BY <1>2, <1>4, <2>1 DEF Spared
<1> QED
  BY <1>1, <1>3, <1>4

LEMMA StartFields ==
    ASSUME TypeOK, NEW r \in Runs, Start(r)
    PROVE  /\ \A s \in Runs \ {r} : Spared(s)
           /\ run'[r].pc = "pass" /\ run'[r].st = "running" /\ run'[r].src = run[r].src
           /\ run'[r].first = run[r].first /\ run'[r].ver = run[r].ver
           /\ run'[r].lock = run[r].lock /\ run'[r].verdict = run[r].verdict
           /\ run'[r].seen.active = row.active /\ run'[r].seen.fails = row.fails
           /\ run'[r].seen.ver = row.ver
<1> DEFINE y == [active |-> row.active, fails |-> row.fails, ver |-> row.ver]
<1>1. PICK others \in CancelAttempts :
        run' = [others EXCEPT ![r].pc = "pass", ![r].st = "running", ![r].seen = y]
  BY DEF Start
<1>2. others \in [Runs -> RunStates]
  BY AttemptsType DEF TypeOK
<1>3. run'[r] = [others[r] EXCEPT !.pc = "pass", !.st = "running", !.seen = y]
  BY <1>1, <1>2
<1>4. \A s \in Runs \ {r} : run'[s] = others[s]
  BY <1>1, <1>2
<1> QED
  BY <1>2, <1>3, <1>4, AttemptFields DEF RunStates

LEMMA OwnerFields ==
    ASSUME TypeOK, NEW r \in Runs, OwnerMissing(r)
    PROVE  /\ \A s \in Runs \ {r} : Spared(s)
           /\ run'[r] = Over(r, "failed")
<1>1. PICK others \in CancelAttempts : run' = [others EXCEPT ![r] = Over(r, "failed")]
  BY DEF OwnerMissing
<1>2. others \in [Runs -> RunStates]
  BY AttemptsType DEF TypeOK
<1> QED
  BY <1>1, <1>2, AttemptFields

LEMMA DisarmFields ==
    ASSUME TypeOK, NEW q \in Requests, Disarm(q)
    PROVE  \A s \in Runs : Spared(s)
BY AttemptFields DEF Disarm

LEMMA OverFields ==
    ASSUME TypeOK, NEW r \in Runs, NEW st
    PROVE  /\ Over(r, st).pc = "done" /\ Over(r, st).st = st /\ Over(r, st).lock = 0
           /\ Over(r, st).verdict = run[r].verdict /\ Over(r, st).src = run[r].src
           /\ Over(r, st).lost = run[r].lost
BY DEF Over, TypeOK, RunStates

LEMMA CrashFields ==
    ASSUME TypeOK, Crash
    PROVE  \A r \in Runs : /\ run'[r].pc \in {"idle", "done"} /\ run'[r].st = run[r].st
                           /\ run'[r].verdict = run[r].verdict /\ run'[r].lost = run[r].lost
                           /\ run'[r].pc = "idle" => run[r].pc = "idle"
                           /\ run'[r].lock \in {0, run[r].lock}
BY OverFields DEF Crash, Active, TypeOK, RunStates

LEMMA FireInv ==
    ASSUME IInv, NEW r \in Runs, NEW source \in {"webhook", "manual"}, Fire(r) \/ Trigger(r, source)
    PROVE  Exclusive' /\ Truthful' /\ Counts'
<1>1. \A s \in Runs : /\ run'[s].pc = IF s = r THEN "called" ELSE run[s].pc
                      /\ s = r => run[s].pc = "idle"
                      /\ run'[s].lock = run[s].lock /\ run'[s].st = run[s].st
                      /\ run'[s].verdict = run[s].verdict /\ run'[s].seen = run[s].seen /\ run'[s].lost = run[s].lost
                      /\ IF s = r THEN run'[s].src # "resume" ELSE run'[s].src = run[s].src
  BY FireFields DEF IInv
<1>2. UNCHANGED <<scene, row, registry, req, past>>
  BY DEF Fire, Trigger, env
<1>3. Exclusive'
  BY <1>1, <1>2 DEF IInv, Exclusive, OneHolder, FirstLock, LocksGiven, NewLockWhenGone, CalledFirst,
       NothingLeft, Working, Holds
<1>4. Truthful'
  BY <1>1, <1>2 DEF IInv, Truthful, VerdictLast, PassingRuns, Passing, DeliveredNotFailed
<1>5. Counts'
  BY <1>1, <1>2 DEF IInv, Counts, Counted, LoadedCount, SwitchedOn, PausedInTime, Passing, May
<1> QED
  BY <1>3, <1>4, <1>5

LEMMA EnterInv ==
    ASSUME IInv, NEW r \in Runs, Enter(r)
    PROVE  Exclusive' /\ Truthful' /\ Counts'
<1>1. \A s \in Runs : /\ s # r => run'[s] = run[s]
                      /\ s = r => run[s].pc = "called" /\ run'[s].pc \in {"queued", "done"}
                      /\ run'[s].pc = "queued" => run'[s].src = run[s].src /\ run'[s].st = run[s].st
                      /\ run'[s].lock \in {0, registry, run[s].lock}
                      /\ run'[s].st \in {"none", run[s].st}
                      /\ run'[s].verdict = run[s].verdict /\ run'[s].lost = run[s].lost
  BY EnterFields DEF IInv
<1>2. UNCHANGED <<scene, row, registry, req, past>> /\ registry \in Nat
  BY DEF Enter, env, IInv, TypeOK
<1>3. run[r].src # "resume"
  BY DEF Enter, IInv, Exclusive, CalledFirst
<1>4. Exclusive'
  BY <1>1, <1>2, <1>3 DEF IInv, Exclusive, OneHolder, FirstLock, LocksGiven, NewLockWhenGone, CalledFirst,
       NothingLeft, Working, Holds
<1>5. Truthful'
  BY <1>1, <1>2 DEF IInv, Truthful, VerdictLast, PassingRuns, Passing, DeliveredNotFailed
<1>6. Counts'
  BY <1>1, <1>2 DEF IInv, Counts, Counted, LoadedCount, SwitchedOn, PausedInTime, Passing, May
<1> QED
  BY <1>4, <1>5, <1>6

LEMMA StartInv ==
    ASSUME IInv, NEW r \in Runs, Start(r)
    PROVE  Exclusive' /\ Truthful' /\ Counts'
<1>1. \A s \in Runs \ {r} : Spared(s)
  BY StartFields DEF IInv
<1>2. /\ run'[r].pc = "pass" /\ run'[r].st = "running" /\ run'[r].src = run[r].src
      /\ run'[r].lock = run[r].lock /\ run'[r].verdict = run[r].verdict
      /\ run'[r].seen.active = row.active /\ run'[r].seen.fails = row.fails
  BY StartFields DEF IInv
<1>3. UNCHANGED <<scene, row, registry, req, past>>
  BY DEF Start, env
<1>4. row.here /\ run[r].pc = "queued" /\ registry \in Nat /\ run[r].lock \in Nat
  BY DEF Start, HasLock, Refused, IInv, TypeOK, RunStates, Rows
<1>5. run[r].lock = 0
  BY <1>4 DEF IInv, Exclusive, LocksGiven, NewLockWhenGone
<1>6. \A s \in Runs : ~Holds(s)
  BY <1>5 DEF Start, HasLock, IInv, Exclusive, FirstLock, Working
<1>7. Exclusive'
  BY <1>1, <1>2, <1>3, <1>4, <1>5, <1>6 DEF Spared, IInv, Exclusive, OneHolder, FirstLock, LocksGiven,
       NewLockWhenGone, CalledFirst, NothingLeft, Working, Holds
<1>8. Truthful'
  BY <1>1, <1>2, <1>3, <1>4 DEF Spared, IInv, Truthful, VerdictLast, PassingRuns, Passing, DeliveredNotFailed
<1>9. Counts'
  BY <1>1, <1>2, <1>3, <1>6 DEF Spared, IInv, Counts, Counted, LoadedCount, SwitchedOn, PausedInTime, Passing,
       Holds, May
<1> QED
  BY <1>7, <1>8, <1>9

LEMMA OwnerInv ==
    ASSUME IInv, NEW r \in Runs, OwnerMissing(r)
    PROVE  Exclusive' /\ Truthful' /\ Counts'
<1>1. \A s \in Runs \ {r} : Spared(s)
  BY OwnerFields DEF IInv
<1>2. /\ run'[r].pc = "done" /\ run'[r].st = "failed" /\ run'[r].lock = 0
      /\ run'[r].verdict = run[r].verdict
  BY OwnerFields, OverFields DEF IInv
<1>3. UNCHANGED <<scene, row, registry, req, past>>
  BY DEF OwnerMissing, env
<1>4. row.here /\ run[r].pc = "queued" /\ registry \in Nat
  BY DEF OwnerMissing, HasLock, Refused, IInv, TypeOK, RunStates, Rows
<1>5. Exclusive'
  BY <1>1, <1>2, <1>3, <1>4 DEF Spared, IInv, Exclusive, OneHolder, FirstLock, LocksGiven,
       NewLockWhenGone, CalledFirst, NothingLeft, Working, Holds
<1>6. Truthful'
  BY <1>1, <1>2, <1>3, <1>4 DEF Spared, IInv, Truthful, VerdictLast, PassingRuns, Passing, DeliveredNotFailed
<1>7. Counts'
  BY <1>1, <1>2, <1>3 DEF Spared, IInv, Counts, Counted, LoadedCount, SwitchedOn, PausedInTime, Passing, May
<1> QED
  BY <1>5, <1>6, <1>7

LEMMA CrashInv ==
    ASSUME IInv, Crash
    PROVE  Exclusive' /\ Truthful' /\ Counts'
<1>1. \A r \in Runs : /\ run'[r].pc \in {"idle", "done"} /\ run'[r].st = run[r].st
                      /\ run'[r].verdict = run[r].verdict /\ run'[r].lost = run[r].lost
                      /\ run'[r].pc = "idle" => run[r].pc = "idle"
                      /\ run'[r].lock \in {0, run[r].lock}
  BY CrashFields DEF IInv
<1>2. UNCHANGED <<scene, row, registry, past>> /\ (\A q \in Requests : req'[q].todo = "none")
      /\ registry \in Nat
  BY DEF Crash, env, IInv, TypeOK
<1>3. Exclusive'
  BY <1>1, <1>2 DEF IInv, Exclusive, OneHolder, FirstLock, LocksGiven, NewLockWhenGone, CalledFirst,
       NothingLeft, Working, Holds
<1>4. Truthful'
  BY <1>1, <1>2 DEF IInv, Truthful, VerdictLast, PassingRuns, Passing, DeliveredNotFailed
<1>5. Counts'
  BY <1>1, <1>2 DEF IInv, Counts, Counted, LoadedCount, SwitchedOn, PausedInTime, Passing, May
<1> QED
  BY <1>3, <1>4, <1>5

\* A move that leaves the calls, the count of failures and the locks alone, and switches nothing on.
LEMMA FrameInv ==
    ASSUME IInv, UNCHANGED <<scene, registry, run, past>>,
           row'.here = row.here, row'.fails = row.fails,
           row'.active => row.active \/ May("agent"),
           \A q \in Requests : req'[q].todo = "drop" => req[q].todo = "drop"
    PROVE  Exclusive' /\ Truthful' /\ Counts'
<1>1. Exclusive'
  BY DEF IInv, Exclusive, OneHolder, FirstLock, LocksGiven, NewLockWhenGone, CalledFirst, NothingLeft,
       Working, Holds
<1>2. Truthful'
  BY DEF IInv, Truthful, VerdictLast, PassingRuns, Passing, DeliveredNotFailed
<1>3. Counts'
  BY DEF IInv, Counts, Counted, LoadedCount, SwitchedOn, PausedInTime, Passing, May
<1> QED
  BY <1>1, <1>2, <1>3

\* The end of a call, with a status that agrees with its verdict.
LEMMA EndInv ==
    ASSUME IInv, NEW r \in Runs, NEW st, run' = [run EXCEPT ![r] = Over(r, st)],
           UNCHANGED <<scene, registry, req, past>>,
           row'.here = row.here, row'.fails = row.fails, row'.active => row.active,
           ~row.here => st \in {"none", "gone"},
           st = "waiting" => run[r].verdict = "none",
           run[r].verdict \in {"success", "partial"} => st \in {run[r].verdict, "gone"} \/ run[r].lost
    PROVE  Exclusive' /\ Truthful' /\ Counts'
<1>1. /\ \A s \in Runs \ {r} : run'[s] = run[s]
      /\ run'[r].pc = "done" /\ run'[r].st = st /\ run'[r].lock = 0
      /\ run'[r].verdict = run[r].verdict /\ run'[r].lost = run[r].lost
  BY OverFields DEF IInv, TypeOK
<1>2. registry \in Nat
  BY DEF IInv, TypeOK
<1>3. Exclusive'
  BY <1>1, <1>2 DEF IInv, Exclusive, OneHolder, FirstLock, LocksGiven, NewLockWhenGone, CalledFirst,
       NothingLeft, Working, Holds
<1>4. Truthful'
  BY <1>1 DEF IInv, Truthful, VerdictLast, PassingRuns, Passing, DeliveredNotFailed
<1>5. Counts'
  BY <1>1 DEF IInv, Counts, Counted, LoadedCount, SwitchedOn, PausedInTime, Passing, May
<1> QED
  BY <1>3, <1>4, <1>5

LEMMA ProcessInv ==
    ASSUME IInv, Miss \/ Crash \/ Boot \/ Load \/ AgentToggle \/ KillSwitch
                   \/ (\E v \in Versions : Elapse(v))
    PROVE  Exclusive' /\ Truthful' /\ Counts'
<1>1. CASE Miss \/ Boot \/ (\E v \in Versions : Elapse(v))
  BY <1>1, FrameInv DEF Miss, Boot, Elapse, env
<1>2. CASE Load
  <2>1. row'.here = row.here /\ row'.fails = row.fails /\ (row'.active => row.active)
    BY <1>2 DEF Load, PausedFor, IInv, TypeOK, Rows
  <2> QED
    BY <1>2, <2>1, FrameInv DEF Load, env
<1>3. CASE AgentToggle
  <2>1. row'.here = row.here /\ row'.fails = row.fails
    BY <1>3 DEF AgentToggle, IInv, TypeOK, Rows
  <2> QED
    BY <1>3, <2>1, FrameInv DEF AgentToggle, env
<1>4. CASE KillSwitch
  BY <1>4, FrameInv DEF KillSwitch
<1>5. CASE Crash
  BY <1>5, CrashInv
<1> QED
  BY <1>1, <1>2, <1>3, <1>4, <1>5

LEMMA EndsInv ==
    ASSUME IInv, NEW r \in Runs,
           Refuse(r) \/ Suspend(r) \/ Notify(r) \/ Raise(r) \/ EndResume(r)
    PROVE  Exclusive' /\ Truthful' /\ Counts'
<1>1. /\ run[r].pc \in {"queued", "pass"} => run[r].verdict = "none"
      /\ run[r].st = "waiting" => run[r].verdict = "none"
      /\ run[r].verdict \in {"success", "partial"} => run[r].st \in {run[r].verdict, "gone"} \/ run[r].lost
  BY DEF IInv, Truthful, VerdictLast, PassingRuns, Passing, DeliveredNotFailed
<1>2. Holds(r) /\ ~row.here => run[r].st = "gone"
  BY DEF IInv, Exclusive, FirstLock, NothingLeft, Working
<1>3. CASE Refuse(r)
  BY <1>1, <1>3, EndInv DEF Refuse, HasLock, env
<1>4. CASE Suspend(r)
  BY <1>1, <1>4, EndInv DEF Suspend, Passing, env
<1>5. CASE Notify(r)
  <2>1. PICK st \in {run[r].st, Recorded(r, Rescued(r, run[r].verdict))} :
           run' = [run EXCEPT ![r] = Over(r, st)]
    BY <1>5 DEF Notify
  <2>2. Holds(r) /\ UNCHANGED <<scene, row, registry, req, past>>
    BY <1>5 DEF Notify, Holds, env
  <2> QED
    BY <1>1, <1>2, <2>1, <2>2, EndInv DEF Recorded, Rescued
<1>6. CASE Raise(r)
  <2>1. row'.here = row.here /\ row'.fails = row.fails /\ (row'.active => row.active)
    BY <1>6 DEF Raise, PausedFor, IInv, TypeOK, Rows
  <2> QED
    BY <1>1, <1>2, <1>6, <2>1, EndInv DEF Raise, Recorded, Passing, Holds, env
<1>7. CASE EndResume(r)
  <2>1. PICK st \in {"success", "partial", "failed", "waiting"} :
           run' = [run EXCEPT ![r] = Over(r, Recorded(r, st))]
    BY <1>7 DEF EndResume
  <2>2. run[r].pc = "pass" /\ Holds(r) /\ UNCHANGED <<scene, row, registry, req, past>>
    BY <1>7 DEF EndResume, Holds, env
  <2> QED
    BY <1>1, <1>2, <2>1, <2>2, EndInv DEF Recorded
<1> QED
  BY <1>3, <1>4, <1>5, <1>6, <1>7

LEMMA AnswerInv ==
    ASSUME IInv, NEW r \in Runs, Answer(r)
    PROVE  Exclusive' /\ Truthful' /\ Counts'
<1>1. Exclusive'
  BY DEF IInv, TypeOK, RunStates, Rows, ReqStates, Exclusive, OneHolder, FirstLock, LocksGiven,
       NewLockWhenGone, CalledFirst, NothingLeft, Working, Holds, Answer, env
<1>2. Truthful'
  BY DEF IInv, TypeOK, RunStates, Rows, Exclusive, FirstLock, NothingLeft, Working, Holds, Truthful,
       VerdictLast, PassingRuns, DeliveredNotFailed, Passing, Answer, env
<1>3. Counts'
  BY DEF IInv, TypeOK, RunStates, Rows, Loaded, Exclusive, OneHolder, Holds, Truthful, VerdictLast,
       Counts, Counted, LoadedCount, SwitchedOn, PausedInTime, Passing, May, Answer, env
<1> QED
  BY <1>1, <1>2, <1>3

LEMMA ResumePassInv ==
    ASSUME IInv, NEW r \in Runs, ResumePass(r)
    PROVE  Exclusive' /\ Truthful' /\ Counts'
<1>1. Exclusive'
  BY DEF IInv, TypeOK, RunStates, Rows, ReqStates, Exclusive, OneHolder, FirstLock, LocksGiven,
       NewLockWhenGone, CalledFirst, NothingLeft, Working, Holds, ResumePass, HasLock, env
<1>2. Truthful'
  BY DEF IInv, TypeOK, RunStates, Rows, Exclusive, FirstLock, NothingLeft, Working, Holds, Truthful,
       VerdictLast, PassingRuns, DeliveredNotFailed, Passing, ResumePass, HasLock, env
<1>3. Counts'
  BY DEF IInv, TypeOK, RunStates, Rows, Loaded, Exclusive, OneHolder, Holds, Truthful, VerdictLast,
       Counts, Counted, LoadedCount, SwitchedOn, PausedInTime, Passing, May, ResumePass, HasLock,
       env
<1> QED
  BY <1>1, <1>2, <1>3

LEMMA CleanOrphanInv ==
    ASSUME IInv, NEW r \in Runs, CleanOrphan(r)
    PROVE  Exclusive' /\ Truthful' /\ Counts'
<1>1. Exclusive'
  BY DEF IInv, TypeOK, RunStates, Rows, ReqStates, Exclusive, OneHolder, FirstLock, LocksGiven,
       NewLockWhenGone, CalledFirst, NothingLeft, Working, Holds, CleanOrphan, Orphan, env
<1>2. Truthful'
  BY DEF IInv, TypeOK, RunStates, Rows, Exclusive, FirstLock, NothingLeft, Working, Holds, Truthful,
       VerdictLast, PassingRuns, DeliveredNotFailed, Passing, CleanOrphan, Orphan, env
<1>3. Counts'
  BY DEF IInv, TypeOK, RunStates, Rows, Loaded, Exclusive, OneHolder, Holds, Truthful, VerdictLast,
       Counts, Counted, LoadedCount, SwitchedOn, PausedInTime, Passing, May, CleanOrphan, Orphan,
       env
<1> QED
  BY <1>1, <1>2, <1>3

\* The verdict: the count, the pause, and what the execution has become.
LEMMA VerdictInv ==
    ASSUME IInv, NEW r \in Runs, NEW o \in Verdicts, Verdict(r, o)
    PROVE  Exclusive' /\ Truthful' /\ Counts'
<1>1. /\ \A s \in Runs \ {r} : run'[s] = run[s]
      /\ run'[r].pc = "notify" /\ run'[r].st = StatusOf(o) /\ run'[r].verdict = o
      /\ run'[r].lock = run[r].lock
  BY DEF Verdict, IInv, TypeOK, RunStates
<1>2. Passing(r) /\ Holds(r) /\ row.here /\ run[r].verdict = "none" /\ r \notin past
  BY DEF Verdict, Passing, Holds, IInv, Truthful, VerdictLast, Counts, Counted
<1>3. /\ row'.here = row.here /\ row'.fails = Count(r, o)
      /\ row'.active = (row.active /\ ReasonOf(r, o) = "none")
  BY DEF Verdict, PausedFor, IInv, TypeOK, Rows
<1>4. UNCHANGED <<scene, registry, req>>
  BY DEF Verdict, env
<1>5. \A s \in Runs \ {r} : ~Holds(s)
  BY <1>2 DEF IInv, Exclusive, OneHolder
<1>6. Exclusive'
  BY <1>1, <1>2, <1>3, <1>4, <1>5 DEF IInv, Exclusive, OneHolder, FirstLock, LocksGiven,
       NewLockWhenGone, CalledFirst, NothingLeft, Working, Holds, StatusOf, Verdicts
<1>7. Truthful'
  BY <1>1, <1>4 DEF IInv, Truthful, VerdictLast, PassingRuns, Passing, DeliveredNotFailed, StatusOf, Verdicts
<1>8. Counts'
  <2>1. \A s \in Runs : ~Passing(s)'
    BY <1>1, <1>5 DEF Passing, Holds
  <2>2. IsFiniteSet(past) /\ row.fails = Cardinality(past)
    BY DEF IInv, Counts, Counted
  <2>3. CASE o = "failed"
    <3>1. past' = past \cup {r} /\ row'.fails = row.fails + 1
      BY <1>3, <2>3 DEF Verdict, Count
    <3>2. IsFiniteSet(past') /\ row'.fails = Cardinality(past')
      BY <1>2, <2>2, <3>1, FS_AddElement
    <3>3. Counted'
      BY <1>1, <1>2, <2>3, <3>1, <3>2 DEF IInv, Counts, Counted
    <3>4. ASSUME row'.active, ~May("agent") PROVE Cardinality(past') < MaxFailures
      <4>1. row.active /\ ReasonOf(r, o) = "none"
        BY <1>3, <3>4
      <4>2. CASE run[r].seen.active
        BY <2>3, <3>1, <3>2, <4>1, <4>2, FailuresAssumption DEF ReasonOf, Count, IInv, TypeOK, Rows
      <4>3. CASE ~run[r].seen.active
        <5>1. past = {}
          BY <1>2, <3>4, <4>1, <4>3 DEF IInv, Counts, SwitchedOn
        <5>2. Cardinality(past') = 1
          BY <2>2, <3>1, <3>2, <5>1, FS_EmptySet
        <5> QED
          BY <5>2, FailuresAssumption
      <4> QED
        BY <4>2, <4>3
    <3> QED
      BY <1>4, <2>1, <3>3, <3>4 DEF Counts, LoadedCount, SwitchedOn, PausedInTime, May
  <2>4. CASE o = "success"
    <3>1. past' = {} /\ row'.fails = 0
      BY <1>2, <1>3, <2>4 DEF Verdict, Count, IInv, TypeOK, RunStates, Loaded, Counts, LoadedCount
    <3> QED
      BY <2>1, <3>1, FS_EmptySet, FailuresAssumption DEF Counts, Counted, LoadedCount, SwitchedOn, PausedInTime
  <2>5. CASE o \notin {"failed", "success"}
    <3>1. past' = past /\ row'.fails = row.fails
      BY <1>3, <2>5 DEF Verdict, Count
    <3> QED
      BY <1>1, <1>2, <1>3, <1>4, <2>1, <3>1 DEF IInv, Counts, Counted, LoadedCount, SwitchedOn,
           PausedInTime, May
  <2> QED
    BY <2>3, <2>4, <2>5
<1> QED
  BY <1>6, <1>7, <1>8

LEMMA CommitFailsInv ==
    ASSUME IInv, NEW r \in Runs, NEW o \in Verdicts, CommitFails(r, o)
    PROVE  Exclusive' /\ Truthful' /\ Counts'
<1> DEFINE st == Recorded(r, Rescued(r, o))
<1>1. /\ \A s \in Runs \ {r} : run'[s] = run[s]
      /\ run'[r].pc = "done" /\ run'[r].st = st /\ run'[r].verdict = o /\ run'[r].lock = 0
  BY DEF CommitFails, Over, IInv, TypeOK, RunStates
<1>2. /\ Holds(r) /\ run[r].verdict = "none" /\ registry \in Nat
      /\ UNCHANGED <<scene, row, registry, req, past>>
  BY DEF CommitFails, Passing, Holds, env, IInv, TypeOK, Truthful, VerdictLast
<1>3. ~row.here => st = "gone"
  BY <1>2 DEF Recorded, IInv, Exclusive, FirstLock, NothingLeft, Working
<1>4. /\ st \in {"success", "partial", "failed", "gone"}
      /\ o \in {"success", "partial"} => st \in {o, "gone"}
  BY DEF Recorded, Rescued
<1>5. Exclusive'
  BY <1>1, <1>2, <1>3 DEF IInv, Exclusive, OneHolder, FirstLock, LocksGiven, NewLockWhenGone,
       CalledFirst, NothingLeft, Working, Holds
<1>6. Truthful'
  BY <1>1, <1>2, <1>3, <1>4 DEF IInv, Truthful, VerdictLast, PassingRuns, Passing, DeliveredNotFailed
<1>7. Counts'
  BY <1>1, <1>2 DEF IInv, Counts, Counted, LoadedCount, SwitchedOn, PausedInTime, Passing, May
<1> QED
  BY <1>5, <1>6, <1>7

LEMMA LoseEndInv ==
    ASSUME IInv, NEW r \in Runs, LoseEnd(r)
    PROVE  Exclusive' /\ Truthful' /\ Counts'
<1>1. PICK o \in scene.ends \cup {"none"} :
         run' = [run EXCEPT ![r] = [Over(r, run[r].st) EXCEPT !.verdict = o, !.lost = TRUE]]
  BY DEF LoseEnd
<1>2. /\ \A s \in Runs \ {r} : run'[s] = run[s]
      /\ run'[r].pc = "done" /\ run'[r].st = run[r].st /\ run'[r].lock = 0 /\ run'[r].lost
  BY <1>1 DEF Over, IInv, TypeOK, RunStates
<1>3. /\ Holds(r) /\ Passing(r) /\ registry \in Nat /\ UNCHANGED <<scene, row, registry, req, past>>
  BY DEF LoseEnd, Passing, Holds, env, IInv, TypeOK
<1>4. run[r].st # "waiting" /\ (~row.here => run[r].st = "gone")
  BY <1>3 DEF IInv, Truthful, PassingRuns, Exclusive, FirstLock, NothingLeft, Working
<1>5. Exclusive'
  BY <1>2, <1>3, <1>4 DEF IInv, Exclusive, OneHolder, FirstLock, LocksGiven, NewLockWhenGone,
       CalledFirst, NothingLeft, Working, Holds
<1>6. Truthful'
  BY <1>2, <1>4 DEF IInv, Truthful, VerdictLast, PassingRuns, Passing, DeliveredNotFailed
<1>7. run[r].verdict = "none"
  BY <1>3 DEF IInv, Truthful, VerdictLast, Passing
<1>8. Counts'
  BY <1>2, <1>3, <1>7 DEF IInv, Counts, Counted, LoadedCount, SwitchedOn, PausedInTime, Passing, May
<1> QED
  BY <1>5, <1>6, <1>8

LEMMA ToggleOnInv ==
    ASSUME IInv, NEW q \in Requests, ToggleOn(q)
    PROVE  Exclusive' /\ Truthful' /\ Counts'
<1>1. Exclusive'
  BY DEF IInv, TypeOK, RunStates, Rows, ReqStates, Exclusive, OneHolder, FirstLock, LocksGiven,
       NewLockWhenGone, CalledFirst, NothingLeft, Working, Holds, ToggleOn, Left, Alone, Spare, env
<1>2. Truthful'
  BY DEF IInv, TypeOK, RunStates, Rows, Exclusive, FirstLock, NothingLeft, Working, Holds, Truthful,
       VerdictLast, PassingRuns, DeliveredNotFailed, Passing, ToggleOn, Left, Alone, Spare, env
<1>3. Counts'
  BY FailuresAssumption, FS_EmptySet DEF IInv, TypeOK, RunStates, Rows, Loaded, Exclusive,
       OneHolder, Holds, Truthful, VerdictLast, Counts, Counted, LoadedCount, SwitchedOn,
       PausedInTime, Passing, May, ToggleOn, Left, Alone, Spare, env
<1> QED
  BY <1>1, <1>2, <1>3

LEMMA DisarmInv ==
    ASSUME IInv, NEW q \in Requests, Disarm(q)
    PROVE  Exclusive' /\ Truthful' /\ Counts'
<1>1. /\ \A s \in Runs : Spared(s)
      /\ UNCHANGED <<scene, row, registry, past>>
      /\ \A p \in Requests : req'[p].todo = "drop" => req[p].todo = "drop"
  BY DisarmFields DEF Disarm, Done, env, IInv, TypeOK, ReqStates
<1>2. Exclusive'
  BY <1>1 DEF Spared, IInv, Exclusive, OneHolder, FirstLock, LocksGiven, NewLockWhenGone, CalledFirst,
       NothingLeft, Working, Holds
<1>3. Truthful'
  BY <1>1 DEF Spared, IInv, Truthful, VerdictLast, PassingRuns, Passing, DeliveredNotFailed
<1>4. Counts'
  BY <1>1 DEF Spared, IInv, Counts, Counted, LoadedCount, SwitchedOn, PausedInTime, Passing, May
<1> QED
  BY <1>2, <1>3, <1>4

LEMMA EraseInv ==
    ASSUME IInv, NEW q \in Requests, Erase(q)
    PROVE  Exclusive' /\ Truthful' /\ Counts'
<1>1. Exclusive'
  BY DEF IInv, TypeOK, RunStates, Rows, ReqStates, Exclusive, OneHolder, FirstLock, LocksGiven,
       NewLockWhenGone, CalledFirst, NothingLeft, Working, Holds, Erase, Left, Done, env
<1>2. Truthful'
  BY DEF IInv, TypeOK, RunStates, Rows, Exclusive, FirstLock, NothingLeft, Working, Holds, Truthful,
       VerdictLast, PassingRuns, DeliveredNotFailed, Passing, Erase, Left, Done, env
<1>3. Counts'
  BY DEF IInv, TypeOK, RunStates, Rows, Loaded, Exclusive, OneHolder, Holds, Truthful, VerdictLast,
       Counts, Counted, LoadedCount, SwitchedOn, PausedInTime, Passing, May, Erase, Left, Done, env
<1> QED
  BY <1>1, <1>2, <1>3

LEMMA DropInv ==
    ASSUME IInv, NEW q \in Requests, Drop(q)
    PROVE  Exclusive' /\ Truthful' /\ Counts'
<1>1. Exclusive'
  BY DEF IInv, TypeOK, RunStates, Rows, ReqStates, Exclusive, OneHolder, FirstLock, LocksGiven,
       NewLockWhenGone, CalledFirst, NothingLeft, Working, Holds, Drop, Done, env
<1>2. Truthful'
  BY DEF IInv, TypeOK, RunStates, Rows, Exclusive, FirstLock, NothingLeft, Working, Holds, Truthful,
       VerdictLast, PassingRuns, DeliveredNotFailed, Passing, Drop, Done, env
<1>3. Counts'
  BY DEF IInv, TypeOK, RunStates, Rows, Loaded, Exclusive, OneHolder, Holds, Truthful, VerdictLast,
       Counts, Counted, LoadedCount, SwitchedOn, PausedInTime, Passing, May, Drop, Done, env
<1> QED
  BY <1>1, <1>2, <1>3

LEMMA RequestInv ==
    ASSUME IInv, NEW q \in Requests, Request(q)
    PROVE  Exclusive' /\ Truthful' /\ Counts'
<1>1. CASE ToggleOff(q) \/ Reschedule(q)
  <2>1. /\ row'.here = row.here /\ row'.fails = row.fails /\ (row'.active => row.active)
        /\ \A p \in Requests : req'[p].todo = "drop" => req[p].todo = "drop"
    BY <1>1 DEF ToggleOff, Reschedule, Left, IInv, TypeOK, Rows, ReqStates
  <2> QED
    BY <1>1, <2>1, FrameInv DEF ToggleOff, Reschedule, env
<1>2. CASE Arm(q) \/ Delete(q)
  <2>1. \A p \in Requests : req'[p].todo = "drop" => req[p].todo = "drop"
    BY <1>2 DEF Arm, Delete, Left, Done, IInv, TypeOK, ReqStates
  <2> QED
    BY <1>2, <2>1, FrameInv DEF Arm, Delete, env
<1>3. CASE ToggleOn(q) \/ Disarm(q) \/ Erase(q) \/ Drop(q)
  BY <1>3, ToggleOnInv, DisarmInv, EraseInv, DropInv
<1> QED
  BY <1>1, <1>2, <1>3 DEF Request, Finish

\* The invariant holds initially, and every step keeps it.
LEMMA InitInv == Init => IInv
<1> SUFFICES ASSUME Init PROVE IInv
  OBVIOUS
<1>1. TypeOK
  BY InitTypes
<1>2. Exclusive
  BY <1>1 DEF Init, Exclusive, OneHolder, FirstLock, LocksGiven, NewLockWhenGone, CalledFirst,
       NothingLeft, Working, Holds
<1>3. Truthful
  BY DEF Init, Truthful, VerdictLast, PassingRuns, Passing, DeliveredNotFailed
<1>4. Counts
  BY FS_EmptySet, FailuresAssumption DEF Init, Counts, Counted, LoadedCount, SwitchedOn,
       PausedInTime, Passing
<1> QED
  BY <1>1, <1>2, <1>3, <1>4 DEF IInv

LEMMA NextInv == IInv /\ [Next]_vars => IInv'
<1> SUFFICES ASSUME IInv, [Next]_vars PROVE IInv'
  OBVIOUS
<1>1. TypeOK'
  BY NextTypes DEF IInv
<1>2. CASE \E r \in Runs : RunNext(r)
  <2> PICK r \in Runs : RunNext(r)
    BY <1>2
  <2>1. scene.ends \subseteq Verdicts
    BY DEF IInv, TypeOK, AllScenes
  <2>2. CASE Fire(r) \/ (\E source \in {"webhook", "manual"} : Trigger(r, source))
    BY <1>1, <2>2, FireInv DEF IInv
  <2>3. CASE Enter(r) \/ Start(r) \/ OwnerMissing(r) \/ Answer(r) \/ ResumePass(r) \/ CleanOrphan(r)
    BY <1>1, <2>3, EnterInv, StartInv, OwnerInv, AnswerInv, ResumePassInv, CleanOrphanInv DEF IInv
  <2>4. CASE Refuse(r) \/ Suspend(r) \/ Notify(r) \/ Raise(r) \/ LoseEnd(r) \/ EndResume(r)
    BY <1>1, <2>4, EndsInv, LoseEndInv DEF IInv
  <2>5. CASE \E o \in scene.ends : Verdict(r, o) \/ CommitFails(r, o)
    BY <1>1, <2>1, <2>5, VerdictInv, CommitFailsInv DEF IInv
  <2> QED
    BY <2>2, <2>3, <2>4, <2>5 DEF RunNext, RunStep
<1>3. CASE \E q \in Requests : Request(q)
  BY <1>1, <1>3, RequestInv DEF IInv
<1>4. CASE Miss \/ Crash \/ Boot \/ Load \/ AgentToggle \/ KillSwitch \/ (\E v \in Versions : Elapse(v))
  BY <1>1, <1>4, ProcessInv DEF IInv
<1>5. CASE UNCHANGED vars
  BY <1>1, <1>5, FrameInv DEF vars, IInv
<1> QED
  BY <1>2, <1>3, <1>4, <1>5 DEF Next

-------------------------------------------------------------------------------
(* Theorems.                                                                    *)
\* The invariant holds in every state the system reaches.
LEMMA Invariance == Spec => []IInv
BY InitInv, NextInv, PTL DEF Spec

\* Every variable keeps its type.
THEOREM Types == Spec => []TypeOK
<1>1. IInv => TypeOK
  BY DEF IInv
<1> QED
  BY <1>1, Invariance, PTL

\* Runs and resumes of an automation never go over its DAG two at a time, even when its
\* deletion takes the lock out of the registry while one of them holds it.
THEOREM PassesExclude == Spec => []OnePass
<1>1. IInv => OnePass
  BY DEF IInv, Exclusive, OneHolder, Holds, OnePass
<1> QED
  BY <1>1, Invariance, PTL

\* What was delivered is never recorded as failed, the commit of the verdict failing or not,
\* except where the rescue of the verdict could not write either.
THEOREM DeliveriesKept == Spec => []DeliveredNotFailed
<1>1. IInv => DeliveredNotFailed
  BY DEF IInv, Truthful
<1> QED
  BY <1>1, Invariance, PTL

\* An automation that goes on failing is paused at the threshold.
THEOREM PausesInTime == Spec => []PausedInTime
<1>1. IInv => PausedInTime
  BY DEF IInv, Counts
<1> QED
  BY <1>1, Invariance, PTL

\* ... and not before: a pause for failures has as many failed verdicts behind it.
THEOREM PausesDeserved == Spec => PauseDeserved
<1>1. IInv /\ [Next]_vars => [Deserved]_vars
  <2> SUFFICES ASSUME IInv, [Next]_vars, row.reason # "failures", row'.reason = "failures"
               PROVE  Cardinality(past') >= MaxFailures
    BY DEF Deserved
  <2>1. PICK r \in Runs, o \in scene.ends : Verdict(r, o)
    <3>1. ASSUME NEW q \in Requests, Request(q) PROVE row'.reason # "failures"
      BY <3>1 DEF Request, Finish, ToggleOn, ToggleOff, Reschedule, Arm, Disarm, Delete, Erase, Drop,
           IInv, TypeOK, Rows, env
    <3>2. ASSUME NEW r \in Runs, RunNext(r), ~\E o \in scene.ends : Verdict(r, o)
          PROVE  row'.reason # "failures"
      BY <3>2 DEF RunNext, RunStep, Fire, Trigger, Enter, Refuse, Start, OwnerMissing, Suspend, Notify,
           Raise, LoseEnd, CommitFails, ResumePass, EndResume, Answer, CleanOrphan, PausedFor,
           IInv, TypeOK, Rows, env
    <3>3. ~(Miss \/ Crash \/ Boot \/ Load \/ AgentToggle \/ KillSwitch \/ (\E v \in Versions : Elapse(v)))
      BY DEF Miss, Crash, Boot, Load, AgentToggle, KillSwitch, Elapse, PausedFor, IInv, TypeOK, Rows, env
    <3>4. ~UNCHANGED vars
      BY DEF vars
    <3> QED
      BY <3>1, <3>2, <3>3, <3>4 DEF Next
  <2>2. o = "failed" /\ Count(r, o) >= MaxFailures
    BY <2>1 DEF Verdict, PausedFor, ReasonOf, IInv, TypeOK, Rows
  <2>3. row.fails + 1 >= MaxFailures /\ past' = past \cup {r}
    BY <2>1, <2>2 DEF Count, Verdict
  <2>4. run[r].verdict = "none"
    BY <2>1 DEF Verdict, Passing, IInv, Truthful, VerdictLast
  <2>5. r \notin past /\ IsFiniteSet(past) /\ row.fails = Cardinality(past)
    BY <2>4 DEF IInv, Counts, Counted
  <2>6. Cardinality(past') = row.fails + 1
    BY <2>3, <2>5, FS_AddElement
  <2> QED
    BY <2>3, <2>6
<1> QED
  BY <1>1, Invariance, PTL DEF Spec, PauseDeserved

-------------------------------------------------------------------------------
(* The row, the job and the requests.  While requests take turns, what one has  *)
(* left to do is about the schedule the row has now, and an active automation   *)
(* that nothing is being done to has the job of its schedule, or a single date  *)
(* that has come.                                                               *)
OnTime(v)  == job = v \/ (Once(v) /\ when[v] # "future")
Pending(q) == req[q].todo # "none"

Versioned ==
    /\ row.ver <= scene.given /\ job <= row.ver
    /\ \A q \in Requests : req[q].ver <= row.ver
    /\ ~Quiet => up = "up"
Turns == ~May("tabs") => \A p, q \in Requests : Pending(p) /\ Pending(q) => p = q
Captured ==
    \A q \in Requests : /\ req[q].todo = "arm" => req[q].ver = row.ver
                        /\ req[q].todo = "disarm" => ~row.active
                        /\ req[q].todo = "drop" => ~row.here
Settled ==
    Quiet /\ row.here /\ row.active /\ (up = "up" \/ ~May("torn")) => OnTime(row.ver)
Armed == Orderly => Captured /\ Settled
Book  == Versioned /\ Turns /\ Armed

\* A call changes nothing of the job, the dates and the requests, and of the row neither the
\* schedule nor that it is there; it never switches the automation on.
LEMMA CallsFrame ==
    ASSUME TypeOK, NEW r \in Runs,
           RunStep(r) \/ Answer(r) \/ CleanOrphan(r) \/ (\E source \in {"webhook", "manual"} : Trigger(r, source))
    PROVE  /\ UNCHANGED <<scene, up, job, when, req>>
           /\ row'.here = row.here /\ row'.ver = row.ver /\ (row'.active => row.active)
<1>1. CASE \E o \in scene.ends : Verdict(r, o)
  BY <1>1 DEF Verdict, PausedFor, TypeOK, Rows, env
<1>2. CASE Raise(r)
  BY <1>2 DEF Raise, PausedFor, TypeOK, Rows, env
<1> QED
  BY <1>1, <1>2 DEF RunStep, Trigger, Enter, Refuse, Start, OwnerMissing, Suspend, Notify, LoseEnd,
       CommitFails, ResumePass, EndResume, Answer, CleanOrphan, env

\* A single date that has come stays so, and no step changes the scene.
LEMMA DatesStay ==
    ASSUME TypeOK, [Next]_vars
    PROVE  /\ scene' = scene
           /\ \A v \in Versions : Once(v) /\ when[v] # "future" => when'[v] # "future"
<1>1. ASSUME NEW v, NEW u \in Versions, Once(u) PROVE Rewound(v)[u] = when[u]
  BY <1>1 DEF Rewound, TypeOK
<1>2. CASE \E r \in Runs : RunNext(r)
  <2> PICK r \in Runs : RunNext(r)
    BY <1>2
  <2>1. CASE Fire(r)
    BY <1>1, <2>1 DEF Fire, NextDate, env
  <2>2. CASE ~Fire(r)
    BY <2>2, CallsFrame DEF RunNext
  <2> QED
    BY <2>1, <2>2
<1>3. CASE \E q \in Requests : Request(q)
  BY <1>1, <1>3 DEF Request, Finish, ToggleOn, ToggleOff, Reschedule, Arm, Disarm, Delete, Erase, Drop, env
<1>4. CASE Miss \/ Crash \/ Boot \/ Load \/ AgentToggle \/ KillSwitch
  BY <1>1, <1>4 DEF Miss, NextDate, Crash, Boot, Load, AgentToggle, KillSwitch, env
<1>5. CASE \E v \in Versions : Elapse(v)
  BY <1>5 DEF Elapse, TypeOK, env
<1>6. CASE UNCHANGED vars
  BY <1>6 DEF vars
<1> QED
  BY <1>2, <1>3, <1>4, <1>5, <1>6 DEF Next

\* Such a step keeps the book; so does one that only brings a date nearer.
LEMMA BookFrame ==
    ASSUME TypeOK, Book, UNCHANGED <<scene, up, job, req>>,
           row'.here = row.here, row'.ver = row.ver, row'.active => row.active,
           \A v \in Versions : Once(v) /\ when[v] # "future" => when'[v] # "future"
    PROVE  Book'
BY DEF Book, Versioned, Turns, Armed, Captured, Settled, OnTime, Pending, Quiet, Orderly, May, Once, TypeOK, Rows

\* The scheduler takes the date of its job: a single one leaves the store.
LEMMA BookNextDate ==
    ASSUME TypeOK, Book, NextDate, job # 0, when[job] # "future", UNCHANGED <<scene, up, row, req>>
    PROVE  Book'
<1>1. job' <= row.ver
  BY DEF NextDate, Book, Versioned, TypeOK, Rows, Versions
<1>2. OnTime(row.ver) => OnTime(row.ver)'
  BY DEF OnTime, NextDate, Rewound, Once, TypeOK, Rows
<1> QED
  BY <1>1, <1>2 DEF Book, Versioned, Turns, Armed, Captured, Settled, OnTime, Pending, Quiet, Orderly, May

\* With nothing cut in two, the process may stop and start again.
LEMMA BookProcess ==
    ASSUME TypeOK, Book, Crash \/ Boot \/ AgentToggle \/ KillSwitch
    PROVE  Book'
<1>1. CASE Crash
  <2>1. \A q \in Requests : ~Pending(q)' /\ req'[q].ver = 1
    BY <1>1 DEF Crash, Pending, FirstVersion
  <2>2. 1 <= row.ver
    BY DEF TypeOK, Rows, Versions
  <2>3. UNCHANGED <<scene, row, job, when>> /\ up' = "down" /\ up # "down" /\ (May("torn") \/ Quiet)
    BY <1>1 DEF Crash, env
  <2>4. Versioned' /\ Turns' /\ (Orderly => Captured)'
    BY <2>1, <2>2, <2>3 DEF Book, Versioned, Turns, Captured, Pending, Quiet
  <2>5. (Orderly => Settled)'
    BY <2>3 DEF Book, Armed, Settled, OnTime, Orderly, May, Once
  <2> QED
    BY <2>4, <2>5 DEF Book, Armed
<1>2. CASE Boot
  BY <1>2 DEF Boot, Book, Versioned, Turns, Armed, Captured, Settled, OnTime, Pending, Quiet, Orderly, May, Once, env
<1>3. CASE AgentToggle
  <2>1. row'.here = row.here /\ row'.ver = row.ver
    BY <1>3 DEF AgentToggle, TypeOK, Rows
  <2>2. ~Orderly /\ ~Orderly' /\ UNCHANGED <<scene, up, job, when, req>>
    BY <1>3 DEF AgentToggle, Orderly, May, env
  <2> QED
    BY <2>1, <2>2 DEF Book, Versioned, Turns, Armed, Pending, Quiet, May
<1>4. CASE KillSwitch
  BY <1>4, BookFrame DEF KillSwitch
<1> QED
  BY <1>1, <1>2, <1>3, <1>4

LEMMA BookLoad ==
    ASSUME TypeOK, Book, Load
    PROVE  Book'
<1>1. /\ row'.here = row.here /\ row'.ver = row.ver /\ (row'.active => row.active)
      /\ UNCHANGED <<scene, req>> /\ up = "boot"
      /\ row.ver \in Nat \ {0} /\ job \in Nat /\ scene.given \in Nat
  BY DEF Load, PausedFor, TypeOK, Rows, Versions, AllScenes, env
<1>2. Quiet /\ Quiet'
  BY <1>1 DEF Book, Versioned, Quiet
<1>3. job' \in {job, row.ver}
  BY DEF Load
<1>4. Versioned' /\ Turns' /\ (Orderly => Captured)'
  BY <1>1, <1>2, <1>3 DEF Book, Versioned, Turns, Captured, Pending, Quiet, May
<1>5. ASSUME Orderly, row.here, row'.active PROVE OnTime(row.ver)'
  <2>1. row.active
    BY <1>1, <1>5
  <2>2. CASE Restores
    BY <1>1, <2>2 DEF Load, OnTime
  <2>3. CASE FiredOnce
    BY <1>5, <2>1, <2>3 DEF Load, PausedFor, TypeOK, Rows
  <2>4. CASE ~Restores /\ job # 0
    <3>1. job' = job /\ when' = when
      BY <2>4 DEF Load
    <3>2. CASE May("torn")
      BY <1>1, <1>5, <2>4, <3>1, <3>2 DEF Book, Versioned, Orderly, OnTime
    <3>3. CASE ~May("torn")
      BY <1>1, <1>2, <1>5, <2>1, <3>1, <3>3 DEF Book, Armed, Settled, OnTime, Once
    <3> QED
      BY <3>2, <3>3
  <2> QED
    BY <1>5, <2>1, <2>2, <2>3, <2>4 DEF Restores
<1> QED
  BY <1>1, <1>4, <1>5 DEF Book, Armed, Settled, Orderly, May

\* The requests: alone when they do not overlap, each leaves what it has to do, then does it.
LEMMA BookBegins ==
    ASSUME TypeOK, Book, NEW q \in Requests, ToggleOn(q) \/ ToggleOff(q) \/ Reschedule(q) \/ Delete(q)
    PROVE  Book'
<1>1. ~Pending(q) /\ up = "up" /\ (May("tabs") \/ Quiet)
  <2>1. ASSUME Spare # {} PROVE (CHOOSE p \in Spare : TRUE) \in Spare
    BY <2>1
  <2> QED
    BY <2>1 DEF ToggleOn, ToggleOff, Reschedule, Delete, Alone, Spare, Pending
<1>2. UNCHANGED <<scene, up>> /\ row'.here = row.here /\ row'.ver \in {row.ver, row.ver + 1} /\ row'.ver <= scene.given
  <2>1. row.ver <= scene.given /\ row.ver \in Nat /\ scene.given \in Nat
    BY DEF Book, Versioned, TypeOK, Rows, Versions, AllScenes
  <2>2. CASE ToggleOn(q) \/ ToggleOff(q) \/ Delete(q)
    BY <2>1, <2>2 DEF ToggleOn, ToggleOff, Delete, TypeOK, Rows, env
  <2>3. CASE Reschedule(q)
    BY <2>1, <2>3 DEF Reschedule, TypeOK, Rows, env
  <2> QED
    BY <2>2, <2>3
<1>3. /\ row.ver \in Nat /\ job \in Nat /\ scene.given \in Nat /\ job' \in {0, job}
      /\ \A p \in Requests : req[p].ver \in Nat
  BY DEF ToggleOn, ToggleOff, Reschedule, Delete, NoJob, TypeOK, Rows, ReqStates, Versions, AllScenes
<1>4. \A p \in Requests \ {q} : req'[p] = req[p]
  BY DEF ToggleOn, ToggleOff, Reschedule, Delete, Left, TypeOK
<1>5. req'[q] = req[q] \/ req'[q].ver = row'.ver
  <2>1. CASE ToggleOn(q) \/ ToggleOff(q) \/ Delete(q)
    <3>1. row'.ver = row.ver
      BY <2>1 DEF ToggleOn, ToggleOff, Delete, TypeOK, Rows
    <3>2. req'[q].ver = row.ver
      BY <2>1 DEF ToggleOn, ToggleOff, Delete, Left, TypeOK, ReqStates
    <3> QED
      BY <3>1, <3>2
  <2>2. CASE Reschedule(q)
    BY <2>2 DEF Reschedule, TypeOK, Rows, ReqStates
  <2> QED
    BY <2>1, <2>2
<1>6. Versioned'
  BY <1>1, <1>2, <1>3, <1>4, <1>5 DEF Book, Versioned, Quiet
<1>7. Turns'
  BY <1>1, <1>2, <1>4 DEF Book, Turns, Pending, Quiet, May
<1>8. ASSUME Orderly PROVE Captured' /\ Settled'
  <2>1. Quiet
    BY <1>1, <1>8 DEF Orderly, May
  <2>2. \A p \in Requests \ {q} : req'[p].todo = "none"
    BY <1>4, <2>1 DEF Quiet
  <2>3. CASE ToggleOn(q)
    BY <2>2, <2>3 DEF ToggleOn, Left, Captured, Settled, Quiet, TypeOK, Rows, ReqStates
  <2>4. CASE ToggleOff(q)
    BY <2>2, <2>4 DEF ToggleOff, Left, Captured, Settled, Quiet, TypeOK, Rows, ReqStates
  <2>5. CASE Delete(q)
    BY <2>2, <2>5 DEF Delete, Left, Captured, Settled, Quiet, TypeOK, Rows, ReqStates
  <2>6. CASE Reschedule(q) /\ row.active
    BY <2>2, <2>6 DEF Reschedule, Captured, Settled, Quiet, TypeOK, Rows, ReqStates
  <2>7. CASE Reschedule(q) /\ ~row.active
    BY <2>1, <2>7 DEF Reschedule, Captured, Settled, Quiet, TypeOK, Rows
  <2> QED
    BY <2>3, <2>4, <2>5, <2>6, <2>7
<1> QED
  BY <1>2, <1>6, <1>7, <1>8 DEF Book, Armed, Orderly, May

LEMMA BookFinishes ==
    ASSUME TypeOK, Book, NEW q \in Requests, Finish(q)
    PROVE  Book'
<1>1. /\ \A p \in Requests \ {q} : req'[p] = req[p]
      /\ Pending(q) /\ req'[q].todo \in {"none", "drop"} /\ req'[q].ver \in {1, row.ver}
  BY DEF Finish, Arm, Disarm, Erase, Drop, Left, Done, FirstVersion, Pending, TypeOK, ReqStates
<1>2. /\ row'.ver = row.ver /\ (row'.here => row.here) /\ row'.active = row.active /\ UNCHANGED <<scene, up>>
      /\ row.ver \in Nat \ {0} /\ req[q].ver \in Nat /\ job \in Nat
  BY DEF Finish, Arm, Disarm, Erase, Drop, env, TypeOK, Rows, ReqStates, Versions
<1>3. job' \in {0, job, req[q].ver}
  BY DEF Finish, Arm, Disarm, Erase, Drop, NoJob
<1>4. Versioned'
  BY <1>1, <1>2, <1>3 DEF Book, Versioned, Quiet, Pending
<1>5. Turns'
  BY <1>1, <1>2 DEF Book, Turns, Pending, May
<1>6. ASSUME Orderly PROVE Captured' /\ Settled'
  <2>1. Captured
    BY <1>6 DEF Book, Armed
  <2>2. Captured'
    <3>1. req'[q].todo = "drop" => ~row'.here
      BY DEF Finish, Arm, Disarm, Erase, Drop, Left, Done, TypeOK, Rows, ReqStates
    <3> QED
      BY <1>1, <1>2, <2>1, <3>1 DEF Captured
  <2>3. CASE Arm(q)
    <3>1. job' = row.ver
      BY <1>6, <2>1, <2>3 DEF Arm, Captured, Orderly, May
    <3> QED
      BY <1>2, <2>2, <3>1 DEF Settled, OnTime
  <2>4. CASE Disarm(q)
    BY <1>2, <2>1, <2>2, <2>4 DEF Disarm, Captured, Settled
  <2>5. CASE Erase(q)
    BY <2>2, <2>5 DEF Erase, Settled, TypeOK, Rows
  <2>6. CASE Drop(q)
    BY <1>2, <2>1, <2>2, <2>6 DEF Drop, Captured, Settled
  <2> QED
    BY <2>3, <2>4, <2>5, <2>6 DEF Finish
<1> QED
  BY <1>2, <1>4, <1>5, <1>6 DEF Book, Armed, Orderly, May

LEMMA BookNext ==
    ASSUME TypeOK, Book, [Next]_vars
    PROVE  Book'
<1>1. ASSUME NEW r \in Runs, RunNext(r) PROVE Book'
  <2>1. CASE Fire(r)
    BY <2>1, BookNextDate DEF Fire, env
  <2>2. CASE ~Fire(r)
    <3>1. RunStep(r) \/ Answer(r) \/ CleanOrphan(r) \/ (\E source \in {"webhook", "manual"} : Trigger(r, source))
      BY <1>1, <2>2 DEF RunNext
    <3> QED
      BY <3>1, CallsFrame, BookFrame, DatesStay
  <2> QED
    BY <2>1, <2>2
<1>2. ASSUME NEW q \in Requests, Request(q) PROVE Book'
  BY <1>2, BookBegins, BookFinishes DEF Request
<1>3. CASE Miss
  BY <1>3, BookNextDate DEF Miss, env
<1>4. CASE Crash \/ Boot \/ Load \/ AgentToggle \/ KillSwitch
  BY <1>4, BookProcess, BookLoad
<1>5. CASE \E v \in Versions : Elapse(v)
  BY <1>5, BookFrame, DatesStay DEF Elapse, env
<1>6. CASE UNCHANGED vars
  BY <1>6, BookFrame DEF vars
<1> QED
  BY <1>1, <1>2, <1>3, <1>4, <1>5, <1>6 DEF Next


-------------------------------------------------------------------------------
(* The calls.  What a call is the run of never changes once it is made; what a  *)
(* step makes of it is one of few moves.                                        *)
Scheduled(r) == run[r].src = "schedule"
AtTheDoor(r) == run[r].pc \in {"called", "queued"}
Ended(r)     == run[r].st \in Finished \cup {"gone"}

Follows(s) ==
    /\ run'[s].src = run[s].src /\ run'[s].first = run[s].first /\ run'[s].ver = run[s].ver
    /\ \/ run'[s].pc = run[s].pc /\ run'[s].seen = run[s].seen
       \/ Active(s) /\ run'[s].pc \in {"notify", "done"}
       \/ run[s].pc = "called" /\ run'[s].pc = "queued"
       \/ run[s].pc = "queued" /\ run'[s].pc = "pass" /\ run[s].src = "resume"

\* A call that ends, is cancelled, or is left alone.
LEMMA OverFollows ==
    ASSUME TypeOK, NEW r \in Runs, NEW st, Active(r), run' = [run EXCEPT ![r] = Over(r, st)]
    PROVE  \A s \in Runs : Follows(s)
BY DEF Over, Follows, Active, TypeOK, RunStates

LEMMA SparedFollows ==
    ASSUME NEW s \in Runs, Spared(s)
    PROVE  Follows(s)
BY DEF Spared, Follows

LEMMA SameFollows ==
    ASSUME run' = run
    PROVE  \A s \in Runs : Follows(s)
BY DEF Follows

\* Every step of a call but its start is such a move ...
LEMMA StepsFollow ==
    ASSUME TypeOK, NEW r \in Runs, RunStep(r) \/ CleanOrphan(r), ~Start(r)
    PROVE  \A s \in Runs : Follows(s)
<1>1. CASE Enter(r)
  <2>0. Active(r)
    BY <1>1 DEF Enter, Active
  <2>1. CASE run' = [run EXCEPT ![r] = Over(r, "none")]
    BY <2>0, <2>1, OverFollows
  <2>2. CASE run' = [run EXCEPT ![r].pc = "queued", ![r].lock = registry]
    BY <1>1, <2>2 DEF Enter, Follows, TypeOK, RunStates
  <2> QED
    BY <1>1, <2>1, <2>2 DEF Enter
<1>2. CASE Refuse(r) \/ Suspend(r) \/ Raise(r)
  BY <1>2, OverFollows DEF Refuse, HasLock, Suspend, Raise, Passing, Active
<1>3. CASE Notify(r) \/ EndResume(r)
  BY <1>3, OverFollows DEF Notify, EndResume, Active
<1>4. CASE OwnerMissing(r)
  <2>1. \A s \in Runs \ {r} : Follows(s)
    BY <1>4, OwnerFields, SparedFollows
  <2>2. Follows(r)
    <3>1. run'[r] = Over(r, "failed") /\ Active(r)
      BY <1>4, OwnerFields DEF OwnerMissing, HasLock, Active
    <3>2. run[r] \in RunStates
      BY DEF TypeOK
    <3> QED
      BY <3>1, <3>2 DEF Over, Follows, RunStates
  <2> QED
    BY <2>1, <2>2
<1>5. CASE \E o \in scene.ends : Verdict(r, o) \/ CommitFails(r, o)
  <2>1. PICK o \in scene.ends : Verdict(r, o) \/ CommitFails(r, o)
    BY <1>5
  <2>2. run[r] \in RunStates /\ Active(r)
    BY <2>1 DEF TypeOK, Verdict, CommitFails, Passing, Active
  <2>3. CASE Verdict(r, o)
    BY <2>2, <2>3 DEF Verdict, Follows, TypeOK, RunStates
  <2>4. CASE CommitFails(r, o)
    <3>1. /\ \A s \in Runs \ {r} : run'[s] = run[s]
          /\ run'[r].pc = "done" /\ run'[r].src = run[r].src
          /\ run'[r].first = run[r].first /\ run'[r].ver = run[r].ver
      BY <2>4 DEF CommitFails, Over, TypeOK, RunStates
    <3> QED
      BY <2>2, <3>1 DEF Follows
  <2> QED
    BY <2>1, <2>3, <2>4
<1>6. CASE ResumePass(r) \/ CleanOrphan(r)
  BY <1>6 DEF ResumePass, CleanOrphan, HasLock, Follows, TypeOK, RunStates
<1>7. CASE LoseEnd(r)
  <2>1. run[r] \in RunStates /\ Active(r)
    BY <1>7 DEF LoseEnd, Passing, Active, TypeOK
  <2>2. /\ \A s \in Runs \ {r} : run'[s] = run[s]
        /\ run'[r].pc = "done" /\ run'[r].src = run[r].src
        /\ run'[r].first = run[r].first /\ run'[r].ver = run[r].ver
    BY <1>7, <2>1 DEF LoseEnd, Over, TypeOK, RunStates
  <2> QED
    BY <2>1, <2>2 DEF Follows
<1> QED
  BY <1>1, <1>2, <1>3, <1>4, <1>5, <1>6, <1>7 DEF RunStep

\* ... and so is what a request or a stop of the process makes of every call.
LEMMA OthersFollow ==
    ASSUME TypeOK, NEW q \in Requests, Crash \/ Request(q)
    PROVE  \A s \in Runs : Follows(s)
<1>1. CASE Crash
  BY <1>1 DEF Crash, Over, Follows, Active, TypeOK, RunStates
<1>2. CASE Disarm(q)
  BY <1>2, DisarmFields, SparedFollows
<1>3. CASE Erase(q)
  BY <1>3 DEF Erase, Follows, TypeOK, RunStates
<1>4. CASE run' = run
  BY <1>4, SameFollows
<1> QED
  BY <1>1, <1>2, <1>3, <1>4 DEF Request, Finish, ToggleOn, ToggleOff, Reschedule, Arm, Delete, Drop

\* A start loads the row as it is, under a lock and with leave.
LEMMA Starting ==
    ASSUME TypeOK, NEW r \in Runs, Start(r)
    PROVE  /\ \A s \in Runs \ {r} : Follows(s)
           /\ run[r].pc = "queued" /\ run[r].src # "resume" /\ run'[r].pc = "pass"
           /\ run'[r].src = run[r].src /\ run'[r].first = run[r].first /\ run'[r].ver = run[r].ver
           /\ run'[r].seen.active = row.active /\ run'[r].seen.ver = row.ver
           /\ row.here /\ (Scheduled(r) => row.active) /\ row' = row
<1>1. \A s \in Runs \ {r} : Follows(s)
  BY StartFields, SparedFollows
<1> QED
  BY <1>1, StartFields DEF Start, HasLock, Refused, Scheduled

\* A call is made: by the scheduler, for the schedule of its job, or by a person or a hook;
\* or an execution that waits goes on.
LEMMA Calling ==
    ASSUME TypeOK, NEW r \in Runs, Fire(r) \/ (\E source \in {"webhook", "manual"} : Trigger(r, source))
    PROVE  /\ \A s \in Runs \ {r} : run'[s] = run[s]
           /\ run[r].pc = "idle" /\ run'[r].pc = "called" /\ run'[r].st = run[r].st
           /\ run'[r].first = run'[r].src /\ run'[r].src # "resume"
           /\ up # "down" /\ (May("overlap") \/ Quiet) /\ UNCHANGED <<scene, up, row, req, spent>>
           /\ run'[r].src = "schedule" => Fire(r)
           /\ Fire(r) => /\ run'[r].ver = job /\ job # 0 /\ when[job] = "due"
                         /\ \A s \in Runs : Active(s) => ~Scheduled(s)
<1>1. Comes(r) => run[r].pc = "idle" /\ (May("overlap") \/ Quiet)
  <2>1. ASSUME Idle # {} PROVE (CHOOSE s \in Idle : TRUE) \in Idle
    BY <2>1
  <2> QED
    BY <2>1 DEF Comes, Idle
<1>2. CASE Fire(r)
  BY <1>1, <1>2 DEF Fire, Scheduled, TypeOK, RunStates, env
<1>3. CASE ~Fire(r)
  BY <1>1, <1>3 DEF Trigger, TypeOK, RunStates, env
<1> QED
  BY <1>2, <1>3

LEMMA Answering ==
    ASSUME TypeOK, NEW r \in Runs, Answer(r)
    PROVE  /\ \A s \in Runs \ {r} : run'[s] = run[s]
           /\ run[r].pc = "done" /\ run'[r].pc = "queued" /\ run'[r].src = "resume"
           /\ run'[r].first = run[r].first /\ run'[r].ver = run[r].ver /\ up = "up"
           /\ UNCHANGED <<scene, up, row, req, spent>>
BY DEF Answer, TypeOK, RunStates, env


LEMMA Kinds ==
    ASSUME TypeOK, [Next]_vars
    PROVE  \/ \E r \in Runs : Fire(r) \/ (\E source \in {"webhook", "manual"} : Trigger(r, source))
           \/ \E r \in Runs : Answer(r) \/ Start(r)
           \/ \A s \in Runs : Follows(s)
<1>1. CASE \E r \in Runs : RunNext(r)
  BY <1>1, StepsFollow DEF RunNext, RunStep
<1>2. CASE \E q \in Requests : Request(q)
  BY <1>2, OthersFollow
<1>3. CASE Crash
  BY <1>3 DEF Crash, Over, Follows, Active, TypeOK, RunStates
<1>4. CASE Miss \/ Boot \/ Load \/ AgentToggle \/ KillSwitch \/ (\E v \in Versions : Elapse(v)) \/ UNCHANGED vars
  BY <1>4, SameFollows DEF Miss, Boot, Load, AgentToggle, KillSwitch, Elapse, vars
<1> QED
  BY <1>1, <1>2, <1>3, <1>4 DEF Next

\* A run of the schedule keeps that name through its suspensions, was loaded active, and is
\* of a schedule whose date, when it is a single one, has come; there is one at a time, and
\* none while the process is down.
Origins ==
    \A r \in Runs : /\ Scheduled(r) => run[r].first = "schedule"
                    /\ Passing(r) /\ Scheduled(r) => run[r].seen.active
                    /\ run[r].pc = "idle" => run[r].first = "manual"
DatesTaken ==
    \A r \in Runs : run[r].first = "schedule" /\ Once(run[r].ver) => when[run[r].ver] # "future"
OneScheduled ==
    \A r, s \in Runs : Active(r) /\ Active(s) /\ Scheduled(r) /\ Scheduled(s) => r = s
DownRests == up = "down" => Resting

LEMMA FollowsActive ==
    ASSUME NEW s \in Runs, Follows(s)
    PROVE  /\ Active(s)' => Active(s)
           /\ AtTheDoor(s)' => AtTheDoor(s)
           /\ Passing(s)' => Passing(s) /\ run'[s].seen = run[s].seen
           /\ Scheduled(s)' <=> Scheduled(s)
           /\ run'[s].pc = "idle" => run[s].pc = "idle"
BY DEF Follows, Active, AtTheDoor, Passing, Scheduled

LEMMA OriginsNext ==
    ASSUME TypeOK, Origins, [Next]_vars
    PROVE  Origins'
<1>1. CASE \E r \in Runs : Fire(r) \/ (\E source \in {"webhook", "manual"} : Trigger(r, source))
  <2> PICK r \in Runs : Fire(r) \/ (\E source \in {"webhook", "manual"} : Trigger(r, source))
    BY <1>1
  <2> QED
    BY Calling DEF Origins, Scheduled, Passing
<1>2. CASE \E r \in Runs : Answer(r)
  <2> PICK r \in Runs : Answer(r)
    BY <1>2
  <2> QED
    BY Answering DEF Origins, Scheduled, Passing
<1>3. CASE \E r \in Runs : Start(r)
  <2> PICK r \in Runs : Start(r)
    BY <1>3
  <2>1. \A s \in Runs \ {r} : Follows(s)
    BY Starting
  <2> QED
    BY <2>1, Starting, FollowsActive DEF Origins, Scheduled, Passing, Follows
<1>4. CASE \A s \in Runs : Follows(s)
  BY <1>4, FollowsActive DEF Origins, Scheduled, Passing, Follows
<1> QED
  BY <1>1, <1>2, <1>3, <1>4, Kinds

LEMMA DatesTakenNext ==
    ASSUME TypeOK, Origins, DatesTaken, [Next]_vars
    PROVE  DatesTaken'
<1>1. /\ scene' = scene
      /\ \A v \in Versions : Once(v) /\ when[v] # "future" => when'[v] # "future"
      /\ \A r \in Runs : run[r].ver \in Versions
  BY DatesStay DEF TypeOK, RunStates
<1>2. CASE \E r \in Runs : Fire(r) \/ (\E source \in {"webhook", "manual"} : Trigger(r, source))
  <2> PICK r \in Runs : Fire(r) \/ (\E source \in {"webhook", "manual"} : Trigger(r, source))
    BY <1>2
  <2>1. \A s \in Runs \ {r} : run'[s] = run[s]
    BY Calling
  <2>2. run'[r].first = "schedule" => run'[r].ver = job /\ job \in Versions /\ when[job] = "due"
    BY Calling DEF TypeOK
  <2> QED
    BY <1>1, <2>1, <2>2 DEF DatesTaken, Once
<1>3. CASE \A s \in Runs : run'[s].first = run[s].first /\ run'[s].ver = run[s].ver
  BY <1>1, <1>3 DEF DatesTaken, Once
<1>4. CASE \E r \in Runs : Answer(r) \/ Start(r)
  <2> PICK r \in Runs : Answer(r) \/ Start(r)
    BY <1>4
  <2>1. \A s \in Runs : run'[s].first = run[s].first /\ run'[s].ver = run[s].ver
    BY Answering, Starting DEF Follows
  <2> QED
    BY <1>3, <2>1
<1>5. CASE \A s \in Runs : Follows(s)
  BY <1>3, <1>5 DEF Follows
<1> QED
  BY <1>2, <1>4, <1>5, Kinds

LEMMA OneScheduledNext ==
    ASSUME TypeOK, OneScheduled, [Next]_vars
    PROVE  OneScheduled'
<1>1. CASE \E r \in Runs : Fire(r) \/ (\E source \in {"webhook", "manual"} : Trigger(r, source))
  <2> PICK r \in Runs : Fire(r) \/ (\E source \in {"webhook", "manual"} : Trigger(r, source))
    BY <1>1
  <2> QED
    BY Calling DEF OneScheduled, Scheduled, Active
<1>2. CASE \E r \in Runs : Answer(r)
  <2> PICK r \in Runs : Answer(r)
    BY <1>2
  <2> QED
    BY Answering DEF OneScheduled, Scheduled, Active
<1>3. CASE \E r \in Runs : Start(r)
  <2> PICK r \in Runs : Start(r)
    BY <1>3
  <2>1. \A s \in Runs \ {r} : Follows(s)
    BY Starting
  <2>2. Active(r) /\ (Scheduled(r)' <=> Scheduled(r))
    BY Starting DEF Active, Scheduled
  <2> QED
    BY <2>1, <2>2, FollowsActive DEF OneScheduled
<1>4. CASE \A s \in Runs : Follows(s)
  BY <1>4, FollowsActive DEF OneScheduled
<1> QED
  BY <1>1, <1>2, <1>3, <1>4, Kinds

LEMMA DownRestsNext ==
    ASSUME TypeOK, DownRests, [Next]_vars
    PROVE  DownRests'
<1>1. CASE \E r \in Runs : RunNext(r)
  <2> PICK r \in Runs : RunNext(r)
    BY <1>1
  <2>1. CASE Fire(r) \/ (\E source \in {"webhook", "manual"} : Trigger(r, source))
    BY <2>1, Calling DEF DownRests
  <2>2. CASE Answer(r)
    BY <2>2, Answering DEF DownRests
  <2>3. CASE Start(r)
    <3>1. Active(r) /\ up' = up
      BY <2>3, Starting DEF Active, Start
    <3> QED
      BY <3>1 DEF DownRests, Resting
  <2>4. CASE ~Start(r) /\ (RunStep(r) \/ CleanOrphan(r))
    <3>1. up' = up /\ \A s \in Runs : Follows(s)
      BY <2>4, CallsFrame, StepsFollow
    <3> QED
      BY <3>1, FollowsActive DEF DownRests, Resting
  <2> QED
    BY <2>1, <2>2, <2>3, <2>4 DEF RunNext
<1>2. CASE \E q \in Requests : Request(q)
  <2>1. up' = up /\ \A s \in Runs : Follows(s)
    BY <1>2, OthersFollow DEF Request, Finish, ToggleOn, ToggleOff, Reschedule, Arm, Disarm, Delete, Erase, Drop
  <2> QED
    BY <2>1, FollowsActive DEF DownRests, Resting
<1>3. CASE Crash
  BY <1>3, CrashFields DEF DownRests, Resting, Active
<1>4. CASE Miss \/ Boot \/ Load \/ AgentToggle \/ KillSwitch \/ (\E v \in Versions : Elapse(v)) \/ UNCHANGED vars
  BY <1>4 DEF Miss, Boot, Load, AgentToggle, KillSwitch, Elapse, vars, DownRests, Resting, Active
<1> QED
  BY <1>1, <1>2, <1>3, <1>4 DEF Next


-------------------------------------------------------------------------------
(* When requests wait for runs, the row a run works on is the row it loaded, no *)
(* job is left of a schedule that is running unless it is the one the row has,  *)
(* and the date of the schedule has come.                                       *)
Still == ~May("overlap") =>
    /\ \A r \in Runs : Active(r) /\ run[r].src # "resume" => Quiet
    /\ \A r \in Runs : Passing(r) => run[r].seen.ver = row.ver
NoneLeft == ~May("overlap") =>
    \A r \in Runs : Active(r) /\ Scheduled(r) /\ Once(run[r].ver) /\ job = run[r].ver => job = row.ver
DateCome == ~May("overlap") /\ Orderly =>
    \A r \in Runs : Scheduled(r) /\ row.here /\ Once(row.ver) /\ ((AtTheDoor(r) /\ row.active) \/ Passing(r))
                        => when[row.ver] # "future"

\* No run is on when a request works, nor after the process has stopped.
LEMMA Undisturbed ==
    ASSUME TypeOK, Still, ~May("overlap"), NEW q \in Requests, Request(q) \/ Crash
    PROVE  \A s \in Runs : ~(Active(s) /\ run[s].src # "resume")'
<1>1. CASE Crash
  BY <1>1, CrashFields DEF Active
<1>2. CASE Request(q)
  <2>1. \A s \in Runs : ~(Active(s) /\ run[s].src # "resume")
    <3>1. CASE Finish(q)
      BY <3>1 DEF Finish, Arm, Disarm, Erase, Drop, Quiet, Still
    <3>2. CASE ~Finish(q)
      BY <1>2, <3>2 DEF Request, ToggleOn, ToggleOff, Reschedule, Delete, Alone, Resting
    <3> QED
      BY <3>1, <3>2
  <2>2. \A s \in Runs : Follows(s)
    BY <1>2, OthersFollow
  <2> QED
    BY <2>1, <2>2, FollowsActive DEF Follows
<1> QED
  BY <1>1, <1>2

\* The other steps of the process leave the calls, the requests and the schedule of the row alone.
LEMMA ProcessFrame ==
    ASSUME TypeOK, Miss \/ Boot \/ Load \/ AgentToggle \/ KillSwitch \/ (\E v \in Versions : Elapse(v))
                     \/ UNCHANGED vars
    PROVE  /\ run' = run /\ req' = req /\ row'.ver = row.ver /\ row'.here = row.here
           /\ scene' = scene /\ job' \in {0, job, row.ver} /\ (row'.active => row.active \/ May("agent"))
BY DEF Miss, NextDate, Boot, Load, PausedFor, AgentToggle, KillSwitch, Elapse, vars, env, TypeOK, Rows

\* What a call changes of the rest.
LEMMA CallFrame ==
    ASSUME TypeOK, NEW r \in Runs, RunNext(r)
    PROVE  /\ scene' = scene /\ up' = up /\ req' = req /\ row'.ver = row.ver /\ row'.here = row.here
           /\ (row'.active => row.active) /\ job' \in {0, job}
BY CallsFrame DEF RunNext, Fire, NextDate, env

LEMMA StillNext ==
    ASSUME TypeOK, Still, [Next]_vars
    PROVE  Still'
<1>1. scene' = scene
  BY DatesStay
<1>2. SUFFICES ASSUME ~May("overlap")
               PROVE  \A r \in Runs : /\ (Active(r) /\ run[r].src # "resume" => Quiet)'
                                      /\ (Passing(r) => run[r].seen.ver = row.ver)'
  BY <1>1 DEF Still, May
<1>3. CASE \E r \in Runs : RunNext(r)
  <2> PICK r \in Runs : RunNext(r)
    BY <1>3
  <2>1. Quiet' = Quiet /\ row'.ver = row.ver
    BY CallFrame DEF Quiet
  <2>2. CASE Fire(r) \/ (\E source \in {"webhook", "manual"} : Trigger(r, source))
    BY <1>2, <2>1, <2>2, Calling DEF Still, Active, Passing
  <2>3. CASE Answer(r)
    BY <1>2, <2>1, <2>3, Answering DEF Still, Active, Passing
  <2>4. CASE Start(r)
    <3>1. Active(r) /\ run[r].src # "resume" /\ run'[r].seen.ver = row.ver
      BY <2>4, Starting DEF Active
    <3>2. \A s \in Runs \ {r} : Follows(s)
      BY <2>4, Starting
    <3> QED
      BY <1>2, <2>1, <3>1, <3>2, FollowsActive DEF Still, Follows
  <2>5. CASE ~Start(r) /\ (RunStep(r) \/ CleanOrphan(r))
    <3>1. \A s \in Runs : Follows(s)
      BY <2>5, StepsFollow
    <3> QED
      BY <1>2, <2>1, <3>1, FollowsActive DEF Still, Follows
  <2> QED
    BY <2>2, <2>3, <2>4, <2>5 DEF RunNext
<1>4. CASE Crash \/ \E q \in Requests : Request(q)
  <2>1. ASSUME NEW s \in Runs PROVE ~(Active(s) /\ run[s].src # "resume")'
    <3>1. CASE Crash
      BY <3>1, CrashFields DEF Active
    <3> QED
      BY <1>2, <1>4, <3>1, Undisturbed
  <2> QED
    BY <2>1 DEF Passing, Active
<1>5. CASE Miss \/ Boot \/ Load \/ AgentToggle \/ KillSwitch \/ (\E v \in Versions : Elapse(v)) \/ UNCHANGED vars
  BY <1>2, <1>5, ProcessFrame DEF Still, Active, Passing, Quiet
<1> QED
  BY <1>3, <1>4, <1>5 DEF Next

LEMMA NoneLeftNext ==
    ASSUME TypeOK, Still, NoneLeft, [Next]_vars
    PROVE  NoneLeft'
<1>1. scene' = scene /\ \A r \in Runs : run[r].ver \in Versions /\ run[r].ver # 0
  BY DatesStay DEF TypeOK, RunStates, Versions
<1>2. SUFFICES ASSUME ~May("overlap"),
                      NEW r \in Runs, (Active(r) /\ Scheduled(r) /\ Once(run[r].ver) /\ job = run[r].ver)'
               PROVE  (job = row.ver)'
  BY <1>1 DEF NoneLeft, May
<1>3. CASE \E s \in Runs : RunNext(s)
  <2> PICK s \in Runs : RunNext(s)
    BY <1>3
  <2>1. row'.ver = row.ver
    BY CallFrame
  <2>2. CASE Fire(s)
    <3>1. run'[s].ver = job /\ (\A t \in Runs : Active(t) => ~Scheduled(t)) /\ \A t \in Runs \ {s} : run'[t] = run[t]
      BY <2>2, Calling
    <3>2. r = s
      BY <1>2, <3>1 DEF Active, Scheduled
    <3>3. job' = IF Once(job) THEN 0 ELSE job
      BY <2>2 DEF Fire, NextDate
    <3>4. job \in Versions /\ 0 \notin Versions
      BY <2>2 DEF Fire, TypeOK, Versions
    <3> QED
      BY <1>1, <1>2, <3>1, <3>2, <3>3, <3>4 DEF Once
  <2>3. CASE ~Fire(s)
    <3>1. job' = job
      BY <2>3, CallsFrame DEF RunNext
    <3>2. Active(r) /\ Scheduled(r) /\ run'[r].ver = run[r].ver
      <4>1. CASE \E source \in {"webhook", "manual"} : Trigger(s, source)
        BY <1>2, <2>3, <4>1, Calling DEF Active, Scheduled
      <4>2. CASE Answer(s)
        BY <1>2, <4>2, Answering DEF Active, Scheduled
      <4>3. CASE Start(s)
        <5>1. Active(s) /\ (Scheduled(s)' <=> Scheduled(s)) /\ run'[s].ver = run[s].ver
          BY <4>3, Starting DEF Active, Scheduled
        <5>2. \A t \in Runs \ {s} : Follows(t)
          BY <4>3, Starting
        <5> QED
          BY <1>2, <5>1, <5>2, FollowsActive DEF Follows
      <4>4. CASE ~Start(s) /\ (RunStep(s) \/ CleanOrphan(s))
        BY <1>2, <4>4, StepsFollow, FollowsActive DEF Follows
      <4> QED
        BY <2>3, <4>1, <4>2, <4>3, <4>4 DEF RunNext
    <3> QED
      BY <1>1, <1>2, <2>1, <3>1, <3>2 DEF NoneLeft, Once
  <2> QED
    BY <2>2, <2>3
<1>4. CASE Crash
  BY <1>2, <1>4, CrashFields DEF Active
<1>5. CASE \E q \in Requests : Request(q)
  BY <1>2, <1>5, Undisturbed DEF Scheduled
<1>6. CASE Miss \/ Boot \/ Load \/ AgentToggle \/ KillSwitch \/ (\E v \in Versions : Elapse(v)) \/ UNCHANGED vars
  BY <1>1, <1>2, <1>6, ProcessFrame DEF NoneLeft, Active, Scheduled, Once
<1> QED
  BY <1>3, <1>4, <1>5, <1>6 DEF Next

\* A date whose run is under way has come: when it was fired, the row had the job of its
\* schedule, or a single date that had come.
LEMMA DateComeNext ==
    ASSUME TypeOK, Book, Still, DateCome, [Next]_vars
    PROVE  DateCome'
<1>1. /\ scene' = scene /\ row.ver \in Versions
      /\ \A v \in Versions : Once(v) /\ when[v] # "future" => when'[v] # "future"
  BY DatesStay DEF TypeOK, Rows
<1>2. SUFFICES ASSUME ~May("overlap"), Orderly, NEW r \in Runs, Scheduled(r)',
                      (row.here /\ Once(row.ver) /\ ((AtTheDoor(r) /\ row.active) \/ Passing(r)))'
               PROVE  (when[row.ver] # "future")'
  BY <1>1 DEF DateCome, May, Orderly
<1>3. CASE \E s \in Runs : RunNext(s)
  <2> PICK s \in Runs : RunNext(s)
    BY <1>3
  <2>1. row'.ver = row.ver /\ row'.here = row.here /\ (row'.active => row.active)
    BY CallFrame
  <2>2. row.here /\ Once(row.ver)
    BY <1>1, <1>2, <2>1 DEF Once
  <2>3. CASE Fire(s)
    <3>1. \A t \in Runs : Active(t) => ~Scheduled(t)
      BY <2>3, Calling
    <3>2. r = s
      BY <1>2, <2>3, <3>1, Calling DEF Active, AtTheDoor, Passing, Scheduled
    <3>3. row.active
      BY <1>2, <2>1, <2>3, <3>2, Calling DEF Passing
    <3>4. up # "down" /\ Quiet /\ job # 0 /\ when[job] = "due"
      BY <1>2, <2>3, Calling
    <3>5. OnTime(row.ver)
      <4>1. CASE up = "up" \/ ~May("torn")
        BY <1>2, <2>2, <3>3, <3>4, <4>1 DEF Book, Armed, Settled
      <4>2. CASE May("torn")
        <5>1. scene.given = 1 /\ job \in Nat \ {0} /\ row.ver \in Nat \ {0} /\ job <= row.ver /\ row.ver <= scene.given
          BY <1>2, <3>4, <4>2 DEF Orderly, Book, Versioned, TypeOK, Rows, Versions
        <5> QED
          BY <5>1 DEF OnTime
      <4> QED
        BY <4>1, <4>2
    <3> QED
      BY <1>1, <2>1, <2>2, <3>4, <3>5 DEF OnTime
  <2>4. CASE ~Fire(s)
    <3>1. Scheduled(r) /\ ((AtTheDoor(r) /\ row.active) \/ Passing(r))
      <4>1. CASE \E source \in {"webhook", "manual"} : Trigger(s, source)
        BY <1>2, <2>1, <2>4, <4>1, Calling DEF AtTheDoor, Passing, Scheduled
      <4>2. CASE Answer(s)
        BY <1>2, <2>1, <4>2, Answering DEF AtTheDoor, Passing, Scheduled
      <4>3. CASE Start(s)
        <5>1. AtTheDoor(s) /\ (Scheduled(s)' <=> Scheduled(s)) /\ (Scheduled(s) => row.active)
          BY <4>3, Starting DEF AtTheDoor, Scheduled
        <5>2. \A t \in Runs \ {s} : Follows(t)
          BY <4>3, Starting
        <5> QED
          BY <1>2, <2>1, <5>1, <5>2, FollowsActive
      <4>4. CASE ~Start(s) /\ (RunStep(s) \/ CleanOrphan(s))
        BY <1>2, <2>1, <4>4, StepsFollow, FollowsActive
      <4> QED
        BY <2>4, <4>1, <4>2, <4>3, <4>4 DEF RunNext
    <3> QED
      BY <1>1, <1>2, <2>1, <2>2, <3>1 DEF DateCome
  <2> QED
    BY <2>3, <2>4
<1>4. CASE Crash
  BY <1>2, <1>4, CrashFields DEF AtTheDoor, Passing
<1>5. CASE \E q \in Requests : Request(q)
  BY <1>2, <1>5, Undisturbed DEF Scheduled, Active, AtTheDoor, Passing
<1>6. CASE Miss \/ Boot \/ Load \/ AgentToggle \/ KillSwitch \/ (\E v \in Versions : Elapse(v)) \/ UNCHANGED vars
  BY <1>1, <1>2, <1>6, ProcessFrame DEF DateCome, AtTheDoor, Passing, Scheduled, Once, Orderly, May
<1> QED
  BY <1>3, <1>4, <1>5, <1>6 DEF Next


-------------------------------------------------------------------------------
(* What has ended stays so: a status is written only where the call has one     *)
(* that is not final, and executions go only with their automation.             *)
Fitting ==
    \A r \in Runs :
        /\ run[r].pc \in {"idle", "called"} \/ (run[r].pc = "queued" /\ run[r].src # "resume")
              => run[r].st = "none"
        /\ run[r].pc = "pass" \/ (run[r].pc = "queued" /\ run[r].src = "resume")
              => run[r].st \in {"running", "gone"}
        /\ run[r].st = "gone" => ~row.here

\* One call ends: with the status its pass gives it, or gone as it was.
LEMMA EndFits ==
    ASSUME TypeOK, Fitting, NEW r \in Runs, NEW st, row'.here = row.here,
           \A s \in Runs \ {r} : run'[s] = run[s],
           run'[r].pc \in {"done", "notify"}, run'[r].st = st,
           st = "gone" => run[r].st = "gone",
           Ended(r) => st \in Finished \cup {"gone"}
    PROVE  Fitting' /\ \A s \in Runs : Ended(s) => Ended(s)'
BY DEF Fitting, Ended

LEMMA RunFits ==
    ASSUME TypeOK, Exclusive, Fitting, NEW r \in Runs, RunStep(r)
    PROVE  Fitting' /\ \A s \in Runs : Ended(s) => Ended(s)'
<1>1. row'.here = row.here
  BY CallsFrame
<1>2. ASSUME NEW st, run' = [run EXCEPT ![r] = Over(r, st)] \/ (\E o : run' = [run EXCEPT ![r] = [Over(r, st) EXCEPT !.verdict = o]])
      PROVE  (\A s \in Runs \ {r} : run'[s] = run[s]) /\ run'[r].pc = "done" /\ run'[r].st = st
  BY <1>2 DEF Over, TypeOK, RunStates
<1>3. run[r].st = "gone" => ~row.here
  BY DEF Fitting
<1>4. CASE Enter(r)
  <2>1. run[r].st = "none" /\ run[r].pc = "called" /\ run[r].src # "resume"
    BY <1>4 DEF Enter, Fitting, Exclusive, CalledFirst
  <2>2. CASE run' = [run EXCEPT ![r] = Over(r, "none")]
    BY <1>1, <1>2, <2>1, <2>2, EndFits DEF Ended, Finished
  <2>3. CASE run' = [run EXCEPT ![r].pc = "queued", ![r].lock = registry]
    <3>1. run'[r].pc = "queued" /\ run'[r].src = run[r].src /\ run'[r].st = "none"
          /\ \A s \in Runs \ {r} : run'[s] = run[s]
      BY <2>1, <2>3 DEF TypeOK, RunStates
    <3> QED
      BY <1>1, <2>1, <2>3, <3>1 DEF Fitting, Ended, Finished
  <2> QED
    BY <1>4, <2>1, <2>2, <2>3 DEF Enter
<1>5. CASE Refuse(r)
  <2>1. run[r].st = "none"
    BY <1>5 DEF Refuse, HasLock, Fitting
  <2> QED
    BY <1>1, <1>2, <1>5, <2>1, EndFits DEF Refuse, Ended, Finished
<1>6. CASE Start(r)
  <2>1. run[r].st = "none"
    BY <1>6, Starting DEF Fitting
  <2>2. run'[r].pc = "pass" /\ run'[r].st = "running" /\ row.here
    BY <1>6, StartFields, Starting
  <2>3. \A s \in Runs \ {r} : /\ run'[s].pc = run[s].pc /\ run'[s].src = run[s].src
                              /\ run'[s].st = run[s].st \/ (run[s].st = "waiting" /\ run'[s].st = "cancelled")
    BY <1>6, StartFields DEF Spared
  <2> QED
    BY <1>1, <2>1, <2>2, <2>3 DEF Fitting, Ended, Finished
<1>7. CASE OwnerMissing(r)
  <2>1. run[r].st = "none" /\ run'[r].pc = "done" /\ run'[r].st = "failed"
    <3>1. run'[r] = Over(r, "failed")
      BY <1>7, OwnerFields
    <3>2. run[r].st = "none"
      BY <1>7 DEF OwnerMissing, HasLock, Fitting
    <3> QED
      BY <3>1, <3>2, OverFields
  <2>2. \A s \in Runs \ {r} : /\ run'[s].pc = run[s].pc /\ run'[s].src = run[s].src
                              /\ run'[s].st = run[s].st \/ (run[s].st = "waiting" /\ run'[s].st = "cancelled")
    BY <1>7, OwnerFields DEF Spared
  <2> QED
    BY <1>1, <2>1, <2>2 DEF Fitting, Ended, Finished
<1>8. CASE Suspend(r) \/ Raise(r)
  <2>1. run[r].st \in {"running", "gone"}
    BY <1>8 DEF Suspend, Raise, Passing, Fitting
  <2>2. PICK st : /\ run' = [run EXCEPT ![r] = Over(r, st)] /\ (st = "gone" => run[r].st = "gone")
                  /\ (run[r].st = "gone" => st = "gone")
    BY <1>3, <1>8, <2>1 DEF Suspend, Raise, Recorded
  <2>3. /\ \A s \in Runs \ {r} : run'[s] = run[s]
        /\ run'[r].pc = "done" /\ run'[r].st = st
    BY <1>2, <2>2
  <2>4. Ended(r) => st \in Finished \cup {"gone"}
    BY <2>1, <2>2 DEF Ended, Finished
  <2> QED
    BY <1>1, <2>2, <2>3, <2>4, EndFits
<1>9. CASE EndResume(r)
  <2>1. run[r].st \in {"running", "gone"}
    BY <1>9 DEF EndResume, Fitting
  <2>2. PICK st : /\ run' = [run EXCEPT ![r] = Over(r, st)] /\ (st = "gone" => run[r].st = "gone")
                  /\ (run[r].st = "gone" => st = "gone")
    BY <1>9 DEF EndResume, Recorded
  <2>3. /\ \A s \in Runs \ {r} : run'[s] = run[s]
        /\ run'[r].pc = "done" /\ run'[r].st = st
    BY <1>2, <2>2
  <2>4. Ended(r) => st \in Finished \cup {"gone"}
    BY <2>1, <2>2 DEF Ended, Finished
  <2> QED
    BY <1>1, <2>2, <2>3, <2>4, EndFits
<1>10. CASE Notify(r)
  <2>1. PICK st : /\ run' = [run EXCEPT ![r] = Over(r, st)] /\ (st = "gone" => run[r].st = "gone")
                  /\ st = run[r].st \/ st \in Finished \cup {"gone"}
    BY <1>10 DEF Notify, Recorded, Rescued, Finished
  <2> QED
    BY <1>1, <1>2, <2>1, EndFits DEF Ended, Finished
<1>11. CASE \E o \in scene.ends : Verdict(r, o)
  <2>1. PICK o \in scene.ends : Verdict(r, o)
    BY <1>11
  <2>2. o \in Verdicts
    BY DEF TypeOK, AllScenes
  <2>3. /\ \A s \in Runs \ {r} : run'[s] = run[s]
        /\ run'[r].pc = "notify" /\ run'[r].st = StatusOf(o)
    BY <2>1 DEF Verdict, TypeOK, RunStates
  <2>4. StatusOf(o) \in Finished
    BY <2>2 DEF StatusOf, Verdicts, Finished
  <2> QED
    BY <1>1, <2>3, <2>4, EndFits DEF Finished
<1>12. CASE \E o \in scene.ends : CommitFails(r, o)
  <2>1. PICK o \in scene.ends : CommitFails(r, o)
    BY <1>12
  <2> DEFINE st == Recorded(r, Rescued(r, o))
  <2>2. st = "gone" \/ st \in Finished
    BY DEF Recorded, Rescued, Finished
  <2>3. st = "gone" => run[r].st = "gone"
    BY DEF Recorded, Rescued
  <2>4. /\ \A s \in Runs \ {r} : run'[s] = run[s]
        /\ run'[r].pc = "done" /\ run'[r].st = st
    BY <2>1, <1>2 DEF CommitFails
  <2> QED
    BY <1>1, <2>2, <2>3, <2>4, EndFits
<1>13. CASE ResumePass(r)
  <2>1. run[r].pc = "queued" /\ run[r].src = "resume" /\ \A s \in Runs : run'[s].st = run[s].st /\ run'[s].src = run[s].src
        /\ (s # r => run'[s].pc = run[s].pc) /\ (s = r => run'[s].pc = "pass")
    BY <1>13 DEF ResumePass, HasLock, TypeOK, RunStates
  <2> QED
    BY <1>1, <2>1 DEF Fitting, Ended
<1>14. CASE LoseEnd(r)
  <2>1. run[r].st \in {"running", "gone"} /\ run[r] \in RunStates
    BY <1>14 DEF LoseEnd, Passing, Fitting, TypeOK
  <2>2. /\ \A s \in Runs \ {r} : run'[s] = run[s]
        /\ run'[r].pc = "done" /\ run'[r].st = run[r].st
    BY <1>14, <2>1 DEF LoseEnd, Over, TypeOK, RunStates
  <2> QED
    BY <1>1, <2>1, <2>2, EndFits DEF Ended, Finished
<1> QED
  BY <1>4, <1>5, <1>6, <1>7, <1>8, <1>9, <1>10, <1>11, <1>12, <1>13, <1>14
     DEF RunStep

LEMMA FittingNext ==
    ASSUME TypeOK, Exclusive, Fitting, [Next]_vars
    PROVE  Fitting' /\ \A s \in Runs : Ended(s) => Ended(s)'
<1>1. CASE \E r \in Runs : RunNext(r)
  <2> PICK r \in Runs : RunNext(r)
    BY <1>1
  <2>1. row'.here = row.here
    BY CallFrame
  <2>2. CASE RunStep(r)
    BY <2>2, RunFits
  <2>3. CASE Fire(r) \/ (\E source \in {"webhook", "manual"} : Trigger(r, source))
    BY <2>1, <2>3, Calling DEF Fitting, Ended, Finished
  <2>4. CASE Answer(r)
    <3>1. run[r].st = "waiting" /\ run'[r].st = "running"
      BY <2>4 DEF Answer, TypeOK, RunStates
    <3> QED
      BY <2>1, <2>4, <3>1, Answering DEF Fitting, Ended, Finished
  <2>5. CASE CleanOrphan(r)
    <3>1. /\ \A s \in Runs \ {r} : run'[s] = run[s]
          /\ run[r].st = "running" /\ run'[r].pc = "done" /\ run'[r].st = "failed"
      BY <2>5 DEF CleanOrphan, Orphan, TypeOK, RunStates
    <3> QED
      BY <2>1, <3>1, EndFits DEF Ended, Finished
  <2> QED
    BY <2>2, <2>3, <2>4, <2>5 DEF RunNext
<1>2. CASE \E q \in Requests : Request(q)
  <2> PICK q \in Requests : Request(q)
    BY <1>2
  <2>1. CASE Disarm(q)
    <3>1. \A s \in Runs : /\ run'[s].pc = run[s].pc /\ run'[s].src = run[s].src
                          /\ run'[s].st = run[s].st \/ (run[s].st = "waiting" /\ run'[s].st = "cancelled")
      BY <2>1, DisarmFields DEF Spared
    <3> QED
      BY <2>1, <3>1 DEF Disarm, Fitting, Ended, Finished
  <2>2. CASE Erase(q)
    <3>1. \A s \in Runs : /\ run'[s].pc = run[s].pc /\ run'[s].src = run[s].src
                          /\ run'[s].st = IF run[s].st = "none" THEN "none" ELSE "gone"
      BY <2>2 DEF Erase, TypeOK, RunStates
    <3>2. ~row'.here
      BY <2>2 DEF Erase, TypeOK, Rows
    <3> QED
      BY <3>1, <3>2 DEF Fitting, Ended, Finished
  <2>3. CASE ~Disarm(q) /\ ~Erase(q)
    <3>1. run' = run /\ row'.here = row.here
      BY <2>3 DEF Request, Finish, ToggleOn, ToggleOff, Reschedule, Arm, Delete, Drop, TypeOK, Rows
    <3> QED
      BY <3>1 DEF Fitting, Ended
  <2> QED
    BY <2>1, <2>2, <2>3
<1>3. CASE Crash
  <2>1. row' = row
    BY <1>3 DEF Crash
  <2> QED
    BY <1>3, <2>1, CrashFields DEF Fitting, Ended
<1>4. CASE Miss \/ Boot \/ Load \/ AgentToggle \/ KillSwitch \/ (\E v \in Versions : Elapse(v)) \/ UNCHANGED vars
  BY <1>4, ProcessFrame DEF Fitting, Ended
<1> QED
  BY <1>1, <1>2, <1>3, <1>4 DEF Next


-------------------------------------------------------------------------------
(* Single dates that have been run.  Each has an execution that ended; no job   *)
(* of it is left while the automation is on, but one a request is about to      *)
(* renew; and no call for it is on its way.                                     *)
SpentRan == Steady => \A v \in spent : Once(v) => \E r \in ScheduledRuns(v) : Ended(r)
SpentOff == Steady =>
    (row.here /\ row.active /\ job \in spent /\ Once(job) => \E q \in Requests : req[q].todo = "arm")
SpentOut == Steady =>
    \A r \in Runs : row.here /\ row.active /\ AtTheDoor(r) /\ Scheduled(r) /\ Once(run[r].ver)
                        => run[r].ver \notin spent

Calls == Origins /\ DatesTaken /\ OneScheduled /\ DownRests /\ Still /\ NoneLeft /\ Fitting
Spent == SpentRan /\ SpentOff /\ SpentOut

\* Steady scenes have none of the hazards that would break this, and stay so.
LEMMA SteadyScene ==
    ASSUME TypeOK, [Next]_vars
    PROVE  /\ Steady' <=> Steady
           /\ Steady => ~May("overlap") /\ ~May("agent") /\ ~May("jobstore") /\ ~May("torn")
BY DatesStay DEF Steady, May

\* An execution that has ended stays the one it was.
LEMMA RanStays ==
    ASSUME TypeOK, Exclusive, Origins, Fitting, [Next]_vars,
           NEW r \in Runs, run[r].first = "schedule", Ended(r)
    PROVE  run'[r].first = "schedule" /\ run'[r].ver = run[r].ver /\ Ended(r)'
<1>1. Ended(r)'
  BY FittingNext
<1>2. CASE \E s \in Runs : Fire(s) \/ (\E source \in {"webhook", "manual"} : Trigger(s, source))
  <2> PICK s \in Runs : Fire(s) \/ (\E source \in {"webhook", "manual"} : Trigger(s, source))
    BY <1>2
  <2>1. run[s].pc = "idle" /\ \A t \in Runs \ {s} : run'[t] = run[t]
    BY Calling
  <2>2. r # s
    BY <2>1 DEF Origins
  <2> QED
    BY <1>1, <2>1, <2>2
<1>3. CASE \E s \in Runs : Answer(s) \/ Start(s)
  <2> PICK s \in Runs : Answer(s) \/ Start(s)
    BY <1>3
  <2> QED
    BY <1>1, Answering, Starting DEF Follows
<1>4. CASE \A s \in Runs : Follows(s)
  BY <1>1, <1>4 DEF Follows
<1> QED
  BY <1>2, <1>3, <1>4, Kinds

\* Dates are used up by verdicts of scheduled runs and by boots, and by nothing else.
LEMMA UsedUp ==
    ASSUME [Next]_vars
    PROVE  \/ spent' \subseteq spent
           \/ Boot
           \/ \E r \in Runs, o \in scene.ends : /\ Verdict(r, o) /\ Scheduled(r)
                                                /\ spent' = spent \cup {run[r].ver}
<1>1. ASSUME NEW r \in Runs, RunNext(r), ~\E o \in scene.ends : Verdict(r, o) PROVE spent' = spent
  BY <1>1 DEF RunNext, RunStep, Fire, Trigger, Enter, Refuse, Start, OwnerMissing, Suspend, Notify,
       Raise, LoseEnd, CommitFails, ResumePass, EndResume, Answer, CleanOrphan
<1>2. ASSUME NEW r \in Runs, NEW o \in scene.ends, Verdict(r, o)
      PROVE  spent' = spent \/ (Scheduled(r) /\ spent' = spent \cup {run[r].ver})
  BY <1>2 DEF Verdict, Scheduled
<1>3. ASSUME NEW q \in Requests, Request(q) PROVE spent' \subseteq spent
  BY <1>3 DEF Request, Finish, ToggleOn, ToggleOff, Reschedule, Arm, Disarm, Delete, Erase, Drop
<1>4. CASE Miss \/ Crash \/ Load \/ AgentToggle \/ KillSwitch \/ (\E v \in Versions : Elapse(v)) \/ UNCHANGED vars
  BY <1>4 DEF Miss, Crash, Load, AgentToggle, KillSwitch, Elapse, vars
<1> QED
  BY <1>1, <1>2, <1>3, <1>4 DEF Next

LEMMA SpentRanNext ==
    ASSUME TypeOK, Exclusive, Origins, Fitting, SpentRan, [Next]_vars
    PROVE  SpentRan'
<1>1. scene' = scene /\ (Steady' <=> Steady)
  BY DatesStay, SteadyScene
<1>2. SUFFICES ASSUME Steady, NEW v \in spent', Once(v)
               PROVE  \E r \in Runs : run'[r].first = "schedule" /\ run'[r].ver = v /\ Ended(r)'
  BY <1>1 DEF SpentRan, Once, ScheduledRuns
<1>3. ASSUME NEW r \in Runs, run[r].first = "schedule", run[r].ver = v, Ended(r)
      PROVE  run'[r].first = "schedule" /\ run'[r].ver = v /\ Ended(r)'
  BY <1>3, RanStays
<1>4. CASE v \in spent
  BY <1>2, <1>3, <1>4 DEF SpentRan, ScheduledRuns
<1>5. CASE Boot /\ v \notin spent
  <2>1. PICK r \in ScheduledRuns(v) : run[r].st \in Finished
    BY <1>2, <1>5 DEF Boot
  <2> QED
    BY <1>3, <2>1 DEF ScheduledRuns, Ended
<1>6. CASE \E r \in Runs, o \in scene.ends : Verdict(r, o) /\ Scheduled(r) /\ v = run[r].ver
  <2> PICK r \in Runs, o \in scene.ends : Verdict(r, o) /\ Scheduled(r) /\ v = run[r].ver
    BY <1>6
  <2>1. o \in Verdicts
    BY DEF TypeOK, AllScenes
  <2>2. run'[r].st = StatusOf(o) /\ run'[r].first = run[r].first /\ run'[r].ver = run[r].ver
    BY DEF Verdict, TypeOK, RunStates
  <2>3. run'[r].st \in Finished
    BY <2>1, <2>2 DEF StatusOf, Verdicts, Finished
  <2> QED
    BY <2>2, <2>3 DEF Origins, Ended
<1> QED
  BY <1>4, <1>5, <1>6, UsedUp

\* A verdict that uses a date up switches the automation off, unless its schedule is another.
LEMMA VerdictPauses ==
    ASSUME TypeOK, Calls, ~May("overlap"), NEW r \in Runs, NEW o, Verdict(r, o),
           Scheduled(r), Once(run[r].ver), job = run[r].ver
    PROVE  ~row'.active
<1>1. Passing(r) /\ Active(r)
  BY DEF Verdict, Passing, Active
<1>2. job = row.ver /\ run[r].seen.ver = row.ver /\ run[r].seen.active
  BY <1>1 DEF Calls, NoneLeft, Still, Origins
<1>3. ReasonOf(r, o) # "none"
  BY <1>2 DEF ReasonOf, Scheduled
<1> QED
  BY <1>3 DEF Verdict, PausedFor, TypeOK, Rows

LEMMA SpentOffNext ==
    ASSUME TypeOK, Calls, SpentRan, SpentOff, [Next]_vars
    PROVE  SpentOff'
<1>1. /\ scene' = scene /\ (Steady' <=> Steady) /\ spent \subseteq Versions /\ 0 \notin Versions
      /\ Steady => ~May("overlap") /\ ~May("agent") /\ ~May("jobstore") /\ ~May("torn")
  BY DatesStay, SteadyScene DEF TypeOK, Versions
<1>2. SUFFICES ASSUME Steady, row'.here, row'.active, job' \in spent', Once(job')
               PROVE  \E q \in Requests : req'[q].todo = "arm"
  BY <1>1 DEF SpentOff, Once
<1>3. ASSUME NextDate, spent' = spent PROVE FALSE
  BY <1>1, <1>2, <1>3 DEF NextDate, Once
<1>4. CASE \E r \in Runs : RunNext(r)
  <2> PICK r \in Runs : RunNext(r)
    BY <1>4
  <2>1. req' = req /\ row.here /\ row.active
    BY <1>2, CallFrame
  <2>2. CASE Fire(r)
    BY <1>3, <2>2 DEF Fire
  <2>3. CASE ~Fire(r)
    <3>1. job' = job
      BY <2>3, CallsFrame DEF RunNext
    <3>2. CASE \E o \in scene.ends : Verdict(r, o)
      <4> PICK o \in scene.ends : Verdict(r, o)
        BY <3>2
      <4>1. ~(Scheduled(r) /\ job = run[r].ver)
        BY <1>1, <1>2, <3>1, VerdictPauses DEF Once
      <4>2. job \in spent
        BY <1>2, <3>1, <4>1 DEF Verdict, Scheduled
      <4> QED
        BY <1>1, <1>2, <2>1, <3>1, <4>2 DEF SpentOff, Once
    <3>3. CASE ~\E o \in scene.ends : Verdict(r, o)
      <4>1. spent' = spent
        BY <2>3, <3>3 DEF RunNext, RunStep, Trigger, Enter, Refuse, Start, OwnerMissing, Suspend, Notify,
             Raise, LoseEnd, CommitFails, ResumePass, EndResume, Answer, CleanOrphan
      <4> QED
        BY <1>1, <1>2, <2>1, <3>1, <4>1 DEF SpentOff, Once
    <3> QED
      BY <3>2, <3>3
  <2> QED
    BY <2>2, <2>3
<1>5. CASE \E q \in Requests : Request(q)
  <2> PICK q \in Requests : Request(q)
    BY <1>5
  <2>1. CASE ToggleOn(q)
    BY <2>1 DEF ToggleOn, Left, TypeOK, ReqStates
  <2>2. CASE ToggleOff(q)
    BY <1>2, <2>2 DEF ToggleOff, TypeOK, Rows
  <2>3. CASE Reschedule(q)
    BY <1>2, <2>3 DEF Reschedule, TypeOK, Rows, ReqStates
  <2>4. CASE Delete(q) \/ Disarm(q)
    BY <1>1, <1>2, <2>4 DEF Delete, Disarm, NoJob
  <2>5. CASE Arm(q)
    BY <1>1, <1>2, <2>5 DEF Arm
  <2>6. CASE Erase(q)
    BY <1>2, <2>6 DEF Erase, TypeOK, Rows
  <2>7. CASE Drop(q)
    <3>1. PICK p \in Requests : req[p].todo = "arm"
      BY <1>1, <1>2, <2>7 DEF Drop, SpentOff, Once
    <3>2. req'[p] = req[p]
      BY <2>7, <3>1 DEF Drop, Done, TypeOK
    <3> QED
      BY <3>1, <3>2
  <2> QED
    BY <2>1, <2>2, <2>3, <2>4, <2>5, <2>6, <2>7 DEF Request, Finish
<1>6. CASE Miss
  BY <1>3, <1>6 DEF Miss
<1>7. CASE Crash
  BY <1>1, <1>2, <1>7 DEF Crash, SpentOff, Quiet, Once
<1>8. CASE Boot
  BY <1>1, <1>2, <1>8 DEF Boot, SpentOff, Once
<1>9. CASE Load
  <2>1. row.here /\ row.active /\ spent' = spent /\ req' = req
    BY <1>2, <1>9 DEF Load, PausedFor, TypeOK, Rows
  <2>2. CASE Restores
    <3>1. job' = row.ver /\ row.ver \in spent /\ Once(row.ver)
      BY <1>1, <1>2, <1>9, <2>1, <2>2 DEF Load, Once
    <3>2. PICK r \in ScheduledRuns(row.ver) : Ended(r)
      BY <1>2, <3>1 DEF SpentRan
    <3>3. run[r].st \in Finished /\ when[row.ver] # "future"
      BY <2>1, <3>1, <3>2 DEF Calls, Fitting, DatesTaken, Ended, ScheduledRuns
    <3>4. FiredOnce
      BY <3>1, <3>2, <3>3 DEF FiredOnce, ScheduledRuns
    <3> QED
      BY <2>2, <3>4 DEF Restores
  <2>3. CASE ~Restores
    BY <1>1, <1>2, <1>9, <2>1, <2>3 DEF Load, SpentOff, Once
  <2> QED
    BY <2>2, <2>3
<1>10. CASE AgentToggle
  BY <1>1, <1>2, <1>10 DEF AgentToggle
<1>11. CASE KillSwitch \/ (\E v \in Versions : Elapse(v)) \/ UNCHANGED vars
  BY <1>1, <1>2, <1>11 DEF KillSwitch, Elapse, vars, SpentOff, Once
<1> QED
  BY <1>4, <1>5, <1>6, <1>7, <1>8, <1>9, <1>10, <1>11 DEF Next

LEMMA SpentOutNext ==
    ASSUME TypeOK, Calls, SpentOff, SpentOut, [Next]_vars
    PROVE  SpentOut'
<1>1. /\ scene' = scene /\ (Steady' <=> Steady)
      /\ Steady => ~May("overlap") /\ ~May("agent")
  BY DatesStay, SteadyScene
<1>2. SUFFICES ASSUME Steady, NEW r \in Runs,
                      (row.here /\ row.active /\ AtTheDoor(r) /\ Scheduled(r) /\ Once(run[r].ver))'
               PROVE  run'[r].ver \notin spent'
  BY <1>1 DEF SpentOut
<1>3. CASE \E s \in Runs : RunNext(s)
  <2> PICK s \in Runs : RunNext(s)
    BY <1>3
  <2>1. row.here /\ row.active /\ req' = req
    BY <1>2, CallFrame
  <2>2. CASE Fire(s)
    <3>1. \A t \in Runs : Active(t) => ~Scheduled(t)
      BY <2>2, Calling
    <3>2. r = s
      BY <1>2, <2>2, <3>1, Calling DEF Active, AtTheDoor, Scheduled
    <3>3. run'[r].ver = job /\ spent' = spent /\ Quiet
      BY <1>1, <1>2, <2>2, <3>2, Calling
    <3> QED
      BY <1>1, <1>2, <2>1, <3>3 DEF SpentOff, Quiet, Once
  <2>3. CASE ~Fire(s)
    <3>1. /\ AtTheDoor(r) /\ Scheduled(r) /\ run'[r].ver = run[r].ver
          /\ spent' = spent \/ (Scheduled(s) /\ Passing(s) /\ spent' = spent \cup {run[s].ver})
      <4>1. CASE \E source \in {"webhook", "manual"} : Trigger(s, source)
        BY <1>2, <2>3, <4>1, Calling DEF AtTheDoor, Scheduled
      <4>2. CASE Answer(s)
        BY <1>2, <4>2, Answering DEF AtTheDoor, Scheduled
      <4>3. CASE Start(s)
        <5>1. \A t \in Runs \ {s} : Follows(t)
          BY <4>3, Starting
        <5>2. r # s /\ spent' = spent
          BY <1>2, <4>3, Starting DEF AtTheDoor, Start
        <5> QED
          BY <1>2, <5>1, <5>2, FollowsActive DEF Follows
      <4>4. CASE ~Start(s) /\ (RunStep(s) \/ CleanOrphan(s))
        <5>1. Follows(r)
          BY <4>4, StepsFollow
        <5>2. spent' = spent \/ (Scheduled(s) /\ Passing(s) /\ spent' = spent \cup {run[s].ver})
          BY <4>4 DEF RunStep, Enter, Refuse, OwnerMissing, Suspend, Notify, Raise, LoseEnd, Verdict,
               CommitFails, ResumePass, EndResume, CleanOrphan, Scheduled
        <5> QED
          BY <1>2, <5>1, <5>2, FollowsActive DEF Follows
      <4> QED
        BY <2>3, <4>1, <4>2, <4>3, <4>4 DEF RunNext
    <3>2. run[r].ver \notin spent
      BY <1>1, <1>2, <2>1, <3>1 DEF SpentOut, Once
    <3>3. ~(Scheduled(s) /\ Passing(s))
      BY <3>1 DEF Calls, OneScheduled, AtTheDoor, Passing, Active
    <3> QED
      BY <3>1, <3>2, <3>3
  <2> QED
    BY <2>2, <2>3
<1>4. CASE \E q \in Requests : Request(q)
  BY <1>1, <1>2, <1>4, Undisturbed DEF Calls, AtTheDoor, Active, Scheduled
<1>5. CASE Crash
  BY <1>2, <1>5, CrashFields DEF AtTheDoor
<1>6. CASE Boot
  BY <1>2, <1>6 DEF Boot, Calls, DownRests, Resting, AtTheDoor, Active
<1>7. CASE Miss \/ Load \/ AgentToggle \/ KillSwitch \/ (\E v \in Versions : Elapse(v)) \/ UNCHANGED vars
  <2>1. spent' = spent
    BY <1>7 DEF Miss, Load, AgentToggle, KillSwitch, Elapse, vars
  <2> QED
    BY <1>1, <1>2, <1>7, <2>1, ProcessFrame DEF SpentOut, AtTheDoor, Scheduled, Once
<1> QED
  BY <1>3, <1>4, <1>5, <1>6, <1>7 DEF Next

-------------------------------------------------------------------------------
LInv == IInv /\ Book /\ Calls /\ DateCome /\ Spent

LEMMA InitLife == Init => LInv
<1> SUFFICES ASSUME Init PROVE LInv
  OBVIOUS
<1>1. IInv
  BY InitInv
<1>2. 1 \in Versions /\ 1 <= scene.given
  BY OneVersion, <1>1 DEF IInv, TypeOK, AllScenes, Versions
<1>3. Book
  BY <1>2 DEF Init, Book, Versioned, Turns, Armed, Captured, Settled, Pending, Quiet, FirstVersion
<1>4. Calls
  BY DEF Init, Calls, Origins, DatesTaken, OneScheduled, DownRests, Still, NoneLeft, Fitting, Resting,
       Active, Scheduled, Passing
<1>5. DateCome
  BY DEF Init, DateCome, AtTheDoor, Passing
<1>6. Spent
  BY DEF Init, Spent, SpentRan, SpentOff, SpentOut, AtTheDoor
<1> QED
  BY <1>1, <1>3, <1>4, <1>5, <1>6 DEF LInv

LEMMA NextLife == LInv /\ [Next]_vars => LInv'
<1> SUFFICES ASSUME LInv, [Next]_vars PROVE LInv'
  OBVIOUS
<1>1. TypeOK /\ Exclusive /\ IInv'
  BY NextInv DEF LInv, IInv
<1>2. Book'
  BY <1>1, BookNext DEF LInv
<1>3. Calls'
  BY <1>1, OriginsNext, DatesTakenNext, OneScheduledNext, DownRestsNext, StillNext, NoneLeftNext, FittingNext
     DEF LInv, Calls
<1>4. DateCome'
  BY <1>1, DateComeNext DEF LInv, Calls
<1>5. Spent'
  BY <1>1, SpentRanNext, SpentOffNext, SpentOutNext DEF LInv, Calls, Spent
<1> QED
  BY <1>1, <1>2, <1>3, <1>4, <1>5 DEF LInv

LEMMA Living == Spec => []LInv
BY InitLife, NextLife, PTL DEF Spec

\* An active automation that nothing is being done to has the job of its schedule, or its
\* single date has come, whatever runs, boots, cleanups and requests do in between.
THEOREM Scheduling == Spec => []ActiveIsScheduled
<1>1. LInv => ActiveIsScheduled
  BY DEF LInv, Book, Armed, Settled, OnTime, ActiveIsScheduled
<1> QED
  BY <1>1, Living, PTL

\* While requests and runs do not overlap and each request finishes what it began, an
\* automation is declared completed only when its single date has come and a scheduled
\* run has been made, by the verdict of that run or by the loader at the next boot.
THEOREM Completes == Spec => CompletedByRun
<1> DEFINE Completed ==
      row.reason # "once" /\ row'.reason = "once" /\ Orderly /\ ~May("overlap")
        => Once(row.ver) /\ when[row.ver] # "future" /\ \E v \in Versions : ScheduledRuns(v) # {}
<1>1. LInv /\ [Next]_vars => [Completed]_vars
  <2> SUFFICES ASSUME LInv, [Next]_vars, row.reason # "once", row'.reason = "once", Orderly, ~May("overlap")
               PROVE  Once(row.ver) /\ when[row.ver] # "future" /\ \E v \in Versions : ScheduledRuns(v) # {}
    OBVIOUS
  <2>1. TypeOK /\ \A r \in Runs : run[r].ver \in Versions
    BY DEF LInv, IInv, TypeOK, RunStates
  <2>2. Load \/ \E r \in Runs, o \in scene.ends : Verdict(r, o)
    <3>1. ASSUME NEW q \in Requests, Request(q) PROVE row'.reason # "once"
      BY <2>1, <3>1 DEF Request, Finish, ToggleOn, ToggleOff, Reschedule, Arm, Disarm, Delete, Erase, Drop,
           TypeOK, Rows, env
    <3>2. ASSUME NEW r \in Runs, RunNext(r), ~\E o \in scene.ends : Verdict(r, o)
          PROVE  row'.reason # "once"
      BY <2>1, <3>2 DEF RunNext, RunStep, Fire, Trigger, Enter, Refuse, Start, OwnerMissing, Suspend, Notify,
           Raise, LoseEnd, CommitFails, ResumePass, EndResume, Answer, CleanOrphan, PausedFor, TypeOK, Rows, env
    <3>3. ~(Miss \/ Crash \/ Boot \/ AgentToggle \/ KillSwitch \/ (\E v \in Versions : Elapse(v)))
      BY <2>1 DEF Miss, Crash, Boot, AgentToggle, KillSwitch, Elapse, TypeOK, Rows, env
    <3>4. ~UNCHANGED vars
      BY DEF vars
    <3> QED
      BY <3>1, <3>2, <3>3, <3>4 DEF Next
  <2>3. CASE Load
    <3>1. FiredOnce
      BY <2>3 DEF Load
    <3>2. PICK r \in Runs : run[r].first = "schedule"
      BY <3>1 DEF FiredOnce
    <3>3. r \in ScheduledRuns(run[r].ver)
      BY <3>2 DEF ScheduledRuns
    <3> QED
      BY <2>1, <3>1, <3>3 DEF FiredOnce
  <2>4. CASE \E r \in Runs, o \in scene.ends : Verdict(r, o)
    <3> PICK r \in Runs, o \in scene.ends : Verdict(r, o)
      BY <2>4
    <3>1. Passing(r) /\ row.here
      BY DEF Verdict
    <3>2. ReasonOf(r, o) = "once"
      BY <2>1 DEF Verdict, PausedFor, TypeOK, Rows
    <3>3. Scheduled(r) /\ Once(run[r].seen.ver)
      BY <3>2 DEF ReasonOf, Scheduled
    <3>4. run[r].seen.ver = row.ver /\ run[r].first = "schedule"
      BY <3>1, <3>3 DEF LInv, Calls, Still, Origins
    <3>5. when[row.ver] # "future"
      BY <3>1, <3>3, <3>4 DEF LInv, DateCome
    <3>6. r \in ScheduledRuns(run[r].ver)
      BY <3>4 DEF ScheduledRuns
    <3> QED
      BY <2>1, <3>3, <3>4, <3>5, <3>6
  <2> QED
    BY <2>2, <2>3, <2>4
<1> QED
  BY <1>1, Living, PTL DEF Spec, CompletedByRun

\* A single date that has been run is not run again by a job left in the store, nor by the
\* loader: only a request can bring it back.
THEOREM NotFiredAgain == Spec => NoRefire
<1> DEFINE Fresh ==
      \A r \in Runs : run[r].pc = "queued" /\ run[r].src = "schedule" /\ run'[r].pc = "pass"
          /\ Once(run[r].ver) /\ Steady => run[r].ver \notin spent
<1>1. LInv /\ [Next]_vars => [Fresh]_vars
  <2> SUFFICES ASSUME LInv, [Next]_vars, NEW r \in Runs, run[r].pc = "queued", run[r].src = "schedule",
                      run'[r].pc = "pass", Once(run[r].ver), Steady
               PROVE  run[r].ver \notin spent
    OBVIOUS
  <2>1. ~Follows(r)
    BY DEF Follows
  <2>2. TypeOK
    BY DEF LInv, IInv
  <2>3. Start(r)
    <3>1. CASE \E s \in Runs : Fire(s) \/ (\E source \in {"webhook", "manual"} : Trigger(s, source))
      <4> PICK s \in Runs : Fire(s) \/ (\E source \in {"webhook", "manual"} : Trigger(s, source))
        BY <3>1
      <4> QED
        BY <2>2, Calling
    <3>2. CASE \E s \in Runs : Answer(s) \/ Start(s)
      <4> PICK s \in Runs : Answer(s) \/ Start(s)
        BY <3>2
      <4> QED
        BY <2>1, <2>2, Answering, Starting
    <3> QED
      BY <2>1, <2>2, <3>1, <3>2, Kinds
  <2>4. row.here /\ row.active
    BY <2>2, <2>3, Starting DEF Scheduled
  <2> QED
    BY <2>4 DEF LInv, Spent, SpentOut, AtTheDoor, Scheduled
<1> QED
  BY <1>1, Living, PTL DEF Spec, NoRefire
===============================================================================
