-------------------------- MODULE WaitResumeProofs --------------------------
(* For every set of executions, tokens and wait steps and every environment:    *)
(* types, mutual exclusion of the passes over the DAG, and no resume without an *)
(* accepted answer.                                                             *)
EXTENDS WaitResume, TLAPS

-------------------------------------------------------------------------------
(* What the small writes preserve.                                              *)
\* Writing a status, a program counter, the place of a step, a token status keeps the rows typed.
LEMMA StatusType ==
    ASSUME exec \in ExecRows, NEW e, NEW st \in Statuses, SetStatus(e, st)
    PROVE  exec' \in ExecRows
BY DEF ExecRows, SetStatus

LEMMA GotoType ==
    ASSUME worker \in WorkerStates, NEW w, NEW pc \in Counters, Goto(w, pc)
    PROVE  worker' \in WorkerStates
BY DEF WorkerStates, Goto

LEMMA PlaceType ==
    ASSUME worker \in WorkerStates, NEW w, NEW s, NEW p \in Places, Place(w, s, p)
    PROVE  worker' \in WorkerStates
BY DEF WorkerStates, Place

LEMMA FailsType ==
    ASSUME worker \in WorkerStates, NEW w \in Workers, NEW s \in WaitSteps, Fails(w, s)
    PROVE  worker' \in WorkerStates
<1>1. Try(w, s) \in Attempts /\ Tries[s] \in Attempts
  BY TriesAssumption DEF WorkerStates, Try
<1>2. CASE Try(w, s) < Tries[s]
  <2>1. worker' = [worker EXCEPT ![w].at[s] = "todo", ![w].try[s] = @ + 1]
    BY <1>2 DEF Fails
  <2>2. worker[w].try[s] + 1 \in Attempts
    BY <1>1, <1>2 DEF Try, Attempts
  <2> QED
    BY <2>1, <2>2 DEF WorkerStates, Places
<1>3. CASE ~(Try(w, s) < Tries[s])
  BY <1>3, PlaceType DEF Fails, Places, Recorded
<1> QED
  BY <1>2, <1>3

\* Where the program counters are after a move, and after a step of the DAG.
LEMMA GotoCounters ==
    ASSUME worker \in WorkerStates, NEW w, NEW pc, Goto(w, pc)
    PROVE  \A v \in Workers : worker'[v].pc = IF v = w THEN pc ELSE worker[v].pc
BY DEF WorkerStates, Goto

LEMMA PlaceCounters ==
    ASSUME worker \in WorkerStates, NEW w, NEW s, NEW p, Place(w, s, p)
    PROVE  \A v \in Workers : worker'[v].pc = worker[v].pc
BY DEF WorkerStates, Place

LEMMA FailsCounters ==
    ASSUME worker \in WorkerStates, NEW w \in Workers, NEW s \in WaitSteps, Fails(w, s)
    PROVE  \A v \in Workers : worker'[v].pc = worker[v].pc
<1>1. CASE Try(w, s) < Tries[s]
  <2>1. worker' = [worker EXCEPT ![w].at[s] = "todo", ![w].try[s] = @ + 1]
    BY <1>1 DEF Fails
  <2> QED
    BY <2>1 DEF WorkerStates
<1>2. CASE ~(Try(w, s) < Tries[s])
  BY <1>2, PlaceCounters DEF Fails
<1> QED
  BY <1>1, <1>2

LEMMA TokenStatusType ==
    ASSUME token \in TokenRows, NEW t, NEW st \in TokenStatuses,
           token' = [token EXCEPT ![t].st = st]
    PROVE  token' \in TokenRows
BY DEF TokenRows

\* The journal, the rows a sweep writes and what it has read stay typed.
LEMMA JournalType ==
    ASSUME row \in JournalRows, NEW w, Journal(w)
    PROVE  row' \in JournalRows
<1> DEFINE e == ExecOf(w)
           new == [s \in WaitSteps |-> [a \in Attempts |->
                     IF Missing(w, s) /\ a = Try(w, s) THEN At(w, s) ELSE row[e][s][a]]]
<1>1. CASE e \in Execs
  <2>1. new \in StepRows
    BY <1>1 DEF JournalRows, StepRows, Missing
  <2>2. row' = [row EXCEPT ![e] = new]
    BY <1>1 DEF Journal, JournalRows
  <2> QED
    BY <2>1, <2>2 DEF JournalRows
<1>2. CASE e \notin Execs
  BY <1>2 DEF JournalRows, Journal
<1> QED
  BY <1>1, <1>2

\* The journal that a resume leaves for its own step.
LEMMA SucceedsType ==
    ASSUME NEW j \in StepRows, NEW s,
           NEW k \in Succeeds(j, s)
    PROVE  k \in StepRows
<1>1. CASE k = j
  BY <1>1
<1>2. ASSUME NEW a \in Attempts, k = [j EXCEPT ![s][a] = "success"]
      PROVE  k \in StepRows
  BY <1>2 DEF StepRows
<1> QED
  BY <1>1, <1>2 DEF Succeeds

LEMMA SweepTokens ==
    ASSUME token \in TokenRows, exec \in ExecRows, NEW k, NEW ts \in TokenStatuses,
           NEW es \in Statuses, Sweep(k, ts, es)
    PROVE  token' \in TokenRows
BY DEF TokenRows, Sweep
LEMMA SweepExecs ==
    ASSUME token \in TokenRows, exec \in ExecRows, NEW k, NEW ts \in TokenStatuses,
           NEW es \in Statuses, Sweep(k, ts, es)
    PROVE  exec' \in ExecRows
BY DEF ExecRows, Sweep
LEMMA SweepDone ==
    ASSUME sweep \in SweepStates, NEW k, NEW ts, NEW es, Sweep(k, ts, es)
    PROVE  sweep' \in SweepStates
BY DEF SweepStates, Sweep, NoSweep

LEMMA CancelReadType ==
    ASSUME TypeOK, NEW k \in Sweepers, CancelRead(k)
    PROVE  sweep' \in SweepStates
BY DEF TypeOK, CancelRead, ToCancel, WaitingExecs, PendingOf, SweepStates

\* Types hold initially.
LEMMA InitTypes == Init => TypeOK
BY DEF Init, TypeOK, ExecRows, TokenRows, JournalRows, WorkerStates, SweepStates, NoSweep, Idle,
       Fresh, Statuses, TokenStatuses, Counters, Places, Recorded, Sweepers, Attempts, StepRows

\* Each group of actions keeps the types: the run, the DAG, the handler and the clock, the resume,
\* the scheduler, the writes of the sweeps, their reads and the crash.
LEMMA RunTypes ==
    ASSUME TypeOK, NEW e \in Execs, RunStep(e)
    PROVE  TypeOK'
<1>1. CASE RunStart(e)
  BY <1>1, GotoType, CancelReadType DEF RunStart, TypeOK, Workers, Counters, Sweepers
<1>2. CASE RunCreate(e)
  BY <1>2, GotoType DEF RunCreate, TypeOK, ExecRows, Statuses, Counters
<1>3. CASE RunFlush(e)
  BY <1>3, JournalType DEF RunFlush, TypeOK
<1>4. CASE RunEnd(e)
  BY <1>4, GotoType, StatusType DEF RunEnd, TypeOK, Statuses, Terminal, Counters
<1>5. CASE RunAbort(e)
  BY <1>5, GotoType, StatusType DEF RunAbort, TypeOK, Statuses, Terminal, Counters
<1> QED
  BY <1>1, <1>2, <1>3, <1>4, <1>5 DEF RunStep

LEMMA DagTypes ==
    ASSUME TypeOK, NEW w \in Workers, DagStep(w)
    PROVE  TypeOK'
<1>1. CASE \E s \in WaitSteps : Suspend(w, s)
  <2> PICK s \in WaitSteps : Suspend(w, s)
    BY <1>1
  <2>1. exec' \in ExecRows
    BY DEF Suspend, Checkpoint, TypeOK, ExecRows, Statuses
  <2> QED
    BY <2>1, PlaceType DEF Suspend, TypeOK, Places, Recorded
<1>2. CASE \E s \in WaitSteps : SkipStep(w, s)
  BY <1>2, PlaceType DEF SkipStep, TypeOK, Places, Recorded
<1>3. CASE \E s \in WaitSteps, t \in Tokens : AskToken(w, s, t)
  BY <1>3, PlaceType DEF AskToken, ExecOf, TypeOK, TokenRows, TokenStatuses, Workers, Places
<1>4. CASE \E s \in WaitSteps, t \in Tokens : MailOut(w, s, t)
  BY <1>4, PlaceType DEF MailOut, TypeOK, TokenRows, Places
<1>5. CASE \E s \in WaitSteps, t \in Tokens : MailFails(w, s, t)
  BY <1>5, FailsType, TokenStatusType DEF MailFails, TypeOK, TokenStatuses
<1>6. CASE \E s \in WaitSteps : StepFails(w, s) \/ SuspendFails(w, s)
  BY <1>6, FailsType DEF StepFails, SuspendFails, TypeOK
<1> QED
  BY <1>1, <1>2, <1>3, <1>4, <1>5, <1>6 DEF DagStep

LEMMA HandlerTypes ==
    ASSUME TypeOK, NEW t \in Tokens, HandlerStep(t) \/ Deadline(t)
    PROVE  TypeOK'
<1>1. CASE Answer(t)
  BY <1>1, TokenStatusType DEF Answer, Resolve, TypeOK, TokenStatuses
<1>2. CASE Schedule(t)
  BY <1>2 DEF Schedule, TypeOK
<1>3. CASE ScheduleFails(t)
  BY <1>3 DEF ScheduleFails, TypeOK
<1>4. CASE Deadline(t)
  BY <1>4 DEF Deadline, TypeOK
<1> QED
  BY <1>1, <1>2, <1>3, <1>4 DEF HandlerStep

LEMMA ResumeTypes ==
    ASSUME TypeOK, NEW t \in Tokens, ResumeStep(t)
    PROVE  TypeOK'
<1>1. CASE Claim(t)
  BY <1>1, StatusType, GotoType DEF Claim, TypeOK, Statuses, Terminal, Counters
<1>2. CASE LoadRefused(t)
  BY <1>2, StatusType, GotoType DEF LoadRefused, TypeOK, Statuses, Terminal, Counters
<1>3. CASE Load(t)
  <2>1. exec' \in ExecRows
    BY <1>3, StatusType DEF Load, TypeOK, Statuses
  <2>2. token[t].ex \in Execs \cup {None} /\ token[t].step \in WaitSteps \cup {None}
    BY DEF TypeOK, TokenRows
  <2>3. PICK journal \in Succeeds(row[token[t].ex], token[t].step) :
          /\ row' = [row EXCEPT ![token[t].ex] = journal]
          /\ worker' = [worker EXCEPT ![t].pc = "lock", ![t].at =
               [s \in WaitSteps |-> IF s \in SkipIds(t, journal) THEN "known" ELSE "todo"]]
    BY <1>3 DEF Load
  <2>4. worker' \in WorkerStates
    BY <2>3 DEF TypeOK, WorkerStates, Counters, Places
  <2>5. row' \in JournalRows
    <3>1. CASE token[t].ex \in Execs
      <4>1. row[token[t].ex] \in StepRows
        BY <3>1 DEF TypeOK, JournalRows
      <4>2. journal \in StepRows
        BY <4>1, SucceedsType
      <4> QED
        BY <2>3, <3>1, <4>2 DEF TypeOK, JournalRows
    <3>2. CASE token[t].ex \notin Execs
      BY <2>3, <3>2 DEF TypeOK, JournalRows
    <3> QED
      BY <3>1, <3>2
  <2> QED
    BY <1>3, <2>1, <2>4, <2>5 DEF Load, TypeOK
<1>4. CASE ResumeRefused(t)
  BY <1>4, StatusType, GotoType DEF ResumeRefused, TypeOK, Statuses, Terminal, Counters
<1>5. CASE AcquireLock(t)
  BY <1>5, GotoType DEF AcquireLock, TypeOK, Workers, Counters
<1>6. CASE ResumeReturn(t)
  BY <1>6, GotoType DEF ResumeReturn, TypeOK, Counters
<1>7. CASE ResumePersist(t)
  BY <1>7, GotoType, JournalType DEF ResumePersist, TypeOK, Counters
<1>8. CASE ResumeFinal(t)
  <2>1. exec' \in ExecRows
    BY <1>8, StatusType DEF ResumeFinal, TypeOK, ExecRows, Statuses, Terminal
  <2> QED
    BY <1>8, <2>1, GotoType DEF ResumeFinal, TypeOK, Counters
<1>9. CASE ResumeCrash(t)
  BY <1>9, StatusType, GotoType DEF ResumeCrash, TypeOK, Statuses, Terminal, Counters
<1> QED
  BY <1>1, <1>2, <1>3, <1>4, <1>5, <1>6, <1>7, <1>8, <1>9 DEF ResumeStep

LEMMA SchedulerTypes ==
    ASSUME TypeOK, NEW e \in Execs, Fire(e) \/ Misfire(e) \/ Age(e)
    PROVE  TypeOK'
<1>1. CASE Fire(e)
  BY <1>1, GotoType DEF Fire, TypeOK, Counters
<1>2. CASE Misfire(e)
  BY <1>2 DEF Misfire, TypeOK
<1>3. CASE Age(e)
  BY <1>3 DEF Age, TypeOK
<1> QED
  BY <1>1, <1>2, <1>3

LEMMA WriteTypes ==
    ASSUME TypeOK, Write
    PROVE  TypeOK'
<1>1. CASE SweepWrite
  <2>1. token' \in TokenRows /\ exec' \in ExecRows
    BY <1>1, SweepTokens, SweepExecs DEF SweepWrite, TypeOK, TokenStatuses, Statuses, Terminal
  <2>2. sweep' \in SweepStates
    BY <1>1, SweepDone DEF SweepWrite, TypeOK
  <2> QED
    BY <1>1, <2>1, <2>2 DEF SweepWrite, TypeOK
<1>2. CASE OrphanWrite
  <2>1. exec' \in ExecRows
    BY <1>2 DEF OrphanWrite, TypeOK, ExecRows, Statuses, Terminal
  <2> QED
    BY <1>2, <2>1 DEF OrphanWrite, NoSweep, TypeOK, SweepStates
<1>3. CASE \E e \in Execs : RunCancel(e)
  <2>1. token' \in TokenRows /\ exec' \in ExecRows
    BY <1>3, SweepTokens, SweepExecs DEF RunCancel, TypeOK, TokenStatuses, Statuses, Terminal
  <2>2. sweep' \in SweepStates
    BY <1>3, SweepDone DEF RunCancel, TypeOK
  <2> QED
    BY <1>3, <2>1, <2>2 DEF RunCancel, TypeOK
<1>4. CASE \E e \in Execs : RunCancelFails(e)
  <2> PICK e \in Execs : RunCancelFails(e)
    BY <1>4
  <2>1. sweep' \in SweepStates
    BY DEF RunCancelFails, TypeOK, SweepStates, NoSweep, Sweepers
  <2>2. worker' \in WorkerStates
    BY DEF RunCancelFails, TypeOK, WorkerStates
  <2> QED
    BY <2>1, <2>2 DEF RunCancelFails, TypeOK
<1> QED
  BY <1>1, <1>2, <1>3, <1>4 DEF Write

LEMMA SweepTypes ==
    ASSUME TypeOK, Toggle \/ ExpireRead \/ OrphanRead \/ Crash
    PROVE  TypeOK'
<1>1. CASE Toggle
  BY <1>1, CancelReadType DEF Toggle, TypeOK, Sweepers
<1>2. CASE ExpireRead
  BY <1>2 DEF ExpireRead, AwaitedBy, WaitingExecs, TypeOK, SweepStates
<1>3. CASE OrphanRead
  BY <1>3 DEF OrphanRead, Orphans, TypeOK, SweepStates
<1>4. CASE Crash
  <2>1. worker' \in WorkerStates
    BY <1>4 DEF Crash, TypeOK, WorkerStates, Counters
  <2> QED
    BY <1>4, <2>1 DEF Crash, NoSweep, TypeOK, SweepStates
<1> QED
  BY <1>1, <1>2, <1>3, <1>4

\* Every step keeps the types.
LEMMA StepTypes == TypeOK /\ [Next]_vars => TypeOK'
<1> SUFFICES ASSUME TypeOK, [Next]_vars PROVE TypeOK'
  OBVIOUS
<1>1. CASE Next
  BY <1>1, RunTypes, DagTypes, HandlerTypes, ResumeTypes, SchedulerTypes, WriteTypes, SweepTypes
  DEF Next
<1>2. CASE UNCHANGED vars
  BY <1>2 DEF vars, TypeOK
<1> QED
  BY <1>1, <1>2

\* Every reachable state is well typed, for every instance.
THEOREM Typed == Spec => []TypeOK
<1> QED
  BY InitTypes, StepTypes, PTL DEF Spec
-------------------------------------------------------------------------------
(* Mutual exclusion: whoever is between the start and the end of a pass, or has *)
(* started a run, is the holder of the lock.                                    *)
LockHeld == \A w \in Workers : worker[w].pc \in {"snap", "dag"} => lock = w

\* The lock, group by group.
LEMMA RunLocks ==
    ASSUME TypeOK, LockHeld, NEW e \in Execs, RunStep(e)
    PROVE  LockHeld'
<1>1. CASE RunStart(e)
  BY <1>1, GotoCounters, NoneAssumption DEF RunStart, LockHeld, TypeOK, Workers, LockFree
<1>2. CASE RunCreate(e)
  BY <1>2, GotoCounters DEF RunCreate, LockHeld, TypeOK, Workers, LockFree
<1>3. CASE RunFlush(e)
  BY <1>3 DEF RunFlush, LockHeld, TypeOK, Workers, LockFree, WorkerStates
<1>4. CASE RunEnd(e)
  BY <1>4, GotoCounters DEF RunEnd, LockHeld, TypeOK, Workers, LockFree
<1>5. CASE RunAbort(e)
  BY <1>5, GotoCounters DEF RunAbort, LockHeld, TypeOK, Workers, LockFree
<1> QED
  BY <1>1, <1>2, <1>3, <1>4, <1>5 DEF RunStep

LEMMA DagLocks ==
    ASSUME TypeOK, LockHeld, NEW w \in Workers, DagStep(w)
    PROVE  LockHeld'
<1>1. CASE \E s \in WaitSteps : Suspend(w, s) \/ SkipStep(w, s)
  BY <1>1, PlaceCounters DEF Suspend, SkipStep, LockHeld, TypeOK, Workers, LockFree
<1>2. CASE \E s \in WaitSteps, t \in Tokens : AskToken(w, s, t)
  BY <1>2, PlaceCounters DEF AskToken, LockHeld, TypeOK, Workers, LockFree
<1>3. CASE \E s \in WaitSteps, t \in Tokens : MailOut(w, s, t) \/ MailFails(w, s, t)
  BY <1>3, PlaceCounters, FailsCounters DEF MailOut, MailFails, LockHeld, TypeOK, Workers, LockFree
<1>4. CASE \E s \in WaitSteps : StepFails(w, s) \/ SuspendFails(w, s)
  BY <1>4, FailsCounters DEF StepFails, SuspendFails, LockHeld, TypeOK, Workers, LockFree
<1> QED
  BY <1>1, <1>2, <1>3, <1>4 DEF DagStep

LEMMA HandlerLocks ==
    ASSUME TypeOK, LockHeld, NEW t \in Tokens, HandlerStep(t) \/ Deadline(t)
    PROVE  LockHeld'
<1>1. CASE Answer(t)
  BY <1>1 DEF Answer, LockHeld, TypeOK, Workers, LockFree, Resolve
<1>2. CASE Schedule(t) \/ ScheduleFails(t)
  BY <1>2 DEF Schedule, ScheduleFails, LockHeld, TypeOK, Workers, LockFree
<1>3. CASE Deadline(t)
  BY <1>3 DEF Deadline, LockHeld, TypeOK, Workers, LockFree
<1> QED
  BY <1>1, <1>2, <1>3 DEF HandlerStep

LEMMA ResumeLocks ==
    ASSUME TypeOK, LockHeld, NEW t \in Tokens, ResumeStep(t)
    PROVE  LockHeld'
<1>1. CASE Claim(t) \/ LoadRefused(t)
  BY <1>1, GotoCounters DEF Claim, LoadRefused, LockHeld, TypeOK, Workers, LockFree
<1>2. CASE Load(t)
  BY <1>2 DEF Load, LockHeld, TypeOK, Workers, LockFree, WorkerStates
<1>3. CASE ResumeRefused(t)
  BY <1>3, GotoCounters DEF ResumeRefused, LockHeld, TypeOK, Workers, LockFree
<1>4. CASE AcquireLock(t)
  BY <1>4, GotoCounters, NoneAssumption DEF AcquireLock, LockHeld, TypeOK, Workers, LockFree
<1>5. CASE ResumeReturn(t)
  BY <1>5, GotoCounters DEF ResumeReturn, LockHeld, TypeOK, Workers, LockFree
<1>6. CASE ResumePersist(t) \/ ResumeFinal(t)
  BY <1>6, GotoCounters DEF ResumePersist, ResumeFinal, LockHeld, TypeOK, Workers, LockFree
<1>7. CASE ResumeCrash(t)
  BY <1>7, GotoCounters DEF ResumeCrash, LockHeld, TypeOK, Workers, LockFree
<1> QED
  BY <1>1, <1>2, <1>3, <1>4, <1>5, <1>6, <1>7 DEF ResumeStep

LEMMA SchedulerLocks ==
    ASSUME TypeOK, LockHeld, NEW e \in Execs, Fire(e) \/ Misfire(e) \/ Age(e)
    PROVE  LockHeld'
<1>1. CASE Fire(e)
  BY <1>1, GotoCounters DEF Fire, LockHeld, TypeOK, Workers, LockFree
<1>2. CASE Misfire(e) \/ Age(e)
  BY <1>2 DEF Misfire, Age, LockHeld, TypeOK, Workers, LockFree
<1> QED
  BY <1>1, <1>2

LEMMA SweepLocks ==
    ASSUME TypeOK, LockHeld, Write \/ Toggle \/ ExpireRead \/ OrphanRead \/ Crash
    PROVE  LockHeld'
<1>1. CASE SweepWrite
  BY <1>1 DEF SweepWrite, LockHeld, TypeOK, Workers, LockFree
<1>2. CASE OrphanWrite
  BY <1>2 DEF OrphanWrite, LockHeld, TypeOK, Workers, LockFree
<1>3. CASE \E e \in Execs : RunCancel(e)
  BY <1>3 DEF RunCancel, LockHeld, TypeOK, Workers, LockFree
<1>4. CASE Toggle \/ ExpireRead \/ OrphanRead
  BY <1>4 DEF Toggle, ExpireRead, OrphanRead, LockHeld, TypeOK, Workers, LockFree
<1>5. CASE Crash
  BY <1>5 DEF Crash, LockHeld, TypeOK, Workers, LockFree, WorkerStates
<1>6. CASE \E e \in Execs : RunCancelFails(e)
  BY <1>6 DEF RunCancelFails, LockHeld, TypeOK, Workers, LockFree, WorkerStates
<1> QED
  BY <1>1, <1>2, <1>3, <1>4, <1>5, <1>6 DEF Write

\* Every step keeps the lock with its holder.
LEMMA StepLocks == TypeOK /\ LockHeld /\ [Next]_vars => LockHeld'
<1> SUFFICES ASSUME TypeOK, LockHeld, [Next]_vars PROVE LockHeld'
  OBVIOUS
<1>1. CASE Next
  BY <1>1, RunLocks, DagLocks, HandlerLocks, ResumeLocks, SchedulerLocks, SweepLocks DEF Next
<1>2. CASE UNCHANGED vars
  BY <1>2 DEF vars, LockHeld
<1> QED
  BY <1>1, <1>2

\* Two passes over the DAG of the automation never overlap: the holder is unique.
THEOREM MutualExclusion == Spec => []OnePipeline
<1>1. Init => LockHeld
  BY DEF Init, LockHeld, Idle
<1>2. LockHeld => OnePipeline
  BY DEF LockHeld, OnePipeline
<1> QED
  BY <1>1, <1>2, Typed, StepLocks, PTL DEF Spec

-------------------------------------------------------------------------------
(* No resume without an accepted answer: the property is its own invariant.     *)

\* Answers, group by group.
LEMMA RunAnswers ==
    ASSUME TypeOK, NoResumeWithoutAnswer, NEW e \in Execs, RunStep(e)
    PROVE  NoResumeWithoutAnswer'
<1>1. CASE RunStart(e)
  BY <1>1, GotoCounters, KindAssumption
     DEF RunStart, NoResumeWithoutAnswer, Resuming, TypeOK, TokenRows, Workers
<1>2. CASE RunCreate(e)
  BY <1>2, GotoCounters, KindAssumption
     DEF RunCreate, NoResumeWithoutAnswer, Resuming, TypeOK, TokenRows, Workers
<1>3. CASE RunFlush(e)
  BY <1>3
     DEF RunFlush, NoResumeWithoutAnswer, Resuming, TypeOK, TokenRows, Workers, WorkerStates
<1>4. CASE RunEnd(e)
  BY <1>4, GotoCounters, KindAssumption
     DEF RunEnd, NoResumeWithoutAnswer, Resuming, TypeOK, TokenRows, Workers
<1>5. CASE RunAbort(e)
  BY <1>5, GotoCounters, KindAssumption
     DEF RunAbort, NoResumeWithoutAnswer, Resuming, TypeOK, TokenRows, Workers
<1> QED
  BY <1>1, <1>2, <1>3, <1>4, <1>5 DEF RunStep

LEMMA DagAnswers ==
    ASSUME TypeOK, NoResumeWithoutAnswer, NEW w \in Workers, DagStep(w)
    PROVE  NoResumeWithoutAnswer'
<1>1. CASE \E s \in WaitSteps : Suspend(w, s) \/ SkipStep(w, s)
  BY <1>1, PlaceCounters
     DEF Suspend, SkipStep, NoResumeWithoutAnswer, Resuming, TypeOK, TokenRows, Workers
<1>2. CASE \E s \in WaitSteps, t \in Tokens : AskToken(w, s, t)
  BY <1>2, PlaceCounters
     DEF AskToken, NoResumeWithoutAnswer, Resuming, TypeOK, TokenRows, Workers
<1>3. CASE \E s \in WaitSteps, t \in Tokens : MailOut(w, s, t) \/ MailFails(w, s, t)
  BY <1>3, PlaceCounters, FailsCounters
     DEF MailOut, MailFails, NoResumeWithoutAnswer, Resuming, TypeOK, TokenRows, Workers
<1>4. CASE \E s \in WaitSteps : StepFails(w, s) \/ SuspendFails(w, s)
  BY <1>4, FailsCounters
     DEF StepFails, SuspendFails, NoResumeWithoutAnswer, Resuming, TypeOK, TokenRows, Workers
<1> QED
  BY <1>1, <1>2, <1>3, <1>4 DEF DagStep

LEMMA HandlerAnswers ==
    ASSUME TypeOK, NoResumeWithoutAnswer, NEW t \in Tokens, HandlerStep(t) \/ Deadline(t)
    PROVE  NoResumeWithoutAnswer'
<1>1. CASE Answer(t)
  BY <1>1 DEF Answer, NoResumeWithoutAnswer, Resuming, TypeOK, TokenRows, Workers, Resolve
<1>2. CASE Schedule(t) \/ ScheduleFails(t)
  BY <1>2
     DEF Schedule, ScheduleFails, NoResumeWithoutAnswer, Resuming, TypeOK, TokenRows, Workers
<1>3. CASE Deadline(t)
  BY <1>3 DEF Deadline, NoResumeWithoutAnswer, Resuming, TypeOK, TokenRows, Workers
<1> QED
  BY <1>1, <1>2, <1>3 DEF HandlerStep

LEMMA ResumeAnswers ==
    ASSUME TypeOK, NoResumeWithoutAnswer, NEW t \in Tokens, ResumeStep(t)
    PROVE  NoResumeWithoutAnswer'
<1>1. CASE Claim(t) \/ LoadRefused(t)
  BY <1>1, GotoCounters
     DEF Claim, LoadRefused, NoResumeWithoutAnswer, Resuming, TypeOK, TokenRows, Workers
<1>2. CASE Load(t)
  BY <1>2 DEF Load, NoResumeWithoutAnswer, Resuming, TypeOK, TokenRows, Workers, WorkerStates
<1>3. CASE ResumeRefused(t)
  BY <1>3, GotoCounters
     DEF ResumeRefused, NoResumeWithoutAnswer, Resuming, TypeOK, TokenRows, Workers
<1>4. CASE AcquireLock(t)
  BY <1>4, GotoCounters
     DEF AcquireLock, NoResumeWithoutAnswer, Resuming, TypeOK, TokenRows, Workers
<1>5. CASE ResumeReturn(t)
  BY <1>5, GotoCounters
     DEF ResumeReturn, NoResumeWithoutAnswer, Resuming, TypeOK, TokenRows, Workers
<1>6. CASE ResumePersist(t) \/ ResumeFinal(t)
  BY <1>6, GotoCounters
     DEF ResumePersist, ResumeFinal, NoResumeWithoutAnswer, Resuming, TypeOK, TokenRows, Workers
<1>7. CASE ResumeCrash(t)
  BY <1>7, GotoCounters
     DEF ResumeCrash, NoResumeWithoutAnswer, Resuming, TypeOK, TokenRows, Workers
<1> QED
  BY <1>1, <1>2, <1>3, <1>4, <1>5, <1>6, <1>7 DEF ResumeStep

LEMMA SchedulerAnswers ==
    ASSUME TypeOK, NoResumeWithoutAnswer, NEW e \in Execs, Fire(e) \/ Misfire(e) \/ Age(e)
    PROVE  NoResumeWithoutAnswer'
<1>1. CASE Fire(e)
  BY <1>1, GotoCounters, NoneAssumption
     DEF Fire, NoResumeWithoutAnswer, Resuming, TypeOK, TokenRows, Workers
<1>2. CASE Misfire(e) \/ Age(e)
  BY <1>2, NoneAssumption
     DEF Misfire, Age, NoResumeWithoutAnswer, Resuming, TypeOK, TokenRows, Workers
<1> QED
  BY <1>1, <1>2

LEMMA SweepAnswers ==
    ASSUME TypeOK, NoResumeWithoutAnswer, Write \/ Toggle \/ ExpireRead \/ OrphanRead \/ Crash
    PROVE  NoResumeWithoutAnswer'
<1>1. CASE SweepWrite
  BY <1>1 DEF SweepWrite, NoResumeWithoutAnswer, Resuming, TypeOK, TokenRows, Workers, Sweep
<1>2. CASE OrphanWrite
  BY <1>2 DEF OrphanWrite, NoResumeWithoutAnswer, Resuming, TypeOK, TokenRows, Workers
<1>3. CASE \E e \in Execs : RunCancel(e)
  BY <1>3 DEF RunCancel, NoResumeWithoutAnswer, Resuming, TypeOK, TokenRows, Workers, Sweep
<1>4. CASE Toggle \/ ExpireRead \/ OrphanRead
  BY <1>4
     DEF Toggle, ExpireRead, OrphanRead, NoResumeWithoutAnswer, Resuming, TypeOK, TokenRows, Workers
<1>5. CASE Crash
  BY <1>5 DEF Crash, NoResumeWithoutAnswer, Resuming, TypeOK, TokenRows, Workers, WorkerStates
<1>6. CASE \E e \in Execs : RunCancelFails(e)
  BY <1>6 DEF RunCancelFails, NoResumeWithoutAnswer, Resuming, TypeOK, TokenRows, Workers, WorkerStates
<1> QED
  BY <1>1, <1>2, <1>3, <1>4, <1>5, <1>6 DEF Write

\* Every step keeps resumes behind answers.
LEMMA StepAnswers == TypeOK /\ NoResumeWithoutAnswer /\ [Next]_vars => NoResumeWithoutAnswer'
<1> SUFFICES ASSUME TypeOK, NoResumeWithoutAnswer, [Next]_vars PROVE NoResumeWithoutAnswer'
  OBVIOUS
<1>1. CASE Next
  BY <1>1, RunAnswers, DagAnswers, HandlerAnswers, ResumeAnswers, SchedulerAnswers, SweepAnswers
  DEF Next
<1>2. CASE UNCHANGED vars
  BY <1>2 DEF vars, NoResumeWithoutAnswer, Resuming
<1> QED
  BY <1>1, <1>2

\* A resume is scheduled, or runs, only for a token whose answer was accepted.
THEOREM AnswerFirst == Spec => []NoResumeWithoutAnswer
<1>1. Init => NoResumeWithoutAnswer
  BY NoneAssumption DEF Init, NoResumeWithoutAnswer, Resuming, Idle, Workers
<1> QED
  BY <1>1, Typed, StepAnswers, PTL DEF Spec
===============================================================================
