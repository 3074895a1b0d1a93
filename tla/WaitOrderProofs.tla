--------------------------- MODULE WaitOrderProofs ---------------------------
(* Cancel-on-next-run: what each action of WaitResume does, field by field, and *)
(* the order in which executions begin, wait and are worked on.                 *)
EXTENDS WaitResumeProofs

-------------------------------------------------------------------------------
(* What each action does, field by field.                                       *)
Moves(w, pc) == \A v \in Workers :
    /\ worker'[v].pc = IF v = w THEN pc ELSE worker[v].pc
    /\ worker'[v].blind = worker[v].blind
    /\ \A r \in WaitSteps : At(v, r)' = At(v, r) /\ Try(v, r)' = Try(v, r)
Puts(w, s, p) == \A v \in Workers :
    /\ worker'[v].pc = worker[v].pc /\ worker'[v].blind = worker[v].blind
    /\ \A r \in WaitSteps : /\ At(v, r)' = IF v = w /\ r = s THEN p ELSE At(v, r)
                            /\ Try(v, r)' = Try(v, r)
Again(w, s) == \A v \in Workers :
    /\ worker'[v].pc = worker[v].pc /\ worker'[v].blind = worker[v].blind
    /\ \A r \in WaitSteps : /\ At(v, r)' = IF v = w /\ r = s THEN "todo" ELSE At(v, r)
                            /\ Try(v, r)' = IF v = w /\ r = s THEN Try(w, s) + 1 ELSE Try(v, r)
Marks(e, st) == \A d \in Execs : exec'[d].st = IF d = e THEN st ELSE exec[d].st
Turns(t, st) == \A u \in Tokens :
    /\ token'[u].st = IF u = t THEN st ELSE token[u].st
    /\ token'[u].ex = token[u].ex /\ token'[u].step = token[u].step
    /\ token'[u].mailed = token[u].mailed
Owners == \A v \in Workers : ExecOf(v)' = ExecOf(v)

LEMMA MovesBy ==
    ASSUME worker \in WorkerStates, NEW w, NEW pc, Goto(w, pc)
    PROVE  Moves(w, pc)
BY DEF WorkerStates, Goto, Moves, At, Try

LEMMA PutsBy ==
    ASSUME worker \in WorkerStates, NEW w, NEW s, NEW p, Place(w, s, p)
    PROVE  Puts(w, s, p)
BY DEF WorkerStates, Place, Puts, At, Try

LEMMA FailsBy ==
    ASSUME worker \in WorkerStates, NEW w \in Workers, NEW s \in WaitSteps, Fails(w, s)
    PROVE  Again(w, s) \/ Puts(w, s, "failed")
<1>1. CASE Try(w, s) < Tries[s]
  <2>1. worker' = [worker EXCEPT ![w].at[s] = "todo", ![w].try[s] = @ + 1]
    BY <1>1 DEF Fails
  <2> QED
    BY <2>1 DEF WorkerStates, Again, At, Try
<1>2. CASE ~(Try(w, s) < Tries[s])
  BY <1>2, PutsBy DEF Fails
<1> QED
  BY <1>1, <1>2

LEMMA MarksBy ==
    ASSUME exec \in ExecRows, NEW e, NEW st, SetStatus(e, st)
    PROVE  Marks(e, st)
BY DEF ExecRows, SetStatus, Marks

LEMMA TurnsBy ==
    ASSUME token \in TokenRows, NEW t, NEW st, token' = [token EXCEPT ![t].st = st]
    PROVE  Turns(t, st) /\ Owners
BY DEF TokenRows, Turns, Owners, ExecOf, Workers

LEMMA OwnersBy ==
    ASSUME UNCHANGED token
    PROVE  Owners
BY DEF Owners, ExecOf

LEMMA RunStartEffect ==
    ASSUME TypeOK, NEW e \in Execs, RunStart(e)
    PROVE  /\ worker[e].pc = "idle" /\ lock = None /\ lock' = e
           /\ \A d \in Execs : d < e => worker[d].pc # "idle"
           /\ "overlap" \in Env \/ \A t \in Tokens : ~Resuming(t)
           /\ Moves(e, "snap") /\ Owners
           /\ sweep' = [sweep EXCEPT !["run"] = [on |-> TRUE, ex |-> WaitingExecs, tk |-> PendingOf(WaitingExecs)]]
           /\ UNCHANGED <<exec, token, row, overdue, old, unsched, job>>
BY MovesBy, OwnersBy DEF RunStart, TypeOK, LockFree, CancelRead, ToCancel

LEMMA RunCreateEffect ==
    ASSUME TypeOK, NEW e \in Execs, RunCreate(e)
    PROVE  /\ worker[e].pc = "snap" /\ ~sweep["run"].on
           /\ Marks(e, "running") /\ Moves(e, "dag") /\ Owners
           /\ UNCHANGED <<token, row, overdue, old, unsched, job, lock, sweep>>
<1>1. Marks(e, "running")
  BY DEF RunCreate, TypeOK, ExecRows, Marks
<1> QED
  BY <1>1, MovesBy, OwnersBy DEF RunCreate, TypeOK

LEMMA AskTokenEffect ==
    ASSUME TypeOK, NEW w \in Workers, NEW s \in WaitSteps, NEW t \in Tokens, AskToken(w, s, t)
    PROVE  /\ worker[w].pc = "dag" /\ Reached(w, s) /\ token[t].st = "free"
           /\ token'[t].st = "pending" /\ token'[t].ex = ExecOf(w) /\ token'[t].step = s
           /\ ~token'[t].mailed
           /\ \A u \in Tokens \ {t} : token'[u] = token[u]
           /\ \A v \in Workers \ {t} : ExecOf(v)' = ExecOf(v)
           /\ Puts(w, s, "asked")
           /\ UNCHANGED <<exec, row, overdue, old, unsched, job, lock, sweep>>
<1>1. Puts(w, s, "asked")
  BY PutsBy DEF AskToken, TypeOK
<1>2. token' = [token EXCEPT ![t] = [st |-> "pending", ex |-> ExecOf(w), step |-> s, mailed |-> FALSE]]
  BY DEF AskToken
<1>3. \A v \in Workers \ {t} : ExecOf(v)' = ExecOf(v)
  BY <1>2 DEF TypeOK, TokenRows, ExecOf, Workers
<1> QED
  BY <1>1, <1>2, <1>3 DEF AskToken, TypeOK, TokenRows

LEMMA MailOutEffect ==
    ASSUME TypeOK, NEW w \in Workers, NEW s \in WaitSteps, NEW t \in Tokens, MailOut(w, s, t)
    PROVE  /\ AskedToken(w, s, t) /\ Puts(w, s, "mailed") /\ Owners
           /\ \A u \in Tokens : /\ token'[u].st = token[u].st /\ token'[u].ex = token[u].ex
                                /\ token'[u].step = token[u].step
                                /\ u # t => token'[u].mailed = token[u].mailed
           /\ token'[t].mailed
           /\ UNCHANGED <<exec, row, overdue, old, unsched, job, lock, sweep>>
<1>1. Puts(w, s, "mailed")
  BY PutsBy DEF MailOut, TypeOK
<1>2. Owners
  BY DEF MailOut, TypeOK, TokenRows, Owners, ExecOf, Workers
<1> QED
  BY <1>1, <1>2 DEF MailOut, TypeOK, TokenRows

LEMMA MailFailsEffect ==
    ASSUME TypeOK, NEW w \in Workers, NEW s \in WaitSteps, NEW t \in Tokens, MailFails(w, s, t)
    PROVE  /\ AskedToken(w, s, t) /\ Turns(t, "gone") /\ Owners
           /\ Again(w, s) \/ Puts(w, s, "failed")
           /\ UNCHANGED <<exec, row, overdue, old, unsched, job, lock, sweep>>
BY FailsBy, TurnsBy DEF MailFails, TypeOK

LEMMA SkipStepEffect ==
    ASSUME TypeOK, NEW w \in Workers, NEW s \in WaitSteps, SkipStep(w, s)
    PROVE  /\ worker[w].pc = "dag" /\ Reached(w, s) /\ Puts(w, s, "skipped") /\ Owners
           /\ UNCHANGED <<exec, token, row, overdue, old, unsched, job, lock, sweep>>
BY PutsBy, OwnersBy DEF SkipStep, TypeOK

LEMMA StepFailsEffect ==
    ASSUME TypeOK, NEW w \in Workers, NEW s \in WaitSteps, StepFails(w, s)
    PROVE  /\ worker[w].pc = "dag" /\ Reached(w, s) /\ Owners
           /\ Again(w, s) \/ Puts(w, s, "failed")
           /\ UNCHANGED <<exec, token, row, overdue, old, unsched, job, lock, sweep>>
BY FailsBy, OwnersBy DEF StepFails, TypeOK

LEMMA SuspendFailsEffect ==
    ASSUME TypeOK, NEW w \in Workers, NEW s \in WaitSteps, SuspendFails(w, s)
    PROVE  /\ "dberror" \in Env /\ worker[w].pc = "dag" /\ At(w, s) = "mailed" /\ Owners
           /\ Again(w, s) \/ Puts(w, s, "failed")
           /\ UNCHANGED <<exec, token, row, overdue, old, unsched, job, lock, sweep>>
BY FailsBy, OwnersBy DEF SuspendFails, TypeOK

LEMMA SuspendEffect ==
    ASSUME TypeOK, NEW w \in Workers, NEW s \in WaitSteps, Suspend(w, s)
    PROVE  /\ worker[w].pc = "dag" /\ At(w, s) = "mailed" /\ Puts(w, s, "waiting") /\ Owners
           /\ Marks(ExecOf(w), "waiting")
           /\ UNCHANGED <<token, row, overdue, old, unsched, job, lock, sweep>>
<1>1. Marks(ExecOf(w), "waiting")
  BY DEF Suspend, TypeOK, ExecRows, Marks
<1> QED
  BY <1>1, PutsBy, OwnersBy DEF Suspend, TypeOK

\* What Journal writes.
Journals(w) == \A d \in Execs : \A s \in WaitSteps : \A a \in Attempts :
    row'[d][s][a] = IF d = ExecOf(w) /\ a = Try(w, s) /\ Missing(w, s) THEN At(w, s) ELSE row[d][s][a]

LEMMA JournalsBy ==
    ASSUME row \in JournalRows, NEW w, Journal(w)
    PROVE  Journals(w)
<1> DEFINE e == ExecOf(w)
           new == [s \in WaitSteps |-> [a \in Attempts |->
                     IF Missing(w, s) /\ a = Try(w, s) THEN At(w, s) ELSE row[e][s][a]]]
<1>1. CASE e \in Execs
  <2>1. row'[e] = new /\ \A d \in Execs \ {e} : row'[d] = row[d]
    BY <1>1 DEF Journal, JournalRows
  <2>2. \A s \in WaitSteps : \A a \in Attempts :
          new[s][a] = IF Missing(w, s) /\ a = Try(w, s) THEN At(w, s) ELSE row[e][s][a]
    OBVIOUS
  <2> HIDE DEF new
  <2> QED
    BY <2>1, <2>2 DEF Journals
<1>2. CASE e \notin Execs
  BY <1>2 DEF Journal, JournalRows, Journals
<1> QED
  BY <1>1, <1>2

LEMMA RunFlushEffect ==
    ASSUME TypeOK, NEW e \in Execs, RunFlush(e)
    PROVE  /\ worker[e].pc = "dag" /\ LevelClosed(e) /\ Journals(e) /\ Owners
           /\ UNCHANGED <<exec, token, overdue, old, unsched, job, worker, lock, sweep>>
BY JournalsBy, OwnersBy DEF RunFlush, TypeOK

LEMMA RunEndEffect ==
    ASSUME TypeOK, NEW e \in Execs, RunEnd(e)
    PROVE  /\ worker[e].pc = "dag" /\ LevelOver(e) /\ Owners
           /\ "dberror" \in Env \/ \A s \in WaitSteps : ~Missing(e, s)
           /\ \E v \in IF Stopped(e) THEN {"waiting"} ELSE {"done", "failed"} : Marks(e, v)
           /\ Moves(e, "done") /\ lock' = None
           /\ UNCHANGED <<token, row, overdue, old, unsched, job, sweep>>
BY MovesBy, MarksBy, OwnersBy DEF RunEnd, TypeOK

LEMMA RunAbortEffect ==
    ASSUME TypeOK, NEW e \in Execs, RunAbort(e)
    PROVE  /\ "timeout" \in Env /\ worker[e].pc = "dag" /\ Owners
           /\ Marks(e, "failed") /\ Moves(e, "done")
           /\ UNCHANGED <<token, row, overdue, old, unsched, job, sweep>>
BY MovesBy, MarksBy, OwnersBy DEF RunAbort, TypeOK

LEMMA AnswerEffect ==
    ASSUME TypeOK, NEW t \in Tokens, Answer(t)
    PROVE  /\ token[t].mailed /\ token[t].st = "pending" /\ t \notin overdue
           /\ Outside(token[t].ex, "midrun")
           /\ Turns(t, "resolved") /\ Owners /\ unsched' = unsched \cup {t}
           /\ UNCHANGED <<exec, row, overdue, old, job, worker, lock, sweep>>
BY TurnsBy DEF Answer, Answerable, Resolve, TypeOK

LEMMA ScheduleEffect ==
    ASSUME TypeOK, NEW t \in Tokens, Schedule(t)
    PROVE  /\ t \in unsched /\ unsched' = unsched \ {t} /\ Owners
           /\ \A d \in Execs : job'[d] = IF d = token[t].ex THEN t ELSE job[d]
           /\ UNCHANGED <<exec, token, row, overdue, old, worker, lock, sweep>>
BY OwnersBy DEF Schedule, TypeOK

LEMMA ScheduleFailsEffect ==
    ASSUME TypeOK, NEW t \in Tokens, ScheduleFails(t)
    PROVE  /\ "unscheduled" \in Env /\ Owners
           /\ UNCHANGED <<exec, token, row, overdue, old, job, worker, lock, sweep>>
BY OwnersBy DEF ScheduleFails, TypeOK

LEMMA FireEffect ==
    ASSUME TypeOK, NEW e \in Execs, Fire(e)
    PROVE  /\ job[e] \in Tokens /\ Moves(job[e], "claim") /\ Owners
           /\ \A d \in Execs : job'[d] = IF d = e THEN None ELSE job[d]
           /\ UNCHANGED <<exec, token, row, overdue, old, unsched, lock, sweep>>
BY MovesBy, OwnersBy DEF Fire, TypeOK

LEMMA MisfireEffect ==
    ASSUME TypeOK, NEW e \in Execs, Misfire(e)
    PROVE  /\ "misfire" \in Env /\ Owners
           /\ UNCHANGED <<exec, token, row, overdue, old, unsched, worker, lock, sweep>>
BY OwnersBy DEF Misfire, TypeOK

LEMMA ClaimEffect ==
    ASSUME TypeOK, NEW t \in Tokens, Claim(t)
    PROVE  /\ worker[t].pc = "claim" /\ Owners
           /\ \/ /\ token[t].st = "resolved" /\ exec[token[t].ex].st = "waiting"
                 /\ Marks(token[t].ex, "running") /\ Moves(t, "load")
              \/ /\ token[t].st # "resolved" \/ exec[token[t].ex].st # "waiting"
                 /\ Moves(t, "done") /\ UNCHANGED exec
           /\ UNCHANGED <<token, row, overdue, old, unsched, job, lock, sweep>>
BY MovesBy, MarksBy, OwnersBy DEF Claim, Claimable, TypeOK

LEMMA LoadRefusedEffect ==
    ASSUME TypeOK, NEW t \in Tokens, LoadRefused(t)
    PROVE  /\ worker[t].pc = "load" /\ Owners /\ Moves(t, "done")
           /\ \/ Marks(token[t].ex, "failed")
              \/ /\ token[t].st # "resolved" \/ exec[token[t].ex].st \notin {"waiting", "running"}
                 /\ UNCHANGED exec
           /\ UNCHANGED <<token, row, overdue, old, unsched, job, lock, sweep>>
<1>1. Owners /\ Moves(t, "done")
  BY MovesBy, OwnersBy DEF LoadRefused, TypeOK
<1>2. SetStatus(token[t].ex, "failed") => Marks(token[t].ex, "failed")
  BY MarksBy DEF TypeOK
<1> QED
  BY <1>1, <1>2 DEF LoadRefused

\* What a resume finds in the journal of its step.
LEMMA SucceedsBy ==
    ASSUME NEW j \in StepRows, NEW s \in WaitSteps, NEW k \in Succeeds(j, s)
    PROVE  /\ \A r \in WaitSteps : \A a \in Attempts :
                \/ k[r][a] = j[r][a]
                \/ r = s /\ j[r][a] = "waiting" /\ k[r][a] = "success"
           /\ \/ \A a \in Attempts : j[s][a] # "waiting"
              \/ \E a \in Attempts : j[s][a] = "waiting" /\ k[s][a] = "success"
<1>1. CASE \A a \in Attempts : j[s][a] # "waiting"
  BY <1>1 DEF Succeeds
<1>2. CASE \E a \in Attempts : j[s][a] = "waiting"
  <2>1. PICK a \in Attempts : j[s][a] = "waiting" /\ k = [j EXCEPT ![s][a] = "success"]
    BY <1>2 DEF Succeeds
  <2> QED
    BY <2>1 DEF StepRows
<1> QED
  BY <1>1, <1>2

LEMMA LoadEffect ==
    ASSUME TypeOK, NEW t \in Tokens, token[t].ex \in Execs, token[t].step \in WaitSteps, Load(t)
    PROVE  /\ worker[t].pc = "load" /\ token[t].st = "resolved" /\ Owners
           /\ exec[token[t].ex].st \in {"waiting", "running"}
           /\ Marks(token[t].ex, "running")
           /\ \A d \in Execs : \A s \in WaitSteps : \A a \in Attempts :
                \/ row'[d][s][a] = row[d][s][a]
                \/ /\ d = token[t].ex /\ s = token[t].step
                   /\ row[d][s][a] = "waiting" /\ row'[d][s][a] = "success"
           /\ \/ \A a \in Attempts : row[token[t].ex][token[t].step][a] # "waiting"
              \/ \E a \in Attempts : /\ row[token[t].ex][token[t].step][a] = "waiting"
                                     /\ row'[token[t].ex][token[t].step][a] = "success"
           /\ \A v \in Workers : /\ worker'[v].pc = IF v = t THEN "lock" ELSE worker[v].pc
                                 /\ worker'[v].blind = worker[v].blind
                                 /\ \A r \in WaitSteps : Try(v, r)' = Try(v, r)
           /\ \A v \in Workers \ {t} : \A r \in WaitSteps : At(v, r)' = At(v, r)
           /\ \A r \in WaitSteps : At(t, r)' =
                IF r = token[t].step \/ \E a \in Attempts : row'[token[t].ex][r][a] = "success"
                THEN "known" ELSE "todo"
           /\ UNCHANGED <<token, overdue, old, unsched, job, lock, sweep>>
<1> DEFINE e == token[t].ex
<1>1. Owners /\ Marks(e, "running")
  BY MarksBy, OwnersBy DEF Load, TypeOK
<1>2. PICK journal \in Succeeds(row[e], token[t].step) :
        /\ row' = [row EXCEPT ![e] = journal]
        /\ worker' = [worker EXCEPT ![t].pc = "lock", ![t].at =
             [s \in WaitSteps |-> IF s \in SkipIds(t, journal) THEN "known" ELSE "todo"]]
  BY DEF Load
<1>3. row[e] \in StepRows
  BY DEF TypeOK, JournalRows
<1>4. row'[e] = journal /\ \A d \in Execs \ {e} : row'[d] = row[d]
  BY <1>2 DEF TypeOK, JournalRows
<1>5. \A v \in Workers : /\ worker'[v].pc = IF v = t THEN "lock" ELSE worker[v].pc
                         /\ worker'[v].blind = worker[v].blind
                         /\ \A r \in WaitSteps : Try(v, r)' = Try(v, r)
  BY <1>2 DEF TypeOK, WorkerStates, Workers, Try
<1>6. \A v \in Workers \ {t} : \A r \in WaitSteps : At(v, r)' = At(v, r)
  BY <1>2 DEF TypeOK, WorkerStates, Workers, At
<1>7. \A r \in WaitSteps : At(t, r)' = IF r \in SkipIds(t, journal) THEN "known" ELSE "todo"
  BY <1>2 DEF TypeOK, WorkerStates, Workers, At
<1>8. \A r \in WaitSteps : r \in SkipIds(t, journal)
        <=> (r = token[t].step \/ \E a \in Attempts : journal[r][a] = "success")
  BY DEF SkipIds
<1>9. /\ worker[t].pc = "load" /\ token[t].st = "resolved"
      /\ exec[e].st \in {"waiting", "running"}
      /\ UNCHANGED <<token, overdue, old, unsched, job, lock, sweep>>
  BY DEF Load
<1>10. /\ \A r \in WaitSteps : \A a \in Attempts :
             \/ journal[r][a] = row[e][r][a]
             \/ r = token[t].step /\ row[e][r][a] = "waiting" /\ journal[r][a] = "success"
       /\ \/ \A a \in Attempts : row[e][token[t].step][a] # "waiting"
          \/ \E a \in Attempts : row[e][token[t].step][a] = "waiting" /\ journal[token[t].step][a] = "success"
  BY <1>3, SucceedsBy
<1> QED
  BY <1>1, <1>4, <1>5, <1>6, <1>7, <1>8, <1>9, <1>10

LEMMA ResumeRefusedEffect ==
    ASSUME TypeOK, NEW t \in Tokens, ResumeRefused(t)
    PROVE  /\ worker[t].pc = "lock" /\ Owners /\ Moves(t, "done")
           /\ Marks(token[t].ex, "failed")
           /\ UNCHANGED <<token, row, overdue, old, unsched, job, lock, sweep>>
BY MovesBy, MarksBy, OwnersBy DEF ResumeRefused, TypeOK

LEMMA AcquireLockEffect ==
    ASSUME TypeOK, NEW t \in Tokens, AcquireLock(t)
    PROVE  /\ worker[t].pc = "lock" /\ lock = None /\ lock' = t /\ Owners /\ Moves(t, "dag")
           /\ UNCHANGED <<exec, token, row, overdue, old, unsched, job, sweep>>
BY MovesBy, OwnersBy DEF AcquireLock, LockFree, TypeOK

LEMMA ResumeReturnEffect ==
    ASSUME TypeOK, NEW t \in Tokens, ResumeReturn(t)
    PROVE  /\ worker[t].pc = "dag" /\ LevelOver(t) /\ Owners /\ Moves(t, "persist")
           /\ UNCHANGED <<exec, token, row, overdue, old, unsched, job, sweep>>
BY MovesBy, OwnersBy DEF ResumeReturn, TypeOK

LEMMA ResumePersistEffect ==
    ASSUME TypeOK, NEW t \in Tokens, ResumePersist(t)
    PROVE  /\ worker[t].pc = "persist" /\ Owners /\ Moves(t, "final")
           /\ Journals(t) \/ ("dberror" \in Env /\ UNCHANGED row)
           /\ UNCHANGED <<exec, token, overdue, old, unsched, job, lock, sweep>>
BY MovesBy, JournalsBy, OwnersBy DEF ResumePersist, TypeOK

LEMMA ResumeFinalEffect ==
    ASSUME TypeOK, NEW t \in Tokens, ResumeFinal(t)
    PROVE  /\ worker[t].pc = "final" /\ Owners /\ Moves(t, "done")
           /\ \/ WaitsAgain(t) /\ Marks(token[t].ex, "waiting")
              \/ ~WaitsAgain(t) /\ \E v \in {"done", "failed"} : Marks(token[t].ex, v)
           /\ UNCHANGED <<token, row, overdue, old, unsched, job, lock, sweep>>
<1>1. Owners /\ Moves(t, "done")
  BY MovesBy, OwnersBy DEF ResumeFinal, TypeOK
<1>2. ASSUME NEW v, exec' = [exec EXCEPT ![token[t].ex] = [st |-> v, ckpt |-> None]]
      PROVE  Marks(token[t].ex, v)
  BY <1>2 DEF TypeOK, ExecRows, Marks
<1>3. SetStatus(token[t].ex, "waiting") => Marks(token[t].ex, "waiting")
  BY MarksBy DEF TypeOK
<1> QED
  BY <1>1, <1>2, <1>3 DEF ResumeFinal

LEMMA ResumeCrashEffect ==
    ASSUME TypeOK, NEW t \in Tokens, ResumeCrash(t)
    PROVE  /\ "timeout" \in Env /\ Resuming(t) /\ Owners /\ Moves(t, "done")
           /\ Marks(token[t].ex, "failed") \/ UNCHANGED exec
           /\ UNCHANGED <<token, row, overdue, old, unsched, job, sweep>>
BY MovesBy, MarksBy, OwnersBy DEF ResumeCrash, Resuming, TypeOK

\* The write of a sweep.
Closes(k, ts, es) ==
    /\ sweep[k].on
    /\ \A t \in Tokens : /\ token'[t].st = IF t \in sweep[k].tk /\ token[t].st # "gone" THEN ts ELSE token[t].st
                         /\ token'[t].ex = token[t].ex /\ token'[t].step = token[t].step
                         /\ token'[t].mailed = token[t].mailed
    /\ \A e \in Execs : exec'[e].st = IF e \in sweep[k].ex THEN es ELSE exec[e].st
    /\ sweep' = [sweep EXCEPT ![k] = NoSweep]
    /\ Owners
    /\ UNCHANGED <<row, overdue, old, unsched, job, worker, lock>>

LEMMA WriteEffect ==
    ASSUME TypeOK, Write
    PROVE  \/ \E k \in {"run", "toggle"} : Closes(k, "cancelled", "cancelled")
           \/ Closes("expire", "expired", "failed")
           \/ OrphanWrite
           \/ \E e \in Execs : RunCancelFails(e)
<1>1. ASSUME NEW k, NEW ts, NEW es, Sweep(k, ts, es), sweep[k].on,
             UNCHANGED <<row, overdue, old, unsched, job, worker, lock>>
      PROVE  Closes(k, ts, es)
  <2>1. Owners
    BY <1>1 DEF Sweep, TypeOK, TokenRows, Owners, ExecOf, Workers
  <2>2. \A t \in Tokens : /\ token'[t].st = IF t \in sweep[k].tk /\ token[t].st # "gone" THEN ts ELSE token[t].st
                          /\ token'[t].ex = token[t].ex /\ token'[t].step = token[t].step
                          /\ token'[t].mailed = token[t].mailed
    BY <1>1 DEF Sweep, TypeOK, TokenRows
  <2> QED
    BY <1>1, <2>1, <2>2 DEF Closes, Sweep
<1> QED
  BY <1>1 DEF Write, SweepWrite, RunCancel

LEMMA RunCancelFailsEffect ==
    ASSUME TypeOK, NEW e \in Execs, RunCancelFails(e)
    PROVE  /\ "dberror" \in Env /\ worker[e].pc = "snap" /\ sweep["run"].on /\ Owners
           /\ sweep' = [sweep EXCEPT !["run"] = NoSweep]
           /\ \A v \in Workers : /\ worker'[v].pc = worker[v].pc
                                 /\ worker'[v].blind = (worker[v].blind \/ v = e)
                                 /\ \A r \in WaitSteps : At(v, r)' = At(v, r) /\ Try(v, r)' = Try(v, r)
           /\ UNCHANGED <<exec, token, row, overdue, old, unsched, job, lock>>
<1>1. worker' = [worker EXCEPT ![e].blind = TRUE]
  BY DEF RunCancelFails
<1>2. \A v \in Workers : /\ worker'[v].pc = worker[v].pc
                         /\ worker'[v].blind = (worker[v].blind \/ v = e)
                         /\ \A r \in WaitSteps : At(v, r)' = At(v, r) /\ Try(v, r)' = Try(v, r)
  BY <1>1 DEF TypeOK, WorkerStates, Workers, At, Try
<1> QED
  BY <1>2, OwnersBy DEF RunCancelFails

LEMMA CrashEffect ==
    ASSUME TypeOK, Crash
    PROVE  /\ "crash" \in Env /\ Owners
           /\ \A v \in Workers : /\ worker'[v].pc = IF worker[v].pc = "idle" THEN "idle" ELSE "done"
                                 /\ worker'[v].blind = worker[v].blind
                                 /\ \A r \in WaitSteps : At(v, r)' = At(v, r) /\ Try(v, r)' = Try(v, r)
           /\ sweep' = [k \in Sweepers |-> NoSweep]
           /\ UNCHANGED <<exec, token, row, overdue, old, job>>
<1>1. \A v \in Workers : /\ worker'[v].pc = IF worker[v].pc = "idle" THEN "idle" ELSE "done"
                         /\ worker'[v].blind = worker[v].blind
                         /\ \A r \in WaitSteps : At(v, r)' = At(v, r) /\ Try(v, r)' = Try(v, r)
  BY DEF Crash, TypeOK, WorkerStates, At, Try
<1> QED
  BY <1>1, OwnersBy DEF Crash

LEMMA OrphanWriteEffect ==
    ASSUME TypeOK, OrphanWrite
    PROVE  /\ sweep["orphan"].on /\ Owners
           /\ \A e \in Execs : exec'[e].st = IF e \in sweep["orphan"].ex THEN "failed" ELSE exec[e].st
           /\ sweep' = [sweep EXCEPT !["orphan"] = NoSweep]
           /\ UNCHANGED <<token, row, overdue, old, unsched, job, worker, lock>>
<1>1. \A e \in Execs : exec'[e].st = IF e \in sweep["orphan"].ex THEN "failed" ELSE exec[e].st
  BY DEF OrphanWrite, TypeOK, ExecRows
<1> QED
  BY <1>1, OwnersBy DEF OrphanWrite
-------------------------------------------------------------------------------
(* Cancel-on-next-run.  Executions are numbered in the order they begin; only   *)
(* the latest waits or is worked on, but for those behind runs that could not   *)
(* cancel them, as long as no trigger fires during a resume and each sweep      *)
(* writes what it has just read.                                                *)
Begun(e)  == worker[e].pc # "idle"
Latest(d) == \A e \in Execs : Begun(e) => e <= d \/ worker[e].blind
Works(w)  == worker[w].pc \in {"snap", "load", "lock", "dag", "persist", "final"}
InTurn    == Env \cap {"overlap", "gap"} = {}

\* A run goes through its own program counters, and runs begin in order.
RunsGo  == /\ \A e \in Execs : worker[e].pc \in {"idle", "snap", "dag", "done"}
           /\ \A t \in Tokens : worker[t].pc # "snap"
InOrder == \A d, e \in Execs : d < e /\ Begun(e) => Begun(d)
\* An execution that exists has begun, and a pass is over one that exists.
Created == \A e \in Execs : /\ exec[e].st # "none" => Begun(e)
                            /\ worker[e].pc = "dag" => exec[e].st # "none"
\* A token in use belongs to a step of an execution that exists.
Owned   == \A t \in Tokens : token[t].st # "free" =>
               /\ token[t].ex \in Execs /\ token[t].step \in WaitSteps
               /\ exec[token[t].ex].st # "none"
\* What waits is the latest execution, or is about to be cancelled for the one that begins.
Condemned(d, e) == sweep["run"].on /\ d \in sweep["run"].ex /\ worker[e].pc = "snap"
WaitingLatest == \A d \in Execs : exec[d].st = "waiting" =>
    \A e \in Execs : Begun(e) => e <= d \/ worker[e].blind \/ Condemned(d, e)
WorkingLatest == \A w \in Workers : Works(w) => Latest(ExecOf(w))
\* A sweep has read what exists.
Swept == \A k \in Sweepers : sweep[k].on =>
             /\ \A d \in sweep[k].ex : exec[d].st # "none"
             /\ \A t \in sweep[k].tk : token[t].st # "free"
OrderInv == RunsGo /\ InOrder /\ Created /\ Owned /\ Swept /\ WaitingLatest /\ WorkingLatest

\* A pass is over an execution that exists, and the latest.
LEMMA PassOwner ==
    ASSUME OrderInv, NoResumeWithoutAnswer, \A k \in Sweepers : ~sweep[k].on,
           NEW w \in Workers, worker[w].pc = "dag"
    PROVE  ExecOf(w) \in Execs /\ exec[ExecOf(w)].st # "none" /\ Latest(ExecOf(w))
<1>1. CASE w \in Execs
  BY <1>1 DEF OrderInv, Created, WorkingLatest, Works, ExecOf
<1>2. CASE w \in Tokens
  BY <1>2, KindAssumption
  DEF OrderInv, Owned, WorkingLatest, Works, ExecOf, NoResumeWithoutAnswer, Resuming
<1> QED
  BY <1>1, <1>2 DEF Workers
LEMMA RunCreateOrder ==
    ASSUME InTurn, TypeOK, NoResumeWithoutAnswer, OrderInv, \A k \in Sweepers : ~sweep[k].on,
           NEW e \in Execs, RunCreate(e)
    PROVE  OrderInv'
<1>1. RunsGo' /\ InOrder' /\ \A d \in Execs : (Begun(d)' <=> Begun(d)) /\ (Latest(d)' <=> Latest(d))
  BY RunCreateEffect, KindAssumption DEF OrderInv, RunsGo, InOrder, Begun, Latest, Workers, Moves, Puts, Marks, Turns, Owners, Journals
<1>2. Created'
  BY RunCreateEffect, KindAssumption DEF OrderInv, Created, Owned, RunsGo, Begun, Workers, ExecOf, Moves, Puts, Marks, Turns, Owners, Journals
<1>3. Owned'
  BY RunCreateEffect, KindAssumption DEF OrderInv, Created, Owned, Workers, ExecOf, Moves, Puts, Marks, Turns, Owners, Journals
<1>4. WorkingLatest'
  BY RunCreateEffect, <1>1, KindAssumption DEF OrderInv, WorkingLatest, WaitingLatest, Condemned, Works, Workers, Sweepers, Latest, Begun, Moves, Puts, Marks, Turns, Owners, Journals
<1>5. WaitingLatest'
  BY RunCreateEffect, <1>1, KindAssumption DEF OrderInv, WorkingLatest, WaitingLatest, Condemned, Works, Workers, Sweepers, Latest, Begun, Moves, Puts, Marks, Turns, Owners, Journals
<1>6. Swept'
  BY RunCreateEffect DEF Swept, Moves, Puts, Marks, Turns, Owners, Journals
<1> QED
  BY <1>1, <1>2, <1>3, <1>4, <1>5, <1>6 DEF OrderInv

LEMMA AskTokenOrder ==
    ASSUME InTurn, TypeOK, NoResumeWithoutAnswer, OrderInv, \A k \in Sweepers : ~sweep[k].on,
           NEW w \in Workers, NEW s \in WaitSteps, NEW t \in Tokens, AskToken(w, s, t)
    PROVE  OrderInv'
<1>a. ExecOf(w) \in Execs /\ exec[ExecOf(w)].st # "none" /\ Latest(ExecOf(w))
  BY PassOwner DEF AskToken, AskedToken
<1>1. RunsGo' /\ InOrder' /\ \A d \in Execs : (Begun(d)' <=> Begun(d)) /\ (Latest(d)' <=> Latest(d))
  BY <1>a, AskTokenEffect, KindAssumption DEF OrderInv, RunsGo, InOrder, Begun, Latest, Workers, Moves, Puts, Marks, Turns, Owners, Journals
<1>2. Created'
  BY <1>a, AskTokenEffect, KindAssumption DEF OrderInv, Created, Owned, RunsGo, Begun, Workers, ExecOf, Moves, Puts, Marks, Turns, Owners, Journals
<1>3. Owned'
  BY <1>a, AskTokenEffect, KindAssumption DEF OrderInv, Created, Owned, Workers, ExecOf, Moves, Puts, Marks, Turns, Owners, Journals
<1>4. WorkingLatest'
  BY <1>a, AskTokenEffect, <1>1, KindAssumption DEF OrderInv, WorkingLatest, WaitingLatest, Condemned, Works, Workers, Sweepers, Latest, Begun, Moves, Puts, Marks, Turns, Owners, Journals, NoResumeWithoutAnswer, Resuming, RunsGo
<1>5. WaitingLatest'
  BY <1>a, AskTokenEffect, <1>1, KindAssumption DEF OrderInv, WorkingLatest, WaitingLatest, Condemned, Works, Workers, Sweepers, Latest, Begun, Moves, Puts, Marks, Turns, Owners, Journals
<1>6. Swept'
  BY <1>a, AskTokenEffect DEF Swept, Moves, Puts, Marks, Turns, Owners, Journals
<1> QED
  BY <1>1, <1>2, <1>3, <1>4, <1>5, <1>6 DEF OrderInv

LEMMA MailOutOrder ==
    ASSUME InTurn, TypeOK, NoResumeWithoutAnswer, OrderInv, \A k \in Sweepers : ~sweep[k].on,
           NEW w \in Workers, NEW s \in WaitSteps, NEW t \in Tokens, MailOut(w, s, t)
    PROVE  OrderInv'
<1>a. ExecOf(w) \in Execs /\ exec[ExecOf(w)].st # "none" /\ Latest(ExecOf(w))
  BY PassOwner DEF MailOut, AskedToken
<1>1. RunsGo' /\ InOrder' /\ \A d \in Execs : (Begun(d)' <=> Begun(d)) /\ (Latest(d)' <=> Latest(d))
  BY <1>a, MailOutEffect, KindAssumption DEF OrderInv, RunsGo, InOrder, Begun, Latest, Workers, Moves, Puts, Marks, Turns, Owners, Journals
<1>2. Created'
  BY <1>a, MailOutEffect, KindAssumption DEF OrderInv, Created, Owned, RunsGo, Begun, Workers, ExecOf, Moves, Puts, Marks, Turns, Owners, Journals
<1>3. Owned'
  BY <1>a, MailOutEffect, KindAssumption DEF OrderInv, Created, Owned, Workers, ExecOf, Moves, Puts, Marks, Turns, Owners, Journals
<1>4. WorkingLatest'
  BY <1>a, MailOutEffect, <1>1, KindAssumption DEF OrderInv, WorkingLatest, WaitingLatest, Condemned, Works, Workers, Sweepers, Latest, Begun, Moves, Puts, Marks, Turns, Owners, Journals
<1>5. WaitingLatest'
  BY <1>a, MailOutEffect, <1>1, KindAssumption DEF OrderInv, WorkingLatest, WaitingLatest, Condemned, Works, Workers, Sweepers, Latest, Begun, Moves, Puts, Marks, Turns, Owners, Journals
<1>6. Swept'
  BY <1>a, MailOutEffect DEF Swept, Moves, Puts, Marks, Turns, Owners, Journals
<1> QED
  BY <1>1, <1>2, <1>3, <1>4, <1>5, <1>6 DEF OrderInv

LEMMA MailFailsOrder ==
    ASSUME InTurn, TypeOK, NoResumeWithoutAnswer, OrderInv, \A k \in Sweepers : ~sweep[k].on,
           NEW w \in Workers, NEW s \in WaitSteps, NEW t \in Tokens, MailFails(w, s, t)
    PROVE  OrderInv'
<1>a. ExecOf(w) \in Execs /\ exec[ExecOf(w)].st # "none" /\ Latest(ExecOf(w))
  BY PassOwner DEF MailFails, AskedToken
<1>1. RunsGo' /\ InOrder' /\ \A d \in Execs : (Begun(d)' <=> Begun(d)) /\ (Latest(d)' <=> Latest(d))
  BY <1>a, MailFailsEffect, KindAssumption DEF OrderInv, RunsGo, InOrder, Begun, Latest, Workers, Moves, Puts, Again, Marks, Turns, Owners, Journals
<1>2. Created'
  BY <1>a, MailFailsEffect, KindAssumption DEF OrderInv, Created, Owned, RunsGo, Begun, Workers, ExecOf, Moves, Puts, Again, Marks, Turns, Owners, Journals
<1>3. Owned'
  BY <1>a, MailFailsEffect, KindAssumption DEF OrderInv, Created, Owned, Workers, ExecOf, Moves, Puts, Again, Marks, Turns, Owners, Journals, AskedToken
<1>4. WorkingLatest'
  BY <1>a, MailFailsEffect, <1>1, KindAssumption DEF OrderInv, WorkingLatest, WaitingLatest, Condemned, Works, Workers, Sweepers, Latest, Begun, Moves, Puts, Again, Marks, Turns, Owners, Journals
<1>5. WaitingLatest'
  BY <1>a, MailFailsEffect, <1>1, KindAssumption DEF OrderInv, WorkingLatest, WaitingLatest, Condemned, Works, Workers, Sweepers, Latest, Begun, Moves, Puts, Again, Marks, Turns, Owners, Journals
<1>6. Swept'
  BY <1>a, MailFailsEffect DEF Swept, Moves, Puts, Again, Marks, Turns, Owners, Journals
<1> QED
  BY <1>1, <1>2, <1>3, <1>4, <1>5, <1>6 DEF OrderInv

LEMMA SkipStepOrder ==
    ASSUME InTurn, TypeOK, NoResumeWithoutAnswer, OrderInv, \A k \in Sweepers : ~sweep[k].on,
           NEW w \in Workers, NEW s \in WaitSteps, SkipStep(w, s)
    PROVE  OrderInv'
<1>a. ExecOf(w) \in Execs /\ exec[ExecOf(w)].st # "none" /\ Latest(ExecOf(w))
  BY PassOwner DEF SkipStep, AskedToken
<1>1. RunsGo' /\ InOrder' /\ \A d \in Execs : (Begun(d)' <=> Begun(d)) /\ (Latest(d)' <=> Latest(d))
  BY <1>a, SkipStepEffect, KindAssumption DEF OrderInv, RunsGo, InOrder, Begun, Latest, Workers, Moves, Puts, Marks, Turns, Owners, Journals
<1>2. Created'
  BY <1>a, SkipStepEffect, KindAssumption DEF OrderInv, Created, Owned, RunsGo, Begun, Workers, ExecOf, Moves, Puts, Marks, Turns, Owners, Journals
<1>3. Owned'
  BY <1>a, SkipStepEffect, KindAssumption DEF OrderInv, Created, Owned, Workers, ExecOf, Moves, Puts, Marks, Turns, Owners, Journals
<1>4. WorkingLatest'
  BY <1>a, SkipStepEffect, <1>1, KindAssumption DEF OrderInv, WorkingLatest, WaitingLatest, Condemned, Works, Workers, Sweepers, Latest, Begun, Moves, Puts, Marks, Turns, Owners, Journals
<1>5. WaitingLatest'
  BY <1>a, SkipStepEffect, <1>1, KindAssumption DEF OrderInv, WorkingLatest, WaitingLatest, Condemned, Works, Workers, Sweepers, Latest, Begun, Moves, Puts, Marks, Turns, Owners, Journals
<1>6. Swept'
  BY <1>a, SkipStepEffect DEF Swept, Moves, Puts, Marks, Turns, Owners, Journals
<1> QED
  BY <1>1, <1>2, <1>3, <1>4, <1>5, <1>6 DEF OrderInv

LEMMA StepFailsOrder ==
    ASSUME InTurn, TypeOK, NoResumeWithoutAnswer, OrderInv, \A k \in Sweepers : ~sweep[k].on,
           NEW w \in Workers, NEW s \in WaitSteps, StepFails(w, s)
    PROVE  OrderInv'
<1>a. ExecOf(w) \in Execs /\ exec[ExecOf(w)].st # "none" /\ Latest(ExecOf(w))
  BY PassOwner DEF StepFails, AskedToken
<1>1. RunsGo' /\ InOrder' /\ \A d \in Execs : (Begun(d)' <=> Begun(d)) /\ (Latest(d)' <=> Latest(d))
  BY <1>a, StepFailsEffect, KindAssumption DEF OrderInv, RunsGo, InOrder, Begun, Latest, Workers, Moves, Puts, Again, Marks, Turns, Owners, Journals
<1>2. Created'
  BY <1>a, StepFailsEffect, KindAssumption DEF OrderInv, Created, Owned, RunsGo, Begun, Workers, ExecOf, Moves, Puts, Again, Marks, Turns, Owners, Journals
<1>3. Owned'
  BY <1>a, StepFailsEffect, KindAssumption DEF OrderInv, Created, Owned, Workers, ExecOf, Moves, Puts, Again, Marks, Turns, Owners, Journals
<1>4. WorkingLatest'
  BY <1>a, StepFailsEffect, <1>1, KindAssumption DEF OrderInv, WorkingLatest, WaitingLatest, Condemned, Works, Workers, Sweepers, Latest, Begun, Moves, Puts, Again, Marks, Turns, Owners, Journals
<1>5. WaitingLatest'
  BY <1>a, StepFailsEffect, <1>1, KindAssumption DEF OrderInv, WorkingLatest, WaitingLatest, Condemned, Works, Workers, Sweepers, Latest, Begun, Moves, Puts, Again, Marks, Turns, Owners, Journals
<1>6. Swept'
  BY <1>a, StepFailsEffect DEF Swept, Moves, Puts, Again, Marks, Turns, Owners, Journals
<1> QED
  BY <1>1, <1>2, <1>3, <1>4, <1>5, <1>6 DEF OrderInv

LEMMA SuspendFailsOrder ==
    ASSUME InTurn, TypeOK, NoResumeWithoutAnswer, OrderInv, \A k \in Sweepers : ~sweep[k].on,
           NEW w \in Workers, NEW s \in WaitSteps, SuspendFails(w, s)
    PROVE  OrderInv'
<1>a. ExecOf(w) \in Execs /\ exec[ExecOf(w)].st # "none" /\ Latest(ExecOf(w))
  BY PassOwner DEF SuspendFails, AskedToken
<1>1. RunsGo' /\ InOrder' /\ \A d \in Execs : (Begun(d)' <=> Begun(d)) /\ (Latest(d)' <=> Latest(d))
  BY <1>a, SuspendFailsEffect, KindAssumption DEF OrderInv, RunsGo, InOrder, Begun, Latest, Workers, Moves, Puts, Again, Marks, Turns, Owners, Journals
<1>2. Created'
  BY <1>a, SuspendFailsEffect, KindAssumption DEF OrderInv, Created, Owned, RunsGo, Begun, Workers, ExecOf, Moves, Puts, Again, Marks, Turns, Owners, Journals
<1>3. Owned'
  BY <1>a, SuspendFailsEffect, KindAssumption DEF OrderInv, Created, Owned, Workers, ExecOf, Moves, Puts, Again, Marks, Turns, Owners, Journals
<1>4. WorkingLatest'
  BY <1>a, SuspendFailsEffect, <1>1, KindAssumption DEF OrderInv, WorkingLatest, WaitingLatest, Condemned, Works, Workers, Sweepers, Latest, Begun, Moves, Puts, Again, Marks, Turns, Owners, Journals
<1>5. WaitingLatest'
  BY <1>a, SuspendFailsEffect, <1>1, KindAssumption DEF OrderInv, WorkingLatest, WaitingLatest, Condemned, Works, Workers, Sweepers, Latest, Begun, Moves, Puts, Again, Marks, Turns, Owners, Journals
<1>6. Swept'
  BY <1>a, SuspendFailsEffect DEF Swept, Moves, Puts, Again, Marks, Turns, Owners, Journals
<1> QED
  BY <1>1, <1>2, <1>3, <1>4, <1>5, <1>6 DEF OrderInv

LEMMA SuspendOrder ==
    ASSUME InTurn, TypeOK, NoResumeWithoutAnswer, OrderInv, \A k \in Sweepers : ~sweep[k].on,
           NEW w \in Workers, NEW s \in WaitSteps, Suspend(w, s)
    PROVE  OrderInv'
<1>a. ExecOf(w) \in Execs /\ exec[ExecOf(w)].st # "none" /\ Latest(ExecOf(w))
  BY PassOwner DEF Suspend, AskedToken
<1>1. RunsGo' /\ InOrder' /\ \A d \in Execs : (Begun(d)' <=> Begun(d)) /\ (Latest(d)' <=> Latest(d))
  BY <1>a, SuspendEffect, KindAssumption DEF OrderInv, RunsGo, InOrder, Begun, Latest, Workers, Moves, Puts, Marks, Turns, Owners, Journals
<1>2. Created'
  BY <1>a, SuspendEffect, KindAssumption DEF OrderInv, Created, Owned, RunsGo, Begun, Workers, ExecOf, Moves, Puts, Marks, Turns, Owners, Journals
<1>3. Owned'
  BY <1>a, SuspendEffect, KindAssumption DEF OrderInv, Created, Owned, Workers, ExecOf, Moves, Puts, Marks, Turns, Owners, Journals
<1>4. WorkingLatest'
  BY <1>a, SuspendEffect, <1>1, KindAssumption DEF OrderInv, WorkingLatest, WaitingLatest, Condemned, Works, Workers, Sweepers, Latest, Begun, Moves, Puts, Marks, Turns, Owners, Journals
<1>5. WaitingLatest'
  BY <1>a, SuspendEffect, <1>1, KindAssumption DEF OrderInv, WorkingLatest, WaitingLatest, Condemned, Works, Workers, Sweepers, Latest, Begun, Moves, Puts, Marks, Turns, Owners, Journals
<1>6. Swept'
  BY <1>a, SuspendEffect DEF Swept, Moves, Puts, Marks, Turns, Owners, Journals
<1> QED
  BY <1>1, <1>2, <1>3, <1>4, <1>5, <1>6 DEF OrderInv

LEMMA RunFlushOrder ==
    ASSUME InTurn, TypeOK, NoResumeWithoutAnswer, OrderInv, \A k \in Sweepers : ~sweep[k].on,
           NEW e \in Execs, RunFlush(e)
    PROVE  OrderInv'
<1>a. ExecOf(e) = e /\ exec[e].st # "none" /\ Latest(e)
  BY PassOwner DEF RunFlush, ExecOf, Workers
<1>1. RunsGo' /\ InOrder' /\ \A d \in Execs : (Begun(d)' <=> Begun(d)) /\ (Latest(d)' <=> Latest(d))
  BY <1>a, RunFlushEffect, KindAssumption DEF OrderInv, RunsGo, InOrder, Begun, Latest, Workers, Moves, Puts, Marks, Turns, Owners, Journals
<1>2. Created'
  BY <1>a, RunFlushEffect, KindAssumption DEF OrderInv, Created, Owned, RunsGo, Begun, Workers, ExecOf, Moves, Puts, Marks, Turns, Owners, Journals
<1>3. Owned'
  BY <1>a, RunFlushEffect, KindAssumption DEF OrderInv, Created, Owned, Workers, ExecOf, Moves, Puts, Marks, Turns, Owners, Journals
<1>4. WorkingLatest'
  BY <1>a, RunFlushEffect, <1>1, KindAssumption DEF OrderInv, WorkingLatest, WaitingLatest, Condemned, Works, Workers, Sweepers, Latest, Begun, Moves, Puts, Marks, Turns, Owners, Journals
<1>5. WaitingLatest'
  BY <1>a, RunFlushEffect, <1>1, KindAssumption DEF OrderInv, WorkingLatest, WaitingLatest, Condemned, Works, Workers, Sweepers, Latest, Begun, Moves, Puts, Marks, Turns, Owners, Journals
<1>6. Swept'
  BY <1>a, RunFlushEffect DEF Swept, Moves, Puts, Marks, Turns, Owners, Journals
<1> QED
  BY <1>1, <1>2, <1>3, <1>4, <1>5, <1>6 DEF OrderInv

LEMMA RunEndOrder ==
    ASSUME InTurn, TypeOK, NoResumeWithoutAnswer, OrderInv, \A k \in Sweepers : ~sweep[k].on,
           NEW e \in Execs, RunEnd(e)
    PROVE  OrderInv'
<1>a. ExecOf(e) = e /\ exec[e].st # "none" /\ Latest(e)
  BY PassOwner DEF RunEnd, ExecOf, Workers
<1>1. RunsGo' /\ InOrder' /\ \A d \in Execs : (Begun(d)' <=> Begun(d)) /\ (Latest(d)' <=> Latest(d))
  BY <1>a, RunEndEffect, KindAssumption DEF OrderInv, RunsGo, InOrder, Begun, Latest, Workers, Moves, Puts, Marks, Turns, Owners, Journals
<1>2. Created'
  BY <1>a, RunEndEffect, KindAssumption DEF OrderInv, Created, Owned, RunsGo, Begun, Workers, ExecOf, Moves, Puts, Marks, Turns, Owners, Journals
<1>3. Owned'
  BY <1>a, RunEndEffect, KindAssumption DEF OrderInv, Created, Owned, Workers, ExecOf, Moves, Puts, Marks, Turns, Owners, Journals
<1>4. WorkingLatest'
  BY <1>a, RunEndEffect, <1>1, KindAssumption DEF OrderInv, WorkingLatest, WaitingLatest, Condemned, Works, Workers, Sweepers, Latest, Begun, Moves, Puts, Marks, Turns, Owners, Journals
<1>5. WaitingLatest'
  BY <1>a, RunEndEffect, <1>1, KindAssumption DEF OrderInv, WorkingLatest, WaitingLatest, Condemned, Works, Workers, Sweepers, Latest, Begun, Moves, Puts, Marks, Turns, Owners, Journals
<1>6. Swept'
  BY <1>a, RunEndEffect DEF Swept, Moves, Puts, Marks, Turns, Owners, Journals
<1> QED
  BY <1>1, <1>2, <1>3, <1>4, <1>5, <1>6 DEF OrderInv

LEMMA RunAbortOrder ==
    ASSUME InTurn, TypeOK, NoResumeWithoutAnswer, OrderInv, \A k \in Sweepers : ~sweep[k].on,
           NEW e \in Execs, RunAbort(e)
    PROVE  OrderInv'
<1>1. RunsGo' /\ InOrder' /\ \A d \in Execs : (Begun(d)' <=> Begun(d)) /\ (Latest(d)' <=> Latest(d))
  BY RunAbortEffect, KindAssumption DEF OrderInv, RunsGo, InOrder, Begun, Latest, Workers, Moves, Puts, Marks, Turns, Owners, Journals
<1>2. Created'
  BY RunAbortEffect, KindAssumption DEF OrderInv, Created, Owned, RunsGo, Begun, Workers, ExecOf, Moves, Puts, Marks, Turns, Owners, Journals
<1>3. Owned'
  BY RunAbortEffect, KindAssumption DEF OrderInv, Created, Owned, Workers, ExecOf, Moves, Puts, Marks, Turns, Owners, Journals
<1>4. WorkingLatest'
  BY RunAbortEffect, <1>1, KindAssumption DEF OrderInv, WorkingLatest, WaitingLatest, Condemned, Works, Workers, Sweepers, Latest, Begun, Moves, Puts, Marks, Turns, Owners, Journals
<1>5. WaitingLatest'
  BY RunAbortEffect, <1>1, KindAssumption DEF OrderInv, WorkingLatest, WaitingLatest, Condemned, Works, Workers, Sweepers, Latest, Begun, Moves, Puts, Marks, Turns, Owners, Journals
<1>6. Swept'
  BY RunAbortEffect DEF Swept, Moves, Puts, Marks, Turns, Owners, Journals
<1> QED
  BY <1>1, <1>2, <1>3, <1>4, <1>5, <1>6 DEF OrderInv

LEMMA AnswerOrder ==
    ASSUME InTurn, TypeOK, NoResumeWithoutAnswer, OrderInv, \A k \in Sweepers : ~sweep[k].on,
           NEW t \in Tokens, Answer(t)
    PROVE  OrderInv'
<1>1. RunsGo' /\ InOrder' /\ \A d \in Execs : (Begun(d)' <=> Begun(d)) /\ (Latest(d)' <=> Latest(d))
  BY AnswerEffect, KindAssumption DEF OrderInv, RunsGo, InOrder, Begun, Latest, Workers, Moves, Puts, Marks, Turns, Owners, Journals
<1>2. Created'
  BY AnswerEffect, KindAssumption DEF OrderInv, Created, Owned, RunsGo, Begun, Workers, ExecOf, Moves, Puts, Marks, Turns, Owners, Journals
<1>3. Owned'
  BY AnswerEffect, KindAssumption DEF OrderInv, Created, Owned, Workers, ExecOf, Moves, Puts, Marks, Turns, Owners, Journals
<1>4. WorkingLatest'
  BY AnswerEffect, <1>1, KindAssumption DEF OrderInv, WorkingLatest, WaitingLatest, Condemned, Works, Workers, Sweepers, Latest, Begun, Moves, Puts, Marks, Turns, Owners, Journals
<1>5. WaitingLatest'
  BY AnswerEffect, <1>1, KindAssumption DEF OrderInv, WorkingLatest, WaitingLatest, Condemned, Works, Workers, Sweepers, Latest, Begun, Moves, Puts, Marks, Turns, Owners, Journals
<1>6. Swept'
  BY AnswerEffect DEF Swept, Moves, Puts, Marks, Turns, Owners, Journals
<1> QED
  BY <1>1, <1>2, <1>3, <1>4, <1>5, <1>6 DEF OrderInv

LEMMA ScheduleOrder ==
    ASSUME InTurn, TypeOK, NoResumeWithoutAnswer, OrderInv, \A k \in Sweepers : ~sweep[k].on,
           NEW t \in Tokens, Schedule(t)
    PROVE  OrderInv'
<1>1. RunsGo' /\ InOrder' /\ \A d \in Execs : (Begun(d)' <=> Begun(d)) /\ (Latest(d)' <=> Latest(d))
  BY ScheduleEffect, KindAssumption DEF OrderInv, RunsGo, InOrder, Begun, Latest, Workers, Moves, Puts, Marks, Turns, Owners, Journals
<1>2. Created'
  BY ScheduleEffect, KindAssumption DEF OrderInv, Created, Owned, RunsGo, Begun, Workers, ExecOf, Moves, Puts, Marks, Turns, Owners, Journals
<1>3. Owned'
  BY ScheduleEffect, KindAssumption DEF OrderInv, Created, Owned, Workers, ExecOf, Moves, Puts, Marks, Turns, Owners, Journals
<1>4. WorkingLatest'
  BY ScheduleEffect, <1>1, KindAssumption DEF OrderInv, WorkingLatest, WaitingLatest, Condemned, Works, Workers, Sweepers, Latest, Begun, Moves, Puts, Marks, Turns, Owners, Journals
<1>5. WaitingLatest'
  BY ScheduleEffect, <1>1, KindAssumption DEF OrderInv, WorkingLatest, WaitingLatest, Condemned, Works, Workers, Sweepers, Latest, Begun, Moves, Puts, Marks, Turns, Owners, Journals
<1>6. Swept'
  BY ScheduleEffect DEF Swept, Moves, Puts, Marks, Turns, Owners, Journals
<1> QED
  BY <1>1, <1>2, <1>3, <1>4, <1>5, <1>6 DEF OrderInv

LEMMA ScheduleFailsOrder ==
    ASSUME InTurn, TypeOK, NoResumeWithoutAnswer, OrderInv, \A k \in Sweepers : ~sweep[k].on,
           NEW t \in Tokens, ScheduleFails(t)
    PROVE  OrderInv'
<1>1. RunsGo' /\ InOrder' /\ \A d \in Execs : (Begun(d)' <=> Begun(d)) /\ (Latest(d)' <=> Latest(d))
  BY ScheduleFailsEffect, KindAssumption DEF OrderInv, RunsGo, InOrder, Begun, Latest, Workers, Moves, Puts, Marks, Turns, Owners, Journals
<1>2. Created'
  BY ScheduleFailsEffect, KindAssumption DEF OrderInv, Created, Owned, RunsGo, Begun, Workers, ExecOf, Moves, Puts, Marks, Turns, Owners, Journals
<1>3. Owned'
  BY ScheduleFailsEffect, KindAssumption DEF OrderInv, Created, Owned, Workers, ExecOf, Moves, Puts, Marks, Turns, Owners, Journals
<1>4. WorkingLatest'
  BY ScheduleFailsEffect, <1>1, KindAssumption DEF OrderInv, WorkingLatest, WaitingLatest, Condemned, Works, Workers, Sweepers, Latest, Begun, Moves, Puts, Marks, Turns, Owners, Journals
<1>5. WaitingLatest'
  BY ScheduleFailsEffect, <1>1, KindAssumption DEF OrderInv, WorkingLatest, WaitingLatest, Condemned, Works, Workers, Sweepers, Latest, Begun, Moves, Puts, Marks, Turns, Owners, Journals
<1>6. Swept'
  BY ScheduleFailsEffect DEF Swept, Moves, Puts, Marks, Turns, Owners, Journals
<1> QED
  BY <1>1, <1>2, <1>3, <1>4, <1>5, <1>6 DEF OrderInv

LEMMA FireOrder ==
    ASSUME InTurn, TypeOK, NoResumeWithoutAnswer, OrderInv, \A k \in Sweepers : ~sweep[k].on,
           NEW e \in Execs, Fire(e)
    PROVE  OrderInv'
<1>1. RunsGo' /\ InOrder' /\ \A d \in Execs : (Begun(d)' <=> Begun(d)) /\ (Latest(d)' <=> Latest(d))
  BY FireEffect, KindAssumption DEF OrderInv, RunsGo, InOrder, Begun, Latest, Workers, Moves, Puts, Marks, Turns, Owners, Journals
<1>2. Created'
  BY FireEffect, KindAssumption DEF OrderInv, Created, Owned, RunsGo, Begun, Workers, ExecOf, Moves, Puts, Marks, Turns, Owners, Journals
<1>3. Owned'
  BY FireEffect, KindAssumption DEF OrderInv, Created, Owned, Workers, ExecOf, Moves, Puts, Marks, Turns, Owners, Journals
<1>4. WorkingLatest'
  BY FireEffect, <1>1, KindAssumption DEF OrderInv, WorkingLatest, WaitingLatest, Condemned, Works, Workers, Sweepers, Latest, Begun, Moves, Puts, Marks, Turns, Owners, Journals
<1>5. WaitingLatest'
  BY FireEffect, <1>1, KindAssumption DEF OrderInv, WorkingLatest, WaitingLatest, Condemned, Works, Workers, Sweepers, Latest, Begun, Moves, Puts, Marks, Turns, Owners, Journals
<1>6. Swept'
  BY FireEffect DEF Swept, Moves, Puts, Marks, Turns, Owners, Journals
<1> QED
  BY <1>1, <1>2, <1>3, <1>4, <1>5, <1>6 DEF OrderInv

LEMMA MisfireOrder ==
    ASSUME InTurn, TypeOK, NoResumeWithoutAnswer, OrderInv, \A k \in Sweepers : ~sweep[k].on,
           NEW e \in Execs, Misfire(e)
    PROVE  OrderInv'
<1>1. RunsGo' /\ InOrder' /\ \A d \in Execs : (Begun(d)' <=> Begun(d)) /\ (Latest(d)' <=> Latest(d))
  BY MisfireEffect, KindAssumption DEF OrderInv, RunsGo, InOrder, Begun, Latest, Workers, Moves, Puts, Marks, Turns, Owners, Journals
<1>2. Created'
  BY MisfireEffect, KindAssumption DEF OrderInv, Created, Owned, RunsGo, Begun, Workers, ExecOf, Moves, Puts, Marks, Turns, Owners, Journals
<1>3. Owned'
  BY MisfireEffect, KindAssumption DEF OrderInv, Created, Owned, Workers, ExecOf, Moves, Puts, Marks, Turns, Owners, Journals
<1>4. WorkingLatest'
  BY MisfireEffect, <1>1, KindAssumption DEF OrderInv, WorkingLatest, WaitingLatest, Condemned, Works, Workers, Sweepers, Latest, Begun, Moves, Puts, Marks, Turns, Owners, Journals
<1>5. WaitingLatest'
  BY MisfireEffect, <1>1, KindAssumption DEF OrderInv, WorkingLatest, WaitingLatest, Condemned, Works, Workers, Sweepers, Latest, Begun, Moves, Puts, Marks, Turns, Owners, Journals
<1>6. Swept'
  BY MisfireEffect DEF Swept, Moves, Puts, Marks, Turns, Owners, Journals
<1> QED
  BY <1>1, <1>2, <1>3, <1>4, <1>5, <1>6 DEF OrderInv

LEMMA ClaimOrder ==
    ASSUME InTurn, TypeOK, NoResumeWithoutAnswer, OrderInv, \A k \in Sweepers : ~sweep[k].on,
           NEW t \in Tokens, Claim(t)
    PROVE  OrderInv'
<1>a. Resuming(t) /\ token[t].st # "free" /\ token[t].ex \in Execs /\ token[t].step \in WaitSteps
          /\ exec[token[t].ex].st # "none" /\ t \in Workers /\ ExecOf(t) = token[t].ex
  BY KindAssumption DEF Claim, Resuming, NoResumeWithoutAnswer, OrderInv, Owned, ExecOf, Workers
<1>1. RunsGo' /\ InOrder' /\ \A d \in Execs : (Begun(d)' <=> Begun(d)) /\ (Latest(d)' <=> Latest(d))
  BY <1>a, ClaimEffect, KindAssumption DEF OrderInv, RunsGo, InOrder, Begun, Latest, Workers, Moves, Puts, Marks, Turns, Owners, Journals
<1>2. Created'
  BY <1>a, ClaimEffect, KindAssumption DEF OrderInv, Created, Owned, RunsGo, Begun, Workers, ExecOf, Moves, Puts, Marks, Turns, Owners, Journals
<1>3. Owned'
  BY <1>a, ClaimEffect, KindAssumption DEF OrderInv, Created, Owned, Workers, ExecOf, Moves, Puts, Marks, Turns, Owners, Journals
<1>4. WorkingLatest'
  BY <1>a, ClaimEffect, <1>1, KindAssumption DEF OrderInv, WorkingLatest, WaitingLatest, Condemned, Works, Workers, Sweepers, Latest, Begun, Moves, Puts, Marks, Turns, Owners, Journals
<1>5. WaitingLatest'
  BY <1>a, ClaimEffect, <1>1, KindAssumption DEF OrderInv, WorkingLatest, WaitingLatest, Condemned, Works, Workers, Sweepers, Latest, Begun, Moves, Puts, Marks, Turns, Owners, Journals
<1>6. Swept'
  BY <1>a, ClaimEffect DEF Swept, Moves, Puts, Marks, Turns, Owners, Journals
<1> QED
  BY <1>1, <1>2, <1>3, <1>4, <1>5, <1>6 DEF OrderInv

LEMMA LoadRefusedOrder ==
    ASSUME InTurn, TypeOK, NoResumeWithoutAnswer, OrderInv, \A k \in Sweepers : ~sweep[k].on,
           NEW t \in Tokens, LoadRefused(t)
    PROVE  OrderInv'
<1>a. Resuming(t) /\ token[t].st # "free" /\ token[t].ex \in Execs /\ token[t].step \in WaitSteps
          /\ exec[token[t].ex].st # "none" /\ t \in Workers /\ ExecOf(t) = token[t].ex
  BY KindAssumption DEF LoadRefused, Resuming, NoResumeWithoutAnswer, OrderInv, Owned, ExecOf, Workers
<1>1. RunsGo' /\ InOrder' /\ \A d \in Execs : (Begun(d)' <=> Begun(d)) /\ (Latest(d)' <=> Latest(d))
  BY <1>a, LoadRefusedEffect, KindAssumption DEF OrderInv, RunsGo, InOrder, Begun, Latest, Workers, Moves, Puts, Marks, Turns, Owners, Journals
<1>2. Created'
  BY <1>a, LoadRefusedEffect, KindAssumption DEF OrderInv, Created, Owned, RunsGo, Begun, Workers, ExecOf, Moves, Puts, Marks, Turns, Owners, Journals
<1>3. Owned'
  BY <1>a, LoadRefusedEffect, KindAssumption DEF OrderInv, Created, Owned, Workers, ExecOf, Moves, Puts, Marks, Turns, Owners, Journals
<1>4. WorkingLatest'
  BY <1>a, LoadRefusedEffect, <1>1, KindAssumption DEF OrderInv, WorkingLatest, WaitingLatest, Condemned, Works, Workers, Sweepers, Latest, Begun, Moves, Puts, Marks, Turns, Owners, Journals
<1>5. WaitingLatest'
  BY <1>a, LoadRefusedEffect, <1>1, KindAssumption DEF OrderInv, WorkingLatest, WaitingLatest, Condemned, Works, Workers, Sweepers, Latest, Begun, Moves, Puts, Marks, Turns, Owners, Journals
<1>6. Swept'
  BY <1>a, LoadRefusedEffect DEF Swept, Moves, Puts, Marks, Turns, Owners, Journals
<1> QED
  BY <1>1, <1>2, <1>3, <1>4, <1>5, <1>6 DEF OrderInv

LEMMA LoadOrder ==
    ASSUME InTurn, TypeOK, NoResumeWithoutAnswer, OrderInv, \A k \in Sweepers : ~sweep[k].on,
           NEW t \in Tokens, Load(t)
    PROVE  OrderInv'
<1>a. Resuming(t) /\ token[t].st # "free" /\ token[t].ex \in Execs /\ token[t].step \in WaitSteps
          /\ exec[token[t].ex].st # "none" /\ t \in Workers /\ ExecOf(t) = token[t].ex
  BY KindAssumption DEF Load, Resuming, NoResumeWithoutAnswer, OrderInv, Owned, ExecOf, Workers
<1>1. RunsGo' /\ InOrder' /\ \A d \in Execs : (Begun(d)' <=> Begun(d)) /\ (Latest(d)' <=> Latest(d))
  BY <1>a, LoadEffect, KindAssumption DEF OrderInv, RunsGo, InOrder, Begun, Latest, Workers, Moves, Puts, Marks, Turns, Owners, Journals
<1>2. Created'
  BY <1>a, LoadEffect, KindAssumption DEF OrderInv, Created, Owned, RunsGo, Begun, Workers, ExecOf, Moves, Puts, Marks, Turns, Owners, Journals
<1>3. Owned'
  BY <1>a, LoadEffect, KindAssumption DEF OrderInv, Created, Owned, Workers, ExecOf, Moves, Puts, Marks, Turns, Owners, Journals
<1>4. WorkingLatest'
  BY <1>a, LoadEffect, <1>1, KindAssumption DEF OrderInv, WorkingLatest, WaitingLatest, Condemned, Works, Workers, Sweepers, Latest, Begun, Moves, Puts, Marks, Turns, Owners, Journals
<1>5. WaitingLatest'
  BY <1>a, LoadEffect, <1>1, KindAssumption DEF OrderInv, WorkingLatest, WaitingLatest, Condemned, Works, Workers, Sweepers, Latest, Begun, Moves, Puts, Marks, Turns, Owners, Journals
<1>6. Swept'
  BY <1>a, LoadEffect DEF Swept, Moves, Puts, Marks, Turns, Owners, Journals
<1> QED
  BY <1>1, <1>2, <1>3, <1>4, <1>5, <1>6 DEF OrderInv

LEMMA ResumeRefusedOrder ==
    ASSUME InTurn, TypeOK, NoResumeWithoutAnswer, OrderInv, \A k \in Sweepers : ~sweep[k].on,
           NEW t \in Tokens, ResumeRefused(t)
    PROVE  OrderInv'
<1>a. Resuming(t) /\ token[t].st # "free" /\ token[t].ex \in Execs /\ token[t].step \in WaitSteps
          /\ exec[token[t].ex].st # "none" /\ t \in Workers /\ ExecOf(t) = token[t].ex
  BY KindAssumption DEF ResumeRefused, Resuming, NoResumeWithoutAnswer, OrderInv, Owned, ExecOf, Workers
<1>1. RunsGo' /\ InOrder' /\ \A d \in Execs : (Begun(d)' <=> Begun(d)) /\ (Latest(d)' <=> Latest(d))
  BY <1>a, ResumeRefusedEffect, KindAssumption DEF OrderInv, RunsGo, InOrder, Begun, Latest, Workers, Moves, Puts, Marks, Turns, Owners, Journals
<1>2. Created'
  BY <1>a, ResumeRefusedEffect, KindAssumption DEF OrderInv, Created, Owned, RunsGo, Begun, Workers, ExecOf, Moves, Puts, Marks, Turns, Owners, Journals
<1>3. Owned'
  BY <1>a, ResumeRefusedEffect, KindAssumption DEF OrderInv, Created, Owned, Workers, ExecOf, Moves, Puts, Marks, Turns, Owners, Journals
<1>4. WorkingLatest'
  BY <1>a, ResumeRefusedEffect, <1>1, KindAssumption DEF OrderInv, WorkingLatest, WaitingLatest, Condemned, Works, Workers, Sweepers, Latest, Begun, Moves, Puts, Marks, Turns, Owners, Journals
<1>5. WaitingLatest'
  BY <1>a, ResumeRefusedEffect, <1>1, KindAssumption DEF OrderInv, WorkingLatest, WaitingLatest, Condemned, Works, Workers, Sweepers, Latest, Begun, Moves, Puts, Marks, Turns, Owners, Journals
<1>6. Swept'
  BY <1>a, ResumeRefusedEffect DEF Swept, Moves, Puts, Marks, Turns, Owners, Journals
<1> QED
  BY <1>1, <1>2, <1>3, <1>4, <1>5, <1>6 DEF OrderInv

LEMMA AcquireLockOrder ==
    ASSUME InTurn, TypeOK, NoResumeWithoutAnswer, OrderInv, \A k \in Sweepers : ~sweep[k].on,
           NEW t \in Tokens, AcquireLock(t)
    PROVE  OrderInv'
<1>a. Resuming(t) /\ token[t].st # "free" /\ token[t].ex \in Execs /\ token[t].step \in WaitSteps
          /\ exec[token[t].ex].st # "none" /\ t \in Workers /\ ExecOf(t) = token[t].ex
  BY KindAssumption DEF AcquireLock, Resuming, NoResumeWithoutAnswer, OrderInv, Owned, ExecOf, Workers
<1>1. RunsGo' /\ InOrder' /\ \A d \in Execs : (Begun(d)' <=> Begun(d)) /\ (Latest(d)' <=> Latest(d))
  BY <1>a, AcquireLockEffect, KindAssumption DEF OrderInv, RunsGo, InOrder, Begun, Latest, Workers, Moves, Puts, Marks, Turns, Owners, Journals
<1>2. Created'
  BY <1>a, AcquireLockEffect, KindAssumption DEF OrderInv, Created, Owned, RunsGo, Begun, Workers, ExecOf, Moves, Puts, Marks, Turns, Owners, Journals
<1>3. Owned'
  BY <1>a, AcquireLockEffect, KindAssumption DEF OrderInv, Created, Owned, Workers, ExecOf, Moves, Puts, Marks, Turns, Owners, Journals
<1>4. WorkingLatest'
  BY <1>a, AcquireLockEffect, <1>1, KindAssumption DEF OrderInv, WorkingLatest, WaitingLatest, Condemned, Works, Workers, Sweepers, Latest, Begun, Moves, Puts, Marks, Turns, Owners, Journals
<1>5. WaitingLatest'
  BY <1>a, AcquireLockEffect, <1>1, KindAssumption DEF OrderInv, WorkingLatest, WaitingLatest, Condemned, Works, Workers, Sweepers, Latest, Begun, Moves, Puts, Marks, Turns, Owners, Journals
<1>6. Swept'
  BY <1>a, AcquireLockEffect DEF Swept, Moves, Puts, Marks, Turns, Owners, Journals
<1> QED
  BY <1>1, <1>2, <1>3, <1>4, <1>5, <1>6 DEF OrderInv

LEMMA ResumeReturnOrder ==
    ASSUME InTurn, TypeOK, NoResumeWithoutAnswer, OrderInv, \A k \in Sweepers : ~sweep[k].on,
           NEW t \in Tokens, ResumeReturn(t)
    PROVE  OrderInv'
<1>a. Resuming(t) /\ token[t].st # "free" /\ token[t].ex \in Execs /\ token[t].step \in WaitSteps
          /\ exec[token[t].ex].st # "none" /\ t \in Workers /\ ExecOf(t) = token[t].ex
  BY KindAssumption DEF ResumeReturn, Resuming, NoResumeWithoutAnswer, OrderInv, Owned, ExecOf, Workers
<1>1. RunsGo' /\ InOrder' /\ \A d \in Execs : (Begun(d)' <=> Begun(d)) /\ (Latest(d)' <=> Latest(d))
  BY <1>a, ResumeReturnEffect, KindAssumption DEF OrderInv, RunsGo, InOrder, Begun, Latest, Workers, Moves, Puts, Marks, Turns, Owners, Journals
<1>2. Created'
  BY <1>a, ResumeReturnEffect, KindAssumption DEF OrderInv, Created, Owned, RunsGo, Begun, Workers, ExecOf, Moves, Puts, Marks, Turns, Owners, Journals
<1>3. Owned'
  BY <1>a, ResumeReturnEffect, KindAssumption DEF OrderInv, Created, Owned, Workers, ExecOf, Moves, Puts, Marks, Turns, Owners, Journals
<1>4. WorkingLatest'
  BY <1>a, ResumeReturnEffect, <1>1, KindAssumption DEF OrderInv, WorkingLatest, WaitingLatest, Condemned, Works, Workers, Sweepers, Latest, Begun, Moves, Puts, Marks, Turns, Owners, Journals
<1>5. WaitingLatest'
  BY <1>a, ResumeReturnEffect, <1>1, KindAssumption DEF OrderInv, WorkingLatest, WaitingLatest, Condemned, Works, Workers, Sweepers, Latest, Begun, Moves, Puts, Marks, Turns, Owners, Journals
<1>6. Swept'
  BY <1>a, ResumeReturnEffect DEF Swept, Moves, Puts, Marks, Turns, Owners, Journals
<1> QED
  BY <1>1, <1>2, <1>3, <1>4, <1>5, <1>6 DEF OrderInv

LEMMA ResumePersistOrder ==
    ASSUME InTurn, TypeOK, NoResumeWithoutAnswer, OrderInv, \A k \in Sweepers : ~sweep[k].on,
           NEW t \in Tokens, ResumePersist(t)
    PROVE  OrderInv'
<1>a. Resuming(t) /\ token[t].st # "free" /\ token[t].ex \in Execs /\ token[t].step \in WaitSteps
          /\ exec[token[t].ex].st # "none" /\ t \in Workers /\ ExecOf(t) = token[t].ex
  BY KindAssumption DEF ResumePersist, Resuming, NoResumeWithoutAnswer, OrderInv, Owned, ExecOf, Workers
<1>1. RunsGo' /\ InOrder' /\ \A d \in Execs : (Begun(d)' <=> Begun(d)) /\ (Latest(d)' <=> Latest(d))
  BY <1>a, ResumePersistEffect, KindAssumption DEF OrderInv, RunsGo, InOrder, Begun, Latest, Workers, Moves, Puts, Marks, Turns, Owners, Journals
<1>2. Created'
  BY <1>a, ResumePersistEffect, KindAssumption DEF OrderInv, Created, Owned, RunsGo, Begun, Workers, ExecOf, Moves, Puts, Marks, Turns, Owners, Journals
<1>3. Owned'
  BY <1>a, ResumePersistEffect, KindAssumption DEF OrderInv, Created, Owned, Workers, ExecOf, Moves, Puts, Marks, Turns, Owners, Journals
<1>4. WorkingLatest'
  BY <1>a, ResumePersistEffect, <1>1, KindAssumption DEF OrderInv, WorkingLatest, WaitingLatest, Condemned, Works, Workers, Sweepers, Latest, Begun, Moves, Puts, Marks, Turns, Owners, Journals
<1>5. WaitingLatest'
  BY <1>a, ResumePersistEffect, <1>1, KindAssumption DEF OrderInv, WorkingLatest, WaitingLatest, Condemned, Works, Workers, Sweepers, Latest, Begun, Moves, Puts, Marks, Turns, Owners, Journals
<1>6. Swept'
  BY <1>a, ResumePersistEffect DEF Swept, Moves, Puts, Marks, Turns, Owners, Journals
<1> QED
  BY <1>1, <1>2, <1>3, <1>4, <1>5, <1>6 DEF OrderInv

LEMMA ResumeFinalOrder ==
    ASSUME InTurn, TypeOK, NoResumeWithoutAnswer, OrderInv, \A k \in Sweepers : ~sweep[k].on,
           NEW t \in Tokens, ResumeFinal(t)
    PROVE  OrderInv'
<1>a. Resuming(t) /\ token[t].st # "free" /\ token[t].ex \in Execs /\ token[t].step \in WaitSteps
          /\ exec[token[t].ex].st # "none" /\ t \in Workers /\ ExecOf(t) = token[t].ex
  BY KindAssumption DEF ResumeFinal, Resuming, NoResumeWithoutAnswer, OrderInv, Owned, ExecOf, Workers
<1>1. RunsGo' /\ InOrder' /\ \A d \in Execs : (Begun(d)' <=> Begun(d)) /\ (Latest(d)' <=> Latest(d))
  BY <1>a, ResumeFinalEffect, KindAssumption DEF OrderInv, RunsGo, InOrder, Begun, Latest, Workers, Moves, Puts, Marks, Turns, Owners, Journals
<1>2. Created'
  BY <1>a, ResumeFinalEffect, KindAssumption DEF OrderInv, Created, Owned, RunsGo, Begun, Workers, ExecOf, Moves, Puts, Marks, Turns, Owners, Journals
<1>3. Owned'
  BY <1>a, ResumeFinalEffect, KindAssumption DEF OrderInv, Created, Owned, Workers, ExecOf, Moves, Puts, Marks, Turns, Owners, Journals
<1>4. WorkingLatest'
  BY <1>a, ResumeFinalEffect, <1>1, KindAssumption DEF OrderInv, WorkingLatest, WaitingLatest, Condemned, Works, Workers, Sweepers, Latest, Begun, Moves, Puts, Marks, Turns, Owners, Journals
<1>5. WaitingLatest'
  BY <1>a, ResumeFinalEffect, <1>1, KindAssumption DEF OrderInv, WorkingLatest, WaitingLatest, Condemned, Works, Workers, Sweepers, Latest, Begun, Moves, Puts, Marks, Turns, Owners, Journals
<1>6. Swept'
  BY <1>a, ResumeFinalEffect DEF Swept, Moves, Puts, Marks, Turns, Owners, Journals
<1> QED
  BY <1>1, <1>2, <1>3, <1>4, <1>5, <1>6 DEF OrderInv

LEMMA ResumeCrashOrder ==
    ASSUME InTurn, TypeOK, NoResumeWithoutAnswer, OrderInv, \A k \in Sweepers : ~sweep[k].on,
           NEW t \in Tokens, ResumeCrash(t)
    PROVE  OrderInv'
<1>a. Resuming(t) /\ token[t].st # "free" /\ token[t].ex \in Execs /\ token[t].step \in WaitSteps
          /\ exec[token[t].ex].st # "none" /\ t \in Workers /\ ExecOf(t) = token[t].ex
  BY KindAssumption DEF ResumeCrash, Resuming, NoResumeWithoutAnswer, OrderInv, Owned, ExecOf, Workers
<1>1. RunsGo' /\ InOrder' /\ \A d \in Execs : (Begun(d)' <=> Begun(d)) /\ (Latest(d)' <=> Latest(d))
  BY <1>a, ResumeCrashEffect, KindAssumption DEF OrderInv, RunsGo, InOrder, Begun, Latest, Workers, Moves, Puts, Marks, Turns, Owners, Journals
<1>2. Created'
  BY <1>a, ResumeCrashEffect, KindAssumption DEF OrderInv, Created, Owned, RunsGo, Begun, Workers, ExecOf, Moves, Puts, Marks, Turns, Owners, Journals
<1>3. Owned'
  BY <1>a, ResumeCrashEffect, KindAssumption DEF OrderInv, Created, Owned, Workers, ExecOf, Moves, Puts, Marks, Turns, Owners, Journals
<1>4. WorkingLatest'
  BY <1>a, ResumeCrashEffect, <1>1, KindAssumption DEF OrderInv, WorkingLatest, WaitingLatest, Condemned, Works, Workers, Sweepers, Latest, Begun, Moves, Puts, Marks, Turns, Owners, Journals
<1>5. WaitingLatest'
  BY <1>a, ResumeCrashEffect, <1>1, KindAssumption DEF OrderInv, WorkingLatest, WaitingLatest, Condemned, Works, Workers, Sweepers, Latest, Begun, Moves, Puts, Marks, Turns, Owners, Journals
<1>6. Swept'
  BY <1>a, ResumeCrashEffect DEF Swept, Moves, Puts, Marks, Turns, Owners, Journals
<1> QED
  BY <1>1, <1>2, <1>3, <1>4, <1>5, <1>6 DEF OrderInv

LEMMA ToggleOrder ==
    ASSUME InTurn, TypeOK, NoResumeWithoutAnswer, OrderInv, \A k \in Sweepers : ~sweep[k].on,
           Toggle
    PROVE  OrderInv'
<1>0. Owners
  BY OwnersBy DEF Toggle
<1>1. RunsGo' /\ InOrder' /\ \A d \in Execs : (Begun(d)' <=> Begun(d)) /\ (Latest(d)' <=> Latest(d))
  BY <1>0, KindAssumption DEF OrderInv, RunsGo, InOrder, Begun, Latest, Workers, Toggle, CancelRead, Moves, Puts, Marks, Turns, Owners, Journals
<1>2. Created'
  BY <1>0, KindAssumption DEF OrderInv, Created, Owned, RunsGo, Begun, Workers, ExecOf, Toggle, CancelRead, Moves, Puts, Marks, Turns, Owners, Journals
<1>3. Owned'
  BY <1>0, KindAssumption DEF OrderInv, Created, Owned, Workers, ExecOf, Toggle, CancelRead, Moves, Puts, Marks, Turns, Owners, Journals
<1>4. WorkingLatest'
  BY <1>0, <1>1, KindAssumption DEF OrderInv, WorkingLatest, WaitingLatest, Condemned, Works, Workers, Sweepers, Latest, Begun, Toggle, CancelRead, Moves, Puts, Marks, Turns, Owners, Journals
<1>5. WaitingLatest'
  BY <1>0, <1>1, KindAssumption DEF OrderInv, WorkingLatest, WaitingLatest, Condemned, Works, Workers, Sweepers, Latest, Begun, Toggle, CancelRead, Moves, Puts, Marks, Turns, Owners, Journals
<1>6. Swept'
  BY <1>0 DEF Swept, WaitingExecs, PendingOf, ToCancel, AwaitedBy, Orphans, NoSweep, TypeOK, SweepStates, Sweepers, Toggle, CancelRead, Moves, Puts, Marks, Turns, Owners, Journals
<1> QED
  BY <1>1, <1>2, <1>3, <1>4, <1>5, <1>6 DEF OrderInv

LEMMA ExpireReadOrder ==
    ASSUME InTurn, TypeOK, NoResumeWithoutAnswer, OrderInv, \A k \in Sweepers : ~sweep[k].on,
           ExpireRead
    PROVE  OrderInv'
<1>0. Owners
  BY OwnersBy DEF ExpireRead
<1>1. RunsGo' /\ InOrder' /\ \A d \in Execs : (Begun(d)' <=> Begun(d)) /\ (Latest(d)' <=> Latest(d))
  BY <1>0, KindAssumption DEF OrderInv, RunsGo, InOrder, Begun, Latest, Workers, ExpireRead, Moves, Puts, Marks, Turns, Owners, Journals
<1>2. Created'
  BY <1>0, KindAssumption DEF OrderInv, Created, Owned, RunsGo, Begun, Workers, ExecOf, ExpireRead, Moves, Puts, Marks, Turns, Owners, Journals
<1>3. Owned'
  BY <1>0, KindAssumption DEF OrderInv, Created, Owned, Workers, ExecOf, ExpireRead, Moves, Puts, Marks, Turns, Owners, Journals
<1>4. WorkingLatest'
  BY <1>0, <1>1, KindAssumption DEF OrderInv, WorkingLatest, WaitingLatest, Condemned, Works, Workers, Sweepers, Latest, Begun, ExpireRead, Moves, Puts, Marks, Turns, Owners, Journals
<1>5. WaitingLatest'
  BY <1>0, <1>1, KindAssumption DEF OrderInv, WorkingLatest, WaitingLatest, Condemned, Works, Workers, Sweepers, Latest, Begun, ExpireRead, Moves, Puts, Marks, Turns, Owners, Journals
<1>6. Swept'
  BY <1>0 DEF Swept, WaitingExecs, PendingOf, ToCancel, AwaitedBy, Orphans, NoSweep, TypeOK, SweepStates, Sweepers, ExpireRead, Moves, Puts, Marks, Turns, Owners, Journals
<1> QED
  BY <1>1, <1>2, <1>3, <1>4, <1>5, <1>6 DEF OrderInv

LEMMA OrphanReadOrder ==
    ASSUME InTurn, TypeOK, NoResumeWithoutAnswer, OrderInv, \A k \in Sweepers : ~sweep[k].on,
           OrphanRead
    PROVE  OrderInv'
<1>0. Owners
  BY OwnersBy DEF OrphanRead
<1>1. RunsGo' /\ InOrder' /\ \A d \in Execs : (Begun(d)' <=> Begun(d)) /\ (Latest(d)' <=> Latest(d))
  BY <1>0, KindAssumption DEF OrderInv, RunsGo, InOrder, Begun, Latest, Workers, OrphanRead, Moves, Puts, Marks, Turns, Owners, Journals
<1>2. Created'
  BY <1>0, KindAssumption DEF OrderInv, Created, Owned, RunsGo, Begun, Workers, ExecOf, OrphanRead, Moves, Puts, Marks, Turns, Owners, Journals
<1>3. Owned'
  BY <1>0, KindAssumption DEF OrderInv, Created, Owned, Workers, ExecOf, OrphanRead, Moves, Puts, Marks, Turns, Owners, Journals
<1>4. WorkingLatest'
  BY <1>0, <1>1, KindAssumption DEF OrderInv, WorkingLatest, WaitingLatest, Condemned, Works, Workers, Sweepers, Latest, Begun, OrphanRead, Moves, Puts, Marks, Turns, Owners, Journals
<1>5. WaitingLatest'
  BY <1>0, <1>1, KindAssumption DEF OrderInv, WorkingLatest, WaitingLatest, Condemned, Works, Workers, Sweepers, Latest, Begun, OrphanRead, Moves, Puts, Marks, Turns, Owners, Journals
<1>6. Swept'
  BY <1>0 DEF Swept, WaitingExecs, PendingOf, ToCancel, AwaitedBy, Orphans, NoSweep, TypeOK, SweepStates, Sweepers, OrphanRead, Moves, Puts, Marks, Turns, Owners, Journals
<1> QED
  BY <1>1, <1>2, <1>3, <1>4, <1>5, <1>6 DEF OrderInv

LEMMA DeadlineOrder ==
    ASSUME InTurn, TypeOK, NoResumeWithoutAnswer, OrderInv, \A k \in Sweepers : ~sweep[k].on,
           NEW t \in Tokens, Deadline(t)
    PROVE  OrderInv'
<1>0. Owners
  BY OwnersBy DEF Deadline
<1>1. RunsGo' /\ InOrder' /\ \A d \in Execs : (Begun(d)' <=> Begun(d)) /\ (Latest(d)' <=> Latest(d))
  BY <1>0, KindAssumption DEF OrderInv, RunsGo, InOrder, Begun, Latest, Workers, Deadline, Moves, Puts, Marks, Turns, Owners, Journals
<1>2. Created'
  BY <1>0, KindAssumption DEF OrderInv, Created, Owned, RunsGo, Begun, Workers, ExecOf, Deadline, Moves, Puts, Marks, Turns, Owners, Journals
<1>3. Owned'
  BY <1>0, KindAssumption DEF OrderInv, Created, Owned, Workers, ExecOf, Deadline, Moves, Puts, Marks, Turns, Owners, Journals
<1>4. WorkingLatest'
  BY <1>0, <1>1, KindAssumption DEF OrderInv, WorkingLatest, WaitingLatest, Condemned, Works, Workers, Sweepers, Latest, Begun, Deadline, Moves, Puts, Marks, Turns, Owners, Journals
<1>5. WaitingLatest'
  BY <1>0, <1>1, KindAssumption DEF OrderInv, WorkingLatest, WaitingLatest, Condemned, Works, Workers, Sweepers, Latest, Begun, Deadline, Moves, Puts, Marks, Turns, Owners, Journals
<1>6. Swept'
  BY <1>0 DEF Swept, Deadline, Moves, Puts, Marks, Turns, Owners, Journals
<1> QED
  BY <1>1, <1>2, <1>3, <1>4, <1>5, <1>6 DEF OrderInv

LEMMA AgeOrder ==
    ASSUME InTurn, TypeOK, NoResumeWithoutAnswer, OrderInv, \A k \in Sweepers : ~sweep[k].on,
           NEW e \in Execs, Age(e)
    PROVE  OrderInv'
<1>0. Owners
  BY OwnersBy DEF Age
<1>1. RunsGo' /\ InOrder' /\ \A d \in Execs : (Begun(d)' <=> Begun(d)) /\ (Latest(d)' <=> Latest(d))
  BY <1>0, KindAssumption DEF OrderInv, RunsGo, InOrder, Begun, Latest, Workers, Age, Moves, Puts, Marks, Turns, Owners, Journals
<1>2. Created'
  BY <1>0, KindAssumption DEF OrderInv, Created, Owned, RunsGo, Begun, Workers, ExecOf, Age, Moves, Puts, Marks, Turns, Owners, Journals
<1>3. Owned'
  BY <1>0, KindAssumption DEF OrderInv, Created, Owned, Workers, ExecOf, Age, Moves, Puts, Marks, Turns, Owners, Journals
<1>4. WorkingLatest'
  BY <1>0, <1>1, KindAssumption DEF OrderInv, WorkingLatest, WaitingLatest, Condemned, Works, Workers, Sweepers, Latest, Begun, Age, Moves, Puts, Marks, Turns, Owners, Journals
<1>5. WaitingLatest'
  BY <1>0, <1>1, KindAssumption DEF OrderInv, WorkingLatest, WaitingLatest, Condemned, Works, Workers, Sweepers, Latest, Begun, Age, Moves, Puts, Marks, Turns, Owners, Journals
<1>6. Swept'
  BY <1>0 DEF Swept, Age, Moves, Puts, Marks, Turns, Owners, Journals
<1> QED
  BY <1>1, <1>2, <1>3, <1>4, <1>5, <1>6 DEF OrderInv

LEMMA CrashOrder ==
    ASSUME InTurn, TypeOK, NoResumeWithoutAnswer, OrderInv, \A k \in Sweepers : ~sweep[k].on,
           Crash
    PROVE  OrderInv'
<1>1. RunsGo' /\ InOrder' /\ \A d \in Execs : (Begun(d)' <=> Begun(d)) /\ (Latest(d)' <=> Latest(d))
  BY CrashEffect, KindAssumption DEF OrderInv, RunsGo, InOrder, Begun, Latest, Workers, Moves, Puts, Marks, Turns, Owners, Journals
<1>2. Created'
  BY CrashEffect, KindAssumption DEF OrderInv, Created, Owned, RunsGo, Begun, Workers, ExecOf, Moves, Puts, Marks, Turns, Owners, Journals
<1>3. Owned'
  BY CrashEffect, KindAssumption DEF OrderInv, Created, Owned, Workers, ExecOf, Moves, Puts, Marks, Turns, Owners, Journals
<1>4. WorkingLatest'
  BY CrashEffect, <1>1, KindAssumption DEF OrderInv, WorkingLatest, WaitingLatest, Condemned, Works, Workers, Sweepers, Latest, Begun, Moves, Puts, Marks, Turns, Owners, Journals
<1>5. WaitingLatest'
  BY CrashEffect, <1>1, KindAssumption DEF OrderInv, WorkingLatest, WaitingLatest, Condemned, Works, Workers, Sweepers, Latest, Begun, Moves, Puts, Marks, Turns, Owners, Journals
<1>6. Swept'
  BY CrashEffect DEF Swept, WaitingExecs, PendingOf, ToCancel, AwaitedBy, Orphans, NoSweep, TypeOK, SweepStates, Sweepers, Moves, Puts, Marks, Turns, Owners, Journals
<1> QED
  BY <1>1, <1>2, <1>3, <1>4, <1>5, <1>6 DEF OrderInv

\* When a run begins nobody else works.
LEMMA RunStartAlone ==
    ASSUME InTurn, TypeOK, LockHeld, OrderInv, NEW e \in Execs, RunStart(e)
    PROVE  \A v \in Workers : ~Works(v)
<1>1. \A v \in Workers : worker[v].pc \notin {"snap", "dag"}
  BY RunStartEffect, NoneAssumption DEF LockHeld, Workers
<1>2. \A v \in Execs : ~Works(v)
  BY <1>1 DEF OrderInv, RunsGo, Works, Workers
<1>3. \A v \in Tokens : ~Works(v)
  BY <1>1, RunStartEffect DEF InTurn, Resuming, Works, Workers
<1> QED
  BY <1>2, <1>3 DEF Workers

\* The run that begins is the latest: nothing is worked on, and what waits is to be cancelled.
LEMMA RunStartOrder ==
    ASSUME InTurn, TypeOK, LockHeld, NoResumeWithoutAnswer, OrderInv,
           \A k \in Sweepers : ~sweep[k].on, NEW e \in Execs, RunStart(e)
    PROVE  OrderInv'
<1>1. e \in Workers /\ ~Begun(e) /\ \A d \in Execs : Begun(d)' <=> (Begun(d) \/ d = e)
  BY RunStartEffect DEF Moves, Begun, Workers
<1>2. \A d \in Execs : Begun(d) => d < e
  <2> SUFFICES ASSUME NEW d \in Execs, Begun(d) PROVE d < e
    OBVIOUS
  <2>1. ~(e < d) /\ e # d
    BY <1>1 DEF OrderInv, InOrder
  <2>2. d \in Nat /\ e \in Nat
    BY ExecsAssumption
  <2> QED
    BY <2>1, <2>2
<1>3. \A v \in Workers : ~Works(v)
  BY RunStartAlone
<1>4. RunsGo' /\ InOrder'
  <2>1. \A d \in Execs : d < e => Begun(d)
    BY RunStartEffect DEF Begun
  <2>2. RunsGo'
    BY RunStartEffect, KindAssumption DEF OrderInv, RunsGo, Moves, Workers
  <2>3. InOrder'
    BY <1>1, <2>1 DEF OrderInv, InOrder
  <2> QED
    BY <2>2, <2>3
<1>5. Created' /\ Owned'
  BY <1>1, RunStartEffect DEF OrderInv, Created, Owned, Moves, Workers
<1>6. WaitingLatest'
  <2>1. sweep'["run"] = [on |-> TRUE, ex |-> WaitingExecs, tk |-> PendingOf(WaitingExecs)]
    BY RunStartEffect DEF TypeOK, SweepStates, Sweepers
  <2>2. ~sweep["run"].on
    BY DEF Sweepers
  <2> SUFFICES ASSUME NEW d \in Execs, exec[d].st = "waiting", NEW f \in Execs, Begun(f)'
               PROVE  f <= d \/ worker'[f].blind \/ Condemned(d, f)'
    BY RunStartEffect DEF WaitingLatest
  <2>3. CASE f = e
    BY <2>1, <2>3, RunStartEffect DEF Condemned, WaitingExecs, Moves, Workers
  <2>4. CASE f # e
    BY <2>2, <2>4, <1>1, RunStartEffect DEF OrderInv, WaitingLatest, Condemned, Moves, Workers
  <2> QED
    BY <2>3, <2>4
<1>7. WorkingLatest'
  <2>1. ExecOf(e)' = e /\ \A d \in Execs : Begun(d)' => d <= e
    BY <1>1, <1>2, ExecsAssumption DEF ExecOf
  <2>2. \A v \in Workers : Works(v)' => v = e
    BY <1>3, RunStartEffect DEF Works, Moves
  <2> QED
    BY <2>1, <2>2 DEF WorkingLatest, Latest
<1>8. Swept'
  BY RunStartEffect DEF OrderInv, Swept, WaitingExecs, PendingOf, TypeOK, SweepStates, Sweepers
<1> QED
  BY <1>4, <1>5, <1>6, <1>7, <1>8 DEF OrderInv

Ending ==
    /\ Owners /\ UNCHANGED worker
    /\ \A d \in Execs : \/ exec'[d].st = exec[d].st
                        \/ exec'[d].st \in {"cancelled", "failed"} /\ exec[d].st # "none"
    /\ \A t \in Tokens : /\ token'[t].ex = token[t].ex /\ token'[t].step = token[t].step
                         /\ token[t].st = "free" <=> token'[t].st = "free"
    /\ \A d \in Execs : sweep["run"].on /\ d \in sweep["run"].ex
         => exec'[d].st # "waiting" \/ sweep'["run"] = sweep["run"]
    /\ \A k \in Sweepers : sweep'[k] = sweep[k] \/ ~sweep'[k].on

\* What a sweep writes waits no more.
LEMMA WriteOrder ==
    ASSUME TypeOK, OrderInv, Write, \A e \in Execs : ~RunCancelFails(e)
    PROVE  OrderInv'
<1>a. Ending
  <2>1. ASSUME NEW k \in Sweepers, NEW ts \in {"cancelled", "expired"}, NEW es \in {"cancelled", "failed"},
               Closes(k, ts, es)
        PROVE  Ending
    <3>1. sweep'[k] = NoSweep /\ \A j \in Sweepers \ {k} : sweep'[j] = sweep[j]
      BY <2>1 DEF Closes, TypeOK, SweepStates
    <3>2. \A d \in Execs : \/ exec'[d].st = exec[d].st
                           \/ exec'[d].st \in {"cancelled", "failed"} /\ exec[d].st # "none"
      BY <2>1 DEF Closes, OrderInv, Swept
    <3>3. \A t \in Tokens : /\ token'[t].ex = token[t].ex /\ token'[t].step = token[t].step
                            /\ token[t].st = "free" <=> token'[t].st = "free"
      BY <2>1 DEF Closes, OrderInv, Swept
    <3>4. \A d \in Execs : sweep["run"].on /\ d \in sweep["run"].ex
            => exec'[d].st # "waiting" \/ sweep'["run"] = sweep["run"]
      BY <2>1, <3>1 DEF Closes, Sweepers
    <3> QED
      BY <2>1, <3>1, <3>2, <3>3, <3>4 DEF Ending, Closes, NoSweep
  <2>2. CASE OrphanWrite
    <3>1. sweep'["orphan"] = NoSweep /\ \A j \in Sweepers \ {"orphan"} : sweep'[j] = sweep[j]
      BY <2>2, OrphanWriteEffect DEF TypeOK, SweepStates, Sweepers
    <3>2. \A d \in Execs : \/ exec'[d].st = exec[d].st
                           \/ exec'[d].st \in {"cancelled", "failed"} /\ exec[d].st # "none"
      BY <2>2, OrphanWriteEffect DEF OrderInv, Swept, Sweepers
    <3> QED
      BY <2>2, <3>1, <3>2, OrphanWriteEffect DEF Ending, NoSweep, Sweepers
  <2> QED
    BY <2>1, <2>2, WriteEffect DEF Sweepers
<1>4. /\ \A d \in Execs : (Begun(d)' <=> Begun(d)) /\ (Latest(d)' <=> Latest(d))
      /\ \A v \in Workers : (Works(v)' <=> Works(v))
  BY <1>a DEF Ending, Begun, Latest, Works
<1>5. RunsGo' /\ InOrder'
  BY <1>a, <1>4 DEF Ending, OrderInv, RunsGo, InOrder
<1>6. Created' /\ Owned'
  BY <1>a, <1>4 DEF Ending, OrderInv, Created, Owned
<1>9. Swept'
  BY <1>a DEF Ending, OrderInv, Swept, TypeOK, SweepStates
<1>7. WorkingLatest'
  BY <1>a, <1>4 DEF Ending, OrderInv, WorkingLatest, Latest, Owners
<1>8. WaitingLatest'
  BY <1>a, <1>4 DEF Ending, OrderInv, WaitingLatest, Condemned
<1> QED
  BY <1>5, <1>6, <1>7, <1>8, <1>9 DEF OrderInv

\* The run whose cancellation failed is blind: what waits may stay behind it.
LEMMA RunCancelFailsOrder ==
    ASSUME TypeOK, LockHeld, OrderInv, NEW e \in Execs, RunCancelFails(e)
    PROVE  OrderInv'
<1>1. /\ \A d \in Execs : (Begun(d)' <=> Begun(d)) /\ (Latest(d) => Latest(d)')
      /\ \A v \in Workers : (Works(v)' <=> Works(v))
  BY RunCancelFailsEffect DEF Begun, Latest, Works, Workers
<1>2. RunsGo' /\ InOrder' /\ Created' /\ Owned'
  BY <1>1, RunCancelFailsEffect DEF OrderInv, RunsGo, InOrder, Created, Owned, Workers
<1>3. Swept'
  BY RunCancelFailsEffect DEF OrderInv, Swept, TypeOK, SweepStates, Sweepers, NoSweep
<1>4. WorkingLatest'
  <2> SUFFICES ASSUME NEW w \in Workers, Works(w), NEW f \in Execs, Begun(f)
               PROVE  f <= ExecOf(w) \/ worker'[f].blind
    BY <1>1, RunCancelFailsEffect DEF WorkingLatest, Latest, Owners
  <2> QED
    BY RunCancelFailsEffect DEF OrderInv, WorkingLatest, Latest, Workers
<1>5. WaitingLatest'
  <2> SUFFICES ASSUME NEW d \in Execs, exec[d].st = "waiting", NEW f \in Execs, Begun(f)
               PROVE  f <= d \/ worker'[f].blind
    BY <1>1, RunCancelFailsEffect DEF WaitingLatest
  <2>1. Condemned(d, f) => f = e
    BY RunCancelFailsEffect DEF Condemned, LockHeld, Workers
  <2> QED
    BY <2>1, RunCancelFailsEffect DEF OrderInv, WaitingLatest, Workers
<1> QED
  BY <1>2, <1>3, <1>4, <1>5 DEF OrderInv

LEMMA OrderStep ==
    InTurn /\ TypeOK /\ LockHeld /\ NoResumeWithoutAnswer /\ OrderInv /\ [Next]_vars => OrderInv'
<1> SUFFICES ASSUME InTurn, TypeOK, LockHeld, NoResumeWithoutAnswer, OrderInv, [Next]_vars
             PROVE  OrderInv'
  OBVIOUS
<1>1. CASE Write
  BY <1>1, WriteOrder, RunCancelFailsOrder
<1>2. ASSUME \A k \in Sweepers : ~sweep[k].on, NEW e \in Execs, RunStep(e) \/ Fire(e) \/ Misfire(e) \/ Age(e)
      PROVE  OrderInv'
  BY <1>2, RunStartOrder, RunCreateOrder, RunFlushOrder, RunEndOrder, RunAbortOrder, FireOrder,
     MisfireOrder, AgeOrder DEF RunStep
<1>3. ASSUME \A k \in Sweepers : ~sweep[k].on, NEW w \in Workers, DagStep(w)
      PROVE  OrderInv'
  BY <1>3, SuspendOrder, SuspendFailsOrder, StepFailsOrder, SkipStepOrder, AskTokenOrder, MailOutOrder,
     MailFailsOrder DEF DagStep
<1>4. ASSUME \A k \in Sweepers : ~sweep[k].on, NEW t \in Tokens, HandlerStep(t) \/ Deadline(t)
      PROVE  OrderInv'
  BY <1>4, AnswerOrder, ScheduleOrder, ScheduleFailsOrder, DeadlineOrder DEF HandlerStep
<1>5. ASSUME \A k \in Sweepers : ~sweep[k].on, NEW t \in Tokens, ResumeStep(t)
      PROVE  OrderInv'
  BY <1>5, ClaimOrder, LoadRefusedOrder, LoadOrder, ResumeRefusedOrder, AcquireLockOrder,
     ResumeReturnOrder, ResumePersistOrder, ResumeFinalOrder, ResumeCrashOrder DEF ResumeStep
<1>6. ASSUME \A k \in Sweepers : ~sweep[k].on, Toggle \/ ExpireRead \/ OrphanRead \/ Crash
      PROVE  OrderInv'
  BY <1>6, ToggleOrder, ExpireReadOrder, OrphanReadOrder, CrashOrder
<1>7. CASE UNCHANGED vars
  BY <1>7 DEF vars, OrderInv, RunsGo, InOrder, Created, Owned, Swept, WaitingLatest, WorkingLatest,
     Condemned, Latest, Begun, Works, ExecOf
<1> QED
  BY <1>1, <1>2, <1>3, <1>4, <1>5, <1>6, <1>7 DEF Next, InTurn

LEMMA OrderAlways == ASSUME InTurn PROVE Spec => [](TypeOK /\ LockHeld /\ NoResumeWithoutAnswer /\ OrderInv)
<1>1. Init => OrderInv
  BY NoneAssumption DEF Init, OrderInv, RunsGo, InOrder, Created, Owned, Swept, WaitingLatest,
     WorkingLatest, Begun, Works, Idle, NoSweep, Workers
<1>2. Init => LockHeld
  BY DEF Init, LockHeld, Idle
<1>3. InTurn
  OBVIOUS
<1> QED
  BY <1>1, <1>2, <1>3, Typed, AnswerFirst, StepLocks, OrderStep, PTL DEF Spec

\* No resume passes over the DAG once a newer execution exists, unless the run of that one
\* could not cancel what waited: for any number of steps, parallel or not, and whatever
\* fails, is lost or comes late besides, as long as no trigger fires during a resume and
\* no sweep is cut between its read and its write.
THEOREM NoResumeBehindARun == ASSUME InTurn PROVE Spec => []NoStaleResume
<1>1. TypeOK /\ NoResumeWithoutAnswer /\ OrderInv => NoStaleResume
  BY KindAssumption DEF OrderInv, Created, WorkingLatest, Works, Latest, NoStaleResume, ExecOf, Workers
<1> QED
  BY <1>1, OrderAlways, PTL
===============================================================================
