---------------------------- MODULE WaitCalmProofs ----------------------------
(* The waits when nothing is lost and nothing lands inside a pass: what the     *)
(* runs of wait_calm check, for any number of executions, tokens and levels,    *)
(* and the refinement of WaitPromise.                                           *)
EXTENDS WaitOrderProofs

\* Answers, deadlines and toggles come between the passes, no trigger fires during a resume, a
\* sweep is not interleaved, no process, job or run is lost and the database is there; two
\* wait steps never share a level.  Steps may fail, be tried again or be skipped, mails may
\* fail, owners vanish and administrators switch the automation off.
Calm == /\ Env \subseteq {"toggle", "mail", "owner"}
        /\ \A r, s \in WaitSteps : Level[r] = Level[s] => r = s

-------------------------------------------------------------------------------
(* The invariant.                                                               *)
Passing(w)    == worker[w].pc \in {"dag", "persist", "final"}
Current(w, s) == At(w, s) \in {"asked", "mailed", "waiting"}
Busy(t)       == InPass(token[t].ex)
Coming(t)     == t \in unsched \/ job[token[t].ex] = t \/ worker[t].pc = "claim"
\* The question of t is open, or its answer has not been taken into account.
Asks(t) == \/ token[t].st = "pending"
           \/ token[t].st = "resolved" /\ (Coming(t) \/ worker[t].pc = "load")

\* One worker at a time, run or resume, from the lock to the outcome.
OneWorker == \A v, w \in Workers : Works(v) /\ Works(w) => v = w
\* An answer takes its steps once: handler, job store, resume.
Sent == \A t \in Tokens :
    /\ t \in unsched \/ worker[t].pc # "idle" => token[t].st = "resolved"
    /\ t \in unsched => worker[t].pc = "idle"
JobSent == \A e \in Execs : job[e] # None =>
    /\ token[job[e]].st = "resolved" /\ token[job[e]].ex = e
    /\ job[e] \notin unsched /\ worker[job[e]].pc = "idle"
Resolved == \A t \in Tokens : token[t].st = "resolved" =>
    /\ worker[token[t].ex].pc = "done"
    /\ Coming(t) \/ worker[t].pc \notin {"idle", "claim"}
    /\ Coming(t) => exec[token[t].ex].st \in {"waiting"} \cup Terminal
Mailed == \A t \in Tokens : token[t].st \in {"resolved", "expired", "cancelled"} => token[t].mailed
\* An execution has one question at a time.
OneAsks == \A t, u \in Tokens : Asks(t) /\ Asks(u) /\ token[t].ex = token[u].ex => t = u
Overdue == \A t \in overdue : /\ token[t].st # "free"
                              /\ token[t].st = "pending" => ~Busy(t)
\* It is asked in a pass of a running execution, and open in a waiting one.
Pending == \A t \in Tokens : token[t].st = "pending" =>
    \/ exec[token[t].ex].st = "waiting" /\ token[t].mailed
    \/ /\ exec[token[t].ex].st = "running"
       /\ \E w \in Workers : /\ worker[w].pc = "dag" /\ ExecOf(w) = token[t].ex
                             /\ At(w, token[t].step) \in {"asked", "mailed"}
Waiting == \A e \in Execs : exec[e].st = "waiting" => \E t \in Tokens : Asks(t) /\ token[t].ex = e
\* The status of an execution says where its worker is.
WorkStatus == \A w \in Workers :
    /\ worker[w].pc = "snap" => exec[w].st = "none"
    /\ worker[w].pc \in {"load", "lock"} => exec[ExecOf(w)].st = "running"
    /\ Passing(w) => exec[ExecOf(w)].st = IF Stopped(w) THEN "waiting" ELSE "running"
Running == \A e \in Execs : exec[e].st = "running" => \E w \in Workers : Works(w) /\ ExecOf(w) = e
\* A pass is at one wait step, above which all is settled.
OneCurrent == \A w \in Workers : \A s \in WaitSteps : Current(w, s) =>
    \A r \in WaitSteps : /\ Current(w, r) => r = s
                         /\ Level[r] < Level[s] => At(w, r) \in {"failed", "skipped", "known"}
Fresher == \A e \in Execs : worker[e].pc \in {"idle", "snap"} => \A s \in WaitSteps : At(e, s) = "todo"
PassToken == \A w \in Workers : \A s \in WaitSteps : Passing(w) /\ Current(w, s) =>
    \E t \in Tokens : /\ token[t].ex = ExecOf(w) /\ token[t].step = s /\ token[t].st = "pending"
                      /\ token[t].mailed <=> At(w, s) # "asked"
TokenPlaces == \A t \in Tokens : \A s \in WaitSteps :
    /\ worker[t].pc = "lock" => At(t, s) \in {"todo", "known"}
    /\ worker[t].pc \in {"persist", "final"} => At(t, s) \notin {"asked", "mailed"}
\* The question that is open has one waiting row in the journal, or none because of an older
\* row that says failed or skipped; no other question has one.
WaitRow == \A t \in Tokens : Asks(t) /\ exec[token[t].ex].st \notin Terminal /\ ~Busy(t) =>
              \/ \E a \in Attempts : row[token[t].ex][token[t].step][a] = "waiting"
              \/ token[t].step \in Stale(token[t].ex)
RowAsked == \A e \in Execs : \A s \in WaitSteps : \A a \in Attempts :
    row[e][s][a] = "waiting" /\ exec[e].st \notin Terminal =>
        \E t \in Tokens : Asks(t) /\ token[t].ex = e /\ token[t].step = s /\ token[t].mailed
OneRow == \A e \in Execs : \A s \in WaitSteps : \A a, b \in Attempts :
    row[e][s][a] = "waiting" /\ row[e][s][b] = "waiting" /\ exec[e].st \notin Terminal => a = b
\* During a pass it is the row of the attempt that waits.
RowTry == \A w \in Workers : \A s \in WaitSteps : \A a \in Attempts :
    Passing(w) /\ row[ExecOf(w)][s][a] = "waiting" => At(w, s) = "waiting" /\ a = Try(w, s)
\* An answer taken into account left a success, which a resume does not run again, or found
\* an older row in its way.
AnsweredRow == \A t \in Tokens :
    /\ token[t].st = "resolved" /\ worker[t].pc \in {"lock", "dag", "persist", "final", "done"}
    /\ exec[token[t].ex].st \notin Terminal
    => \/ \E a \in Attempts : row[token[t].ex][token[t].step][a] = "success"
       \/ token[t].step \in Stale(token[t].ex)
SkipRow == \A t \in Tokens : \A s \in WaitSteps : \A a \in Attempts :
    worker[t].pc \in {"lock", "dag", "persist", "final"} /\ row[token[t].ex][s][a] = "success"
        => At(t, s) = "known"
RunRow == \A e \in Execs : \A s \in WaitSteps : \A a \in Attempts :
    worker[e].pc \in {"idle", "snap", "dag"} => row[e][s][a] # "success"
FinalRow == \A t \in Tokens : \A s \in WaitSteps :
    worker[t].pc = "final" /\ At(t, s) = "waiting" => row[token[t].ex][s][Try(t, s)] # "none"
\* Nothing that runs is left behind, so the cleanup of orphans finds nothing.
NoOrphan == old = {} /\ ~sweep["orphan"].on
\* What a sweep has read is still so when it writes: one waiting execution and its questions.
SweepSees == \A k \in Sweepers : sweep[k].on =>
    /\ \A j \in Sweepers : sweep[j].on => j = k
    /\ \A e \in sweep[k].ex : exec[e].st = "waiting" /\ ~InPass(e)
    /\ \A d, e \in sweep[k].ex : d = e
    /\ \A t \in Tokens : token[t].st = "pending" /\ token[t].ex \in sweep[k].ex => t \in sweep[k].tk
    /\ \A t \in sweep[k].tk : token[t].st = "pending" /\ token[t].ex \in sweep[k].ex

CalmInv == /\ OneWorker /\ Sent /\ JobSent /\ Resolved /\ Mailed /\ OneAsks /\ Overdue
           /\ Pending /\ Waiting /\ WorkStatus /\ Running /\ OneCurrent /\ Fresher
           /\ PassToken /\ TokenPlaces /\ WaitRow /\ RowAsked /\ OneRow /\ RowTry
           /\ AnsweredRow /\ SkipRow /\ RunRow /\ FinalRow /\ NoOrphan /\ SweepSees
           /\ AnsweredNotAskedAgain

\* All that a step may rely on, and that between two writes nothing is read and not written.
NoBlind == \A e \in Execs : ~worker[e].blind
Known == Calm /\ TypeOK /\ LockHeld /\ NoBlind /\ OrderInv /\ CalmInv
Settled == \A k \in Sweepers : ~sweep[k].on

-------------------------------------------------------------------------------
(* What follows from the invariant at any time.                                 *)
LEMMA LatestUnique ==
    ASSUME NoBlind, NEW d \in Execs, NEW e \in Execs, Begun(d), Begun(e), Latest(d), Latest(e)
    PROVE  d = e
<1>1. d <= e /\ e <= d /\ d \in Nat /\ e \in Nat
  BY ExecsAssumption DEF Latest, NoBlind
<1> QED
  BY <1>1

\* What waits is the latest, between two sweeps.
LEMMA WaitingIsLatest ==
    ASSUME Known, Settled, NEW d \in Execs, exec[d].st = "waiting"
    PROVE  Begun(d) /\ Latest(d)
BY DEF Known, Settled, OrderInv, Created, WaitingLatest, Condemned, Latest, Sweepers

\* A worker works on an execution that has begun; a resume, on the answer to its token.
LEMMA Employed ==
    ASSUME Known, NEW w \in Workers, Works(w)
    PROVE  /\ ExecOf(w) \in Execs /\ Begun(ExecOf(w)) /\ Latest(ExecOf(w))
           /\ w \in Tokens => /\ token[w].st = "resolved" /\ token[w].step \in WaitSteps
                              /\ ExecOf(w) = token[w].ex
<1>1. CASE w \in Execs
  BY <1>1, KindAssumption DEF Known, OrderInv, WorkingLatest, Works, ExecOf, Begun
<1>2. CASE w \in Tokens
  <2>1. token[w].st = "resolved" /\ w \notin Execs
    BY <1>2, KindAssumption DEF Known, CalmInv, Sent, Works
  <2> QED
    BY <1>2, <2>1 DEF Known, OrderInv, WorkingLatest, Owned, Created, ExecOf
<1> QED
  BY <1>1, <1>2 DEF Workers

\* While nobody is at a question of e, a running e has no question open.
LEMMA NoQuestion ==
    ASSUME Known, NEW w \in Workers, Works(w), exec[ExecOf(w)].st = "running",
           worker[w].pc = "dag" => \A s \in WaitSteps : At(w, s) \notin {"asked", "mailed"},
           NEW u \in Tokens, token[u].ex = ExecOf(w), Asks(u)
    PROVE  u = w /\ worker[w].pc = "load"
<1>1. CASE token[u].st = "pending"
  <2>1. PICK v \in Workers : /\ worker[v].pc = "dag" /\ ExecOf(v) = token[u].ex
                             /\ At(v, token[u].step) \in {"asked", "mailed"}
    BY <1>1 DEF Known, CalmInv, Pending
  <2>2. v = w
    BY <2>1 DEF Known, CalmInv, OneWorker, Works
  <2>3. token[u].step \in WaitSteps
    BY <1>1 DEF Known, OrderInv, Owned
  <2> QED
    BY <2>1, <2>2, <2>3
<1>2. CASE token[u].st = "resolved" /\ Coming(u)
  BY <1>2 DEF Known, CalmInv, Resolved, Terminal
<1>3. CASE worker[u].pc = "load"
  BY <1>3 DEF Known, CalmInv, OneWorker, Works, Workers
<1> QED
  BY <1>1, <1>2, <1>3 DEF Asks

\* Nobody works on an execution whose answer is on its way.
LEMMA Unattended ==
    ASSUME Known, Settled, NEW t \in Tokens, token[t].st = "resolved", Coming(t),
           exec[token[t].ex].st = "waiting"
    PROVE  \A v \in Workers : ~Works(v)
<1> SUFFICES ASSUME NEW v \in Workers, Works(v) PROVE FALSE
  OBVIOUS
<1>1. ExecOf(v) = token[t].ex
  <2>1. token[t].ex \in Execs /\ Begun(token[t].ex) /\ Latest(token[t].ex)
    BY WaitingIsLatest DEF Known, OrderInv, Owned
  <2> QED
    BY <2>1, Employed, LatestUnique DEF Known
<1>2. Passing(v) /\ Stopped(v)
  <2>1. worker[v].pc # "snap"
    BY <1>1, KindAssumption DEF Known, CalmInv, WorkStatus, OrderInv, RunsGo, ExecOf, Workers
  <2> QED
    BY <1>1, <2>1 DEF Known, CalmInv, WorkStatus, Works, Passing
<1>3. PICK s \in WaitSteps : Current(v, s)
  BY <1>2 DEF Stopped, Current
<1>4. PICK u \in Tokens : token[u].ex = ExecOf(v) /\ token[u].st = "pending"
  BY <1>2, <1>3 DEF Known, CalmInv, PassToken
<1> QED
  BY <1>1, <1>4 DEF Known, CalmInv, OneAsks, Asks

\* A step is reached when no step of the pass is current: the execution runs.
LEMMA ReachedAlone ==
    ASSUME Known, NEW w \in Workers, worker[w].pc = "dag", NEW s \in WaitSteps, Reached(w, s)
    PROVE  /\ \A r \in WaitSteps : ~Current(w, r)
           /\ exec[ExecOf(w)].st = "running"
           /\ \A u \in Tokens : token[u].ex = ExecOf(w) => ~Asks(u)
<1>1. ASSUME NEW r \in WaitSteps, Current(w, r) PROVE FALSE
  <2>1. At(w, s) = "todo" /\ \A q \in WaitSteps : Level[q] < Level[s] => At(w, q) \in {"failed", "skipped", "known"}
    BY DEF Reached
  <2>2. Level[s] < Level[r] => At(w, s) \in {"failed", "skipped", "known"}
    BY <1>1 DEF Known, CalmInv, OneCurrent
  <2>3. Level[s] # Level[r]
    BY <1>1, <2>1 DEF Known, Calm, Current
  <2>4. Level[s] \in Nat /\ Level[r] \in Nat
    BY StepsAssumption
  <2> QED
    BY <1>1, <2>1, <2>2, <2>3, <2>4 DEF Current
<1>2. exec[ExecOf(w)].st = "running"
  BY <1>1 DEF Known, CalmInv, WorkStatus, Passing, Stopped, Current
<1>3. \A u \in Tokens : token[u].ex = ExecOf(w) => ~Asks(u)
  BY <1>1, <1>2, NoQuestion DEF Works, Current
<1> QED
  BY <1>1, <1>2, <1>3

\* The token a pass has asked with is the open one.
LEMMA AskedOpen ==
    ASSUME Known, NEW w \in Workers, NEW s \in WaitSteps, NEW t \in Tokens, AskedToken(w, s, t)
    PROVE  /\ token[t].st = "pending" /\ Asks(t) /\ token[t].ex = ExecOf(w) /\ token[t].step = s
           /\ worker[w].pc = "dag" /\ At(w, s) = "asked" /\ ~token[t].mailed
           /\ exec[token[t].ex].st = "running"
BY DEF AskedToken, Known, CalmInv, Mailed, Pending, Asks, TypeOK, TokenRows, TokenStatuses

\* The token that a suspended pass waits for.
LEMMA PassAsks ==
    ASSUME Known, NEW w \in Workers, Passing(w), NEW s \in WaitSteps, Current(w, s), At(w, s) # "asked",
           NEW u \in Tokens, Asks(u), token[u].ex = ExecOf(w)
    PROVE  token[u].st = "pending" /\ token[u].step = s /\ token[u].mailed
BY DEF Known, CalmInv, PassToken, OneAsks, Asks

LEMMA TypeKnown ==
    Known => /\ TypeOK /\ exec \in ExecRows /\ token \in TokenRows /\ worker \in WorkerStates /\ row \in JournalRows
             /\ \A t \in overdue : t \in Tokens
             /\ sweep \in SweepStates
             /\ \A e \in Execs : e \in Workers /\ e \notin Tokens /\ ExecOf(e) = e
             /\ \A e \in Execs : job[e] # None => job[e] \in Tokens
             /\ \A t \in Tokens : t \in Workers /\ t \notin Execs /\ ExecOf(t) = token[t].ex
             /\ \A t \in Tokens : token[t].st # "free" =>
                   token[t].ex \in Execs /\ token[t].step \in WaitSteps
             /\ \A t \in Tokens : /\ Asks(t) => token[t].st \in {"pending", "resolved"}
                                  /\ token[t].st = "pending" => Asks(t)
                                  /\ token[t].st = "resolved" /\ Coming(t) => Asks(t)
             /\ \A w \in Workers : /\ Works(w) => ExecOf(w) \in Execs
                                   /\ Passing(w) => Works(w)
BY KindAssumption, Employed DEF Known, TypeOK, Workers, ExecOf, OrderInv, Owned, Asks, Works, Passing

LEMMA EnvKnown ==
    Known => InTurn /\ {"midrun", "deadline", "timeout", "slow", "dberror", "unscheduled", "misfire", "crash"} \cap Env = {}
BY DEF Known, Calm, InTurn

\* What a pass reaches has not been answered yet, or failed or was skipped before.
LEMMA NeverAnswered ==
    ASSUME Known, NEW w \in Workers, worker[w].pc = "dag", NEW s \in WaitSteps, Reached(w, s),
           NEW u \in Tokens, token[u].ex = ExecOf(w), token[u].step = s
    PROVE  token[u].st = "resolved" => s \in Stale(ExecOf(w))
<1> SUFFICES ASSUME token[u].st = "resolved", s \notin Stale(ExecOf(w)) PROVE FALSE
  OBVIOUS
<1>1. exec[ExecOf(w)].st = "running" /\ ~Asks(u) /\ At(w, s) = "todo"
  BY ReachedAlone DEF Reached
<1>2. ~Coming(u) /\ worker[u].pc \notin {"idle", "claim", "load", "snap"}
  BY <1>1 DEF Asks, Known, CalmInv, Resolved, OrderInv, RunsGo
<1>3. \E a \in Attempts : row[ExecOf(w)][s][a] = "success"
  BY <1>1, <1>2, TypeKnown DEF Known, CalmInv, AnsweredRow, Terminal, WorkerStates, Counters
<1> QED
  BY <1>1, <1>3, TypeKnown DEF Known, CalmInv, SkipRow, RunRow, Workers

-------------------------------------------------------------------------------
(* Steps of WaitPromise.                                                        *)
Promised == [Promise!PromiseNext]_(Promise!pvars)
SameStatus    == \A d \in Execs : exec'[d].st = exec[d].st
SameQuestions == \A t \in Tokens : /\ token'[t].st = token[t].st /\ token'[t].ex = token[t].ex
                                   /\ token'[t].step = token[t].step
SameStale     == \A d \in Execs : Stale(d)' = Stale(d)

LEMMA SameSteps ==
    ASSUME SameQuestions
    PROVE  \A e, st : StepsOf(e, st)' = StepsOf(e, st)
BY DEF SameQuestions, StepsOf

LEMMA StatusAs ==
    ASSUME NEW e \in Execs, NEW v, Marks(e, v)
    PROVE  [d \in Execs |-> exec'[d].st] = [[d \in Execs |-> exec[d].st] EXCEPT ![e] = v]
BY DEF Marks

LEMMA SameMissed ==
    ASSUME SameStale
    PROVE  [d \in Execs |-> Stale(d)'] = [d \in Execs |-> Stale(d)]
BY DEF SameStale

LEMMA Stutters ==
    ASSUME SameStale, SameStatus, SameQuestions
    PROVE  Promised
BY SameSteps DEF SameStale, SameStatus, Promised, Promise!pvars

LEMMA Begins ==
    ASSUME SameStale, SameQuestions, NEW e \in Execs, Marks(e, "running"), exec[e].st = "none",
           \A d \in Execs : exec[d].st # "waiting"
    PROVE  Promised
<1>1. Promise!Begin(e)
  BY StatusAs, SameSteps DEF SameStale, Promise!Begin
<1> QED
  BY <1>1 DEF Promised, Promise!PromiseNext

LEMMA Asking ==
    ASSUME SameStale, SameStatus, NEW e \in Execs, NEW s \in WaitSteps, NEW t \in Tokens, exec[e].st = "running",
           token[t].st = "free", token'[t].st = "pending", token'[t].ex = e, token'[t].step = s,
           \A u \in Tokens \ {t} : token'[u] = token[u],
           \A u \in Tokens : token[u].ex = e /\ token[u].step = s =>
                /\ token[u].st # "pending"
                /\ token[u].st = "resolved" => s \in Stale(e)
    PROVE  Promised
<1>1. s \notin StepsOf(e, "pending") \cup (StepsOf(e, "resolved") \ Stale(e))
  BY DEF StepsOf
<1>2. /\ \A d : StepsOf(d, "pending")' = IF d = e THEN StepsOf(e, "pending") \cup {s} ELSE StepsOf(d, "pending")
      /\ \A d : StepsOf(d, "resolved")' = StepsOf(d, "resolved")
  BY DEF StepsOf
<1>3. Promise!Ask(e, s)
  BY <1>1, <1>2 DEF SameStale, SameStatus, Promise!Ask
<1> QED
  BY <1>3 DEF Promised, Promise!PromiseNext

LEMMA Withdraws ==
    ASSUME SameStale, SameStatus, NEW t \in Tokens, Turns(t, "gone"), token[t].ex \in Execs, token[t].step \in WaitSteps,
           token[t].st = "pending", exec[token[t].ex].st = "running",
           \A u \in Tokens : token[u].st = "pending" /\ token[u].ex = token[t].ex => u = t
    PROVE  Promised
<1> DEFINE e == token[t].ex
           s == token[t].step
<1>1. s \in StepsOf(e, "pending")
  BY DEF StepsOf
<1>2. /\ \A d : StepsOf(d, "pending")' = IF d = e THEN StepsOf(e, "pending") \ {s} ELSE StepsOf(d, "pending")
      /\ \A d : StepsOf(d, "resolved")' = StepsOf(d, "resolved")
  BY DEF StepsOf, Turns
<1>3. Promise!Withdraw(e, s)
  BY <1>1, <1>2 DEF SameStale, SameStatus, Promise!Withdraw
<1> QED
  BY <1>3 DEF Promised, Promise!PromiseNext

LEMMA Waits ==
    ASSUME SameStale, SameQuestions, NEW e \in Execs, NEW t \in Tokens, token[t].ex = e, Marks(e, "waiting"),
           exec[e].st = "running", token[t].st = "pending", token[t].step \in WaitSteps
    PROVE  Promised
<1>1. token[t].step \in StepsOf(e, "pending")
  BY DEF StepsOf
<1>2. Promise!Wait(e)
  BY <1>1, StatusAs, SameSteps DEF SameStale, Promise!Wait
<1> QED
  BY <1>2 DEF Promised, Promise!PromiseNext

LEMMA Accepts ==
    ASSUME SameStale, SameStatus, NEW t \in Tokens, Turns(t, "resolved"), token[t].ex \in Execs, token[t].step \in WaitSteps,
           token[t].st = "pending", exec[token[t].ex].st = "waiting",
           \A u \in Tokens : token[u].st = "pending" /\ token[u].ex = token[t].ex => u = t
    PROVE  Promised
<1> DEFINE e == token[t].ex
           s == token[t].step
<1>1. s \in StepsOf(e, "pending")
  BY DEF StepsOf
<1>2. \A d : StepsOf(d, "pending")' = IF d = e THEN StepsOf(e, "pending") \ {s} ELSE StepsOf(d, "pending")
  BY DEF StepsOf, Turns
<1>3. \A d : StepsOf(d, "resolved")' = IF d = e THEN StepsOf(e, "resolved") \cup {s} ELSE StepsOf(d, "resolved")
  BY DEF StepsOf, Turns
<1>4. Promise!Accept(e, s)
  BY <1>1, <1>2, <1>3 DEF SameStale, SameStatus, Promise!Accept
<1> QED
  BY <1>4 DEF Promised, Promise!PromiseNext

LEMMA Continues ==
    ASSUME SameStale, SameQuestions, NEW e \in Execs, NEW t \in Tokens, token[t].ex = e, Marks(e, "running"),
           exec[e].st = "waiting", token[t].st = "resolved", token[t].step \in WaitSteps,
           \A u \in Tokens : token[u].ex = e => token[u].st # "pending"
    PROVE  Promised
<1>1. token[t].step \in StepsOf(e, "resolved") /\ StepsOf(e, "pending") = {}
  BY DEF StepsOf
<1>2. Promise!Continue(e)
  BY <1>1, StatusAs, SameSteps DEF SameStale, Promise!Continue
<1> QED
  BY <1>2 DEF Promised, Promise!PromiseNext

LEMMA Finishes ==
    ASSUME SameStale, SameQuestions, NEW e \in Execs, NEW v \in {"done", "failed"}, Marks(e, v), exec[e].st = "running",
           \A t \in Tokens : token[t].ex = e => token[t].st # "pending"
    PROVE  Promised
<1>1. StepsOf(e, "pending") = {}
  BY DEF StepsOf
<1>2. /\ [d \in Execs |-> exec'[d].st] = [[d \in Execs |-> exec[d].st] EXCEPT ![e] = v]
      /\ [d \in Execs |-> exec[d].st][e] = "running" /\ [d \in Execs |-> StepsOf(d, "pending")][e] = {}
  BY <1>1, StatusAs
<1>3. /\ [d \in Execs |-> StepsOf(d, "pending")'] = [d \in Execs |-> StepsOf(d, "pending")]
      /\ [d \in Execs |-> StepsOf(d, "resolved")'] = [d \in Execs |-> StepsOf(d, "resolved")]
      /\ [d \in Execs |-> Stale(d)'] = [d \in Execs |-> Stale(d)]
  BY SameSteps, SameMissed
<1>4. Promise!Finish(e)
  BY <1>2, <1>3 DEF Promise!Finish
<1> QED
  BY <1>4 DEF Promised, Promise!PromiseNext

LEMMA Misses ==
    ASSUME SameStatus, SameQuestions, NEW e \in Execs, exec[e].st \in {"running", "waiting"},
           \A d \in Execs \ {e} : Stale(d)' = Stale(d), Stale(e) \subseteq Stale(e)',
           \A t \in Tokens : token[t].st = "resolved" /\ token[t].ex = e /\ token[t].step \in Stale(e)'
                => token[t].step \in Stale(e)
    PROVE  Promised
<1> DEFINE S == Stale(e)' \ Stale(e)
<1>0. Stale(e)' \subseteq WaitSteps
  BY DEF Stale
<1>1. S \in SUBSET (WaitSteps \ StepsOf(e, "resolved"))
  BY <1>0 DEF StepsOf
<1>2. \A d \in Execs : Stale(d)' = IF d = e THEN Stale(e) \cup S ELSE Stale(d)
  OBVIOUS
<1> HIDE DEF S
<1>3. Promise!Miss(e)
  BY <1>1, <1>2, SameSteps DEF SameStatus, Promise!Miss
<1> QED
  BY <1>3 DEF Promised, Promise!PromiseNext

\* A sweep that closes the one execution it has read, with its questions.
LEMMA GivesUp ==
    ASSUME SameStale, NEW e \in Execs, NEW v \in {"cancelled", "failed"}, Marks(e, v), exec[e].st = "waiting",
           NEW ts, ts \notin {"pending", "resolved"},
           \A t \in Tokens : /\ token'[t].ex = token[t].ex /\ token'[t].step = token[t].step
                             /\ token'[t].st = IF token[t].st = "pending" /\ token[t].ex = e THEN ts ELSE token[t].st
    PROVE  Promised
<1>1. /\ \A d : StepsOf(d, "pending")' = IF d = e THEN {} ELSE StepsOf(d, "pending")
      /\ \A d : StepsOf(d, "resolved")' = StepsOf(d, "resolved")
  BY DEF StepsOf
<1>2. Promise!GiveUp(e)
  BY <1>1, StatusAs DEF SameStale, Promise!GiveUp
<1> QED
  BY <1>2 DEF Promised, Promise!PromiseNext

-------------------------------------------------------------------------------
(* Each action keeps the invariant, and is a step of WaitPromise or none.       *)
LEMMA RunStartCalm ==
    ASSUME Known, Settled, NEW e \in Execs, RunStart(e)
    PROVE  CalmInv' /\ Promised
<1>a. \A v \in Workers : ~Works(v)
  BY RunStartAlone, EnvKnown DEF Known, CalmInv
<1>b. e \in Workers /\ e \notin Tokens /\ exec[e].st = "none" /\ \A d : ~InPass(d)
  BY <1>a, TypeKnown, KindAssumption, RunStartEffect
  DEF Known, OrderInv, Created, Begun, InPass, Works, Workers
<1>c. \A d, f \in WaitingExecs : d = f
  BY LatestUnique, WaitingIsLatest DEF Known, WaitingExecs
<1>d. /\ sweep'["run"].on /\ sweep'["run"].ex = WaitingExecs /\ sweep'["run"].tk = PendingOf(WaitingExecs)
      /\ \A k \in Sweepers \ {"run"} : ~sweep'[k].on
  BY TypeKnown, RunStartEffect DEF Settled, TypeOK, SweepStates, Sweepers
<1>v0. \A d : Stale(d)' = Stale(d)
  BY TypeKnown, RunStartEffect DEF Stale
<1>v1. \A u \in Tokens : Asks(u)' <=> Asks(u)
  BY TypeKnown, RunStartEffect, <1>b DEF Moves, Owners, Asks, Coming, Workers
<1>v2. \A d : InPass(d)' <=> InPass(d)
  BY TypeKnown, RunStartEffect DEF Moves, Owners, InPass
<1>v3. \A u \in Tokens : Busy(u)' <=> Busy(u)
  BY TypeKnown, RunStartEffect DEF Moves, Owners, Busy, InPass
<1>v4. /\ \A v \in Workers : Stopped(v)' <=> Stopped(v)
       /\ \A v \in Workers, r \in WaitSteps : Current(v, r)' <=> Current(v, r)
  BY TypeKnown, RunStartEffect DEF Moves, Owners, Stopped, Current
<1>1. OneWorker' /\ Running' /\ WorkStatus' /\ Fresher'
  BY TypeKnown, RunStartEffect, <1>a, <1>b, <1>c, <1>d, <1>v0, <1>v1, <1>v2, <1>v3, <1>v4
  DEF Known, Settled, CalmInv, OneWorker, Works, Running, WorkStatus, Passing, Stopped, Fresher,
      Moves, Owners
<1>2. Sent' /\ JobSent' /\ Resolved'
  BY TypeKnown, RunStartEffect, <1>a, <1>b, <1>c, <1>d, <1>v0, <1>v1, <1>v2, <1>v3, <1>v4
  DEF Known, Settled, CalmInv, Sent, JobSent, Resolved, Coming, Moves, Owners
<1>3. Mailed' /\ OneAsks' /\ Overdue' /\ Pending' /\ Waiting'
  BY TypeKnown, RunStartEffect, <1>a, <1>b, <1>c, <1>d, <1>v0, <1>v1, <1>v2, <1>v3, <1>v4
  DEF Known, Settled, CalmInv, Mailed, OneAsks, Overdue, Pending, Waiting, Moves, Owners
<1>4. OneCurrent' /\ PassToken' /\ TokenPlaces'
  BY TypeKnown, RunStartEffect, <1>a, <1>b, <1>c, <1>d, <1>v0, <1>v1, <1>v2, <1>v3, <1>v4
  DEF Known, Settled, CalmInv, OneCurrent, PassToken, Passing, TokenPlaces, Moves, Owners
<1>5. WaitRow' /\ RowAsked'
  BY TypeKnown, RunStartEffect, <1>a, <1>b, <1>c, <1>d, <1>v0, <1>v1, <1>v2, <1>v3, <1>v4
  DEF Known, Settled, CalmInv, WaitRow, Terminal, RowAsked, Moves, Owners
<1>r. OneRow' /\ RowTry'
  BY TypeKnown, RunStartEffect, <1>a, <1>b, <1>c, <1>d, <1>v0, <1>v1, <1>v2, <1>v3, <1>v4
  DEF Known, Settled, CalmInv, OneRow, RowTry, Passing, Terminal, RowAsked, Moves, Owners
<1>6. AnsweredRow' /\ SkipRow' /\ RunRow' /\ FinalRow'
  BY TypeKnown, RunStartEffect, <1>a, <1>b, <1>c, <1>d, <1>v0, <1>v1, <1>v2, <1>v3, <1>v4
  DEF Known, Settled, CalmInv, AnsweredRow, Terminal, SkipRow, Sent, RunRow, Stopped, FinalRow, Moves,
      Owners
<1>7. NoOrphan' /\ SweepSees' /\ AnsweredNotAskedAgain'
  BY TypeKnown, RunStartEffect, <1>a, <1>b, <1>c, <1>d, <1>v0, <1>v1, <1>v2, <1>v3, <1>v4
  DEF Known, Settled, CalmInv, NoOrphan, Sweepers, SweepSees, WaitingExecs, PendingOf,
      AnsweredNotAskedAgain, Moves, Owners
<1>p. Promised
  BY TypeKnown, RunStartEffect, <1>a, <1>b, <1>c, <1>d, <1>v0, Stutters
  DEF SameStale, SameStatus, SameQuestions, Moves, Owners
<1> QED
  BY <1>1, <1>2, <1>3, <1>4, <1>5, <1>6, <1>7, <1>r, <1>p DEF CalmInv

LEMMA RunCreateCalm ==
    ASSUME Known, Settled, NEW e \in Execs, RunCreate(e)
    PROVE  CalmInv' /\ Promised
<1>a. e \in Workers /\ e \notin Tokens /\ ExecOf(e) = e /\ exec[e].st = "none" /\ worker[e].pc = "snap"
  BY TypeKnown, KindAssumption, RunCreateEffect DEF Known, CalmInv, WorkStatus, Workers, ExecOf
<1>b. \A u \in Tokens : token[u].ex = e => token[u].st = "free"
  BY <1>a DEF Known, OrderInv, Owned
<1>v0. \A d : Stale(d)' = Stale(d)
  BY TypeKnown, RunCreateEffect DEF Stale
<1>v1. \A u \in Tokens : Asks(u)' <=> Asks(u)
  BY TypeKnown, RunCreateEffect, <1>a DEF Moves, Marks, Owners, Asks, Coming, Workers
<1>v2. \A d : InPass(d)' <=> (InPass(d) \/ d = e)
  BY TypeKnown, RunCreateEffect, <1>a DEF Moves, Marks, Owners, InPass
<1>v3. \A u \in Tokens : token[u].st # "free" => (Busy(u)' <=> (Busy(u) \/ token[u].ex = e))
  BY TypeKnown, RunCreateEffect, <1>a DEF Moves, Marks, Owners, Busy, InPass
<1>v4. /\ \A v \in Workers : Stopped(v)' <=> Stopped(v)
       /\ \A v \in Workers, r \in WaitSteps : Current(v, r)' <=> Current(v, r)
  BY TypeKnown, RunCreateEffect DEF Moves, Marks, Owners, Stopped, Current
<1>v5. \A v \in Workers : Works(v)' <=> Works(v)
  BY TypeKnown, RunCreateEffect, <1>a DEF Moves, Marks, Owners, Works
<1>1. OneWorker' /\ Running' /\ WorkStatus' /\ Fresher'
  BY TypeKnown, RunCreateEffect, <1>a, <1>b, <1>v0, <1>v1, <1>v2, <1>v3, <1>v4, <1>v5
  DEF Known, Settled, CalmInv, OneWorker, Works, Running, WorkStatus, Passing, Stopped, Fresher,
      Moves, Marks, Owners
<1>2. Sent' /\ JobSent' /\ Resolved'
  BY TypeKnown, RunCreateEffect, <1>a, <1>b, <1>v0, <1>v1, <1>v2, <1>v3, <1>v4, <1>v5
  DEF Known, Settled, CalmInv, Sent, JobSent, Resolved, Coming, Moves, Marks, Owners
<1>3. Mailed' /\ OneAsks' /\ Overdue' /\ Pending' /\ Waiting'
  BY TypeKnown, RunCreateEffect, <1>a, <1>b, <1>v0, <1>v1, <1>v2, <1>v3, <1>v4, <1>v5
  DEF Known, Settled, CalmInv, Mailed, OneAsks, Overdue, Pending, Waiting, Moves, Marks, Owners
<1>4. OneCurrent' /\ PassToken' /\ TokenPlaces'
  BY TypeKnown, RunCreateEffect, <1>a, <1>b, <1>v0, <1>v1, <1>v2, <1>v3, <1>v4, <1>v5
  DEF Known, Settled, CalmInv, OneCurrent, PassToken, Passing, Fresher, Current, TokenPlaces, Moves,
      Marks, Owners
<1>5. WaitRow' /\ RowAsked'
  BY TypeKnown, RunCreateEffect, <1>a, <1>b, <1>v0, <1>v1, <1>v2, <1>v3, <1>v4, <1>v5
  DEF Known, Settled, CalmInv, WaitRow, Terminal, RowAsked, Moves, Marks, Owners
<1>r. OneRow' /\ RowTry'
  BY TypeKnown, RunCreateEffect, <1>a, <1>b, <1>v0, <1>v1, <1>v2, <1>v3, <1>v4, <1>v5
  DEF Known, Settled, CalmInv, OneRow, RowTry, Passing, Terminal, RowAsked, Moves, Marks, Owners
<1>6. AnsweredRow' /\ SkipRow' /\ RunRow' /\ FinalRow'
  BY TypeKnown, RunCreateEffect, <1>a, <1>b, <1>v0, <1>v1, <1>v2, <1>v3, <1>v4, <1>v5
  DEF Known, Settled, CalmInv, AnsweredRow, Terminal, SkipRow, Sent, RunRow, Stopped, Fresher,
      FinalRow, Moves, Marks, Owners
<1>7. NoOrphan' /\ SweepSees' /\ AnsweredNotAskedAgain'
  BY TypeKnown, RunCreateEffect, <1>a, <1>b, <1>v0, <1>v1, <1>v2, <1>v3, <1>v4, <1>v5
  DEF Known, Settled, CalmInv, NoOrphan, SweepSees, AnsweredNotAskedAgain, Moves, Marks, Owners
<1>p. Promised
  <2>1. \A d \in Execs : exec[d].st # "waiting"
    BY <1>a, TypeKnown, LatestUnique, WaitingIsLatest DEF Known, OrderInv, WorkingLatest, Works, Begun
  <2> QED
    BY <1>a, <2>1, TypeKnown, RunCreateEffect, <1>v0, Begins DEF SameStale, SameQuestions
<1> QED
  BY <1>1, <1>2, <1>3, <1>4, <1>5, <1>6, <1>7, <1>r, <1>p DEF CalmInv

LEMMA AskTokenCalm ==
    ASSUME Known, Settled, NEW w \in Workers, NEW s \in WaitSteps, NEW t \in Tokens, AskToken(w, s, t)
    PROVE  CalmInv' /\ Promised
<1>a. /\ ExecOf(w) \in Execs /\ worker[w].pc = "dag" /\ Reached(w, s) /\ At(w, s) = "todo"
      /\ exec[ExecOf(w)].st = "running" /\ \A r \in WaitSteps : ~Current(w, r)
      /\ \A u \in Tokens : token[u].ex = ExecOf(w) => ~Asks(u)
  BY TypeKnown, AskTokenEffect, Employed, ReachedAlone DEF Works, Reached
<1>b. t \notin unsched /\ worker[t].pc = "idle" /\ t # w /\ ~Asks(t) /\ (\A d \in Execs : job[d] # t) /\ t \notin overdue
  BY TypeKnown, AskTokenEffect, NoneAssumption DEF Known, CalmInv, Sent, JobSent, Overdue, Asks, TypeOK
<1>v0. \A d : Stale(d)' = Stale(d)
  BY TypeKnown, AskTokenEffect DEF Stale
<1>v1. \A u \in Tokens : Asks(u)' <=> (Asks(u) \/ u = t)
  BY TypeKnown, AskTokenEffect, <1>b DEF Puts, Asks, Coming, Workers
<1>v2. /\ \A d : InPass(d)' <=> InPass(d)
       /\ \A u \in Tokens : u # t => (Busy(u)' <=> Busy(u))
       /\ Busy(t)'
  BY TypeKnown, AskTokenEffect, <1>a, <1>b DEF Puts, InPass, Busy
<1>v3. \A v \in Workers, r \in WaitSteps : Current(v, r)' <=> (Current(v, r) \/ (v = w /\ r = s))
  BY TypeKnown, AskTokenEffect, <1>a DEF Puts, Current
<1>v4. \A v \in Workers : Stopped(v)' <=> Stopped(v)
  BY TypeKnown, AskTokenEffect, <1>a DEF Puts, Stopped, Current
<1>v5. (\A v \in Workers : Works(v)' <=> Works(v)) /\ ~Works(t)
  BY TypeKnown, AskTokenEffect, <1>b DEF Puts, Works, Workers
<1>1. OneWorker' /\ Running' /\ WorkStatus' /\ Fresher'
  BY TypeKnown, AskTokenEffect, <1>a, <1>b, <1>v0, <1>v1, <1>v2, <1>v3, <1>v4, <1>v5
  DEF Known, Settled, CalmInv, OneWorker, Works, Running, WorkStatus, Passing, Stopped, Fresher, Puts
<1>2. Sent' /\ JobSent' /\ Resolved'
  BY TypeKnown, AskTokenEffect, <1>a, <1>b, <1>v0, <1>v1, <1>v2, <1>v3, <1>v4, <1>v5
  DEF Known, Settled, CalmInv, Sent, JobSent, Resolved, Coming, Puts
<1>3. Mailed' /\ OneAsks' /\ Overdue' /\ Pending' /\ Waiting'
  BY TypeKnown, AskTokenEffect, <1>a, <1>b, <1>v0, <1>v1, <1>v2, <1>v3, <1>v4, <1>v5
  DEF Known, Settled, CalmInv, Mailed, OneAsks, Overdue, Pending, Waiting, Puts
<1>4. OneCurrent' /\ PassToken' /\ TokenPlaces'
  BY TypeKnown, AskTokenEffect, <1>a, <1>b, <1>v0, <1>v1, <1>v2, <1>v3, <1>v4, <1>v5
  DEF Known, Settled, CalmInv, OneCurrent, Reached, PassToken, Passing, TokenPlaces, Puts
<1>5. WaitRow' /\ RowAsked'
  BY TypeKnown, AskTokenEffect, <1>a, <1>b, <1>v0, <1>v1, <1>v2, <1>v3, <1>v4, <1>v5
  DEF Known, Settled, CalmInv, WaitRow, Terminal, RowAsked, Puts
<1>r. OneRow' /\ RowTry'
  BY TypeKnown, AskTokenEffect, <1>a, <1>b, <1>v0, <1>v1, <1>v2, <1>v3, <1>v4, <1>v5
  DEF Known, Settled, CalmInv, OneRow, RowTry, Passing, Terminal, RowAsked, Puts
<1>6. AnsweredRow' /\ SkipRow'
  BY TypeKnown, AskTokenEffect, <1>a, <1>b, <1>v0, <1>v1, <1>v2, <1>v3, <1>v4, <1>v5
  DEF Known, Settled, CalmInv, AnsweredRow, Terminal, SkipRow, Sent, Puts
<1>7. RunRow' /\ FinalRow'
  BY TypeKnown, AskTokenEffect, <1>a, <1>b, <1>v0, <1>v1, <1>v2, <1>v3, <1>v4, <1>v5
  DEF Known, Settled, CalmInv, RunRow, Stopped, FinalRow, Sent, Puts
<1>8. NoOrphan' /\ SweepSees'
  BY TypeKnown, AskTokenEffect, <1>a, <1>b, <1>v0, <1>v1, <1>v2, <1>v3, <1>v4, <1>v5
  DEF Known, Settled, CalmInv, NoOrphan, SweepSees, Puts
<1>9. AnsweredNotAskedAgain'
  BY TypeKnown, AskTokenEffect, <1>a, <1>b, <1>v0, <1>v1, <1>v2, <1>v3, <1>v4, <1>v5, NeverAnswered
  DEF Known, Settled, CalmInv, AnsweredNotAskedAgain, Reached, Puts
<1>p. Promised
  <2>1. \A u \in Tokens : token[u].ex = ExecOf(w) /\ token[u].step = s =>
          /\ token[u].st # "pending"
          /\ token[u].st = "resolved" => s \in Stale(ExecOf(w))
    BY <1>a, TypeKnown, AskTokenEffect, NeverAnswered
  <2> QED
    BY <1>a, <2>1, TypeKnown, AskTokenEffect, <1>v0, Asking DEF SameStale, SameStatus
<1> QED
  BY <1>1, <1>2, <1>3, <1>4, <1>5, <1>6, <1>7, <1>8, <1>9, <1>r, <1>p DEF CalmInv

LEMMA MailOutCalm ==
    ASSUME Known, Settled, NEW w \in Workers, NEW s \in WaitSteps, NEW t \in Tokens, MailOut(w, s, t)
    PROVE  CalmInv' /\ Promised
<1>a. /\ token[t].st = "pending" /\ Asks(t) /\ token[t].ex = ExecOf(w) /\ token[t].step = s
      /\ worker[w].pc = "dag" /\ At(w, s) = "asked" /\ ~token[t].mailed /\ exec[token[t].ex].st = "running"
  BY TypeKnown, MailOutEffect, AskedOpen
<1>v0. \A d : Stale(d)' = Stale(d)
  BY TypeKnown, MailOutEffect DEF Stale
<1>v1. \A u \in Tokens : Asks(u)' <=> Asks(u)
  BY TypeKnown, MailOutEffect DEF Puts, Owners, Asks, Coming, Workers
<1>v2. \A d : InPass(d)' <=> InPass(d)
  BY TypeKnown, MailOutEffect DEF Puts, Owners, InPass
<1>v3. \A u \in Tokens : Busy(u)' <=> Busy(u)
  BY TypeKnown, MailOutEffect DEF Puts, Owners, Busy, InPass
<1>v4. \A v \in Workers, r \in WaitSteps : Current(v, r)' <=> Current(v, r)
  BY TypeKnown, MailOutEffect, <1>a DEF Puts, Owners, Current
<1>v5. \A v \in Workers : Stopped(v)' <=> Stopped(v)
  BY TypeKnown, MailOutEffect, <1>a DEF Puts, Owners, Stopped
<1>v6. \A v \in Workers : Works(v)' <=> Works(v)
  BY TypeKnown, MailOutEffect DEF Puts, Owners, Works
<1>1. OneWorker' /\ Running' /\ WorkStatus' /\ Fresher'
  BY TypeKnown, MailOutEffect, <1>a, <1>v0, <1>v1, <1>v2, <1>v3, <1>v4, <1>v5, <1>v6
  DEF Known, Settled, CalmInv, OneWorker, Works, Running, WorkStatus, Passing, Stopped, Fresher, Puts,
      Owners
<1>2. Sent' /\ JobSent' /\ Resolved'
  BY TypeKnown, MailOutEffect, <1>a, <1>v0, <1>v1, <1>v2, <1>v3, <1>v4, <1>v5, <1>v6
  DEF Known, Settled, CalmInv, Sent, JobSent, Resolved, Coming, Puts, Owners
<1>3. Mailed' /\ OneAsks' /\ Overdue' /\ Pending' /\ Waiting'
  BY TypeKnown, MailOutEffect, <1>a, <1>v0, <1>v1, <1>v2, <1>v3, <1>v4, <1>v5, <1>v6
  DEF Known, Settled, CalmInv, Mailed, OneAsks, Overdue, Pending, Waiting, Puts, Owners
<1>4. OneCurrent' /\ TokenPlaces'
  BY TypeKnown, MailOutEffect, <1>a, <1>v0, <1>v1, <1>v2, <1>v3, <1>v4, <1>v5, <1>v6
  DEF Known, Settled, CalmInv, OneCurrent, TokenPlaces, Puts, Owners
<1>5. PassToken'
  <2> SUFFICES ASSUME NEW v \in Workers, NEW r \in WaitSteps, Passing(v)', Current(v, r)'
               PROVE  \E u \in Tokens : /\ token'[u].ex = ExecOf(v)' /\ token'[u].step = r /\ token'[u].st = "pending"
                                        /\ token'[u].mailed <=> At(v, r)' # "asked"
    BY DEF PassToken
  <2>1. v = w
    BY <1>a, TypeKnown, MailOutEffect DEF Known, CalmInv, OneWorker, Works, Passing, Puts
  <2>2. r = s /\ Current(w, s)
    BY <1>a, <1>v4, <2>1 DEF Known, CalmInv, OneCurrent, Current
  <2> QED
    BY <1>a, <1>v4, <2>1, <2>2, TypeKnown, MailOutEffect DEF Puts, Turns, Owners
<1>6. WaitRow' /\ RowAsked'
  BY TypeKnown, MailOutEffect, <1>a, <1>v0, <1>v1, <1>v2, <1>v3, <1>v4, <1>v5, <1>v6
  DEF Known, Settled, CalmInv, WaitRow, Terminal, RowAsked, Puts, Owners
<1>r. OneRow' /\ RowTry'
  BY TypeKnown, MailOutEffect, <1>a, <1>v0, <1>v1, <1>v2, <1>v3, <1>v4, <1>v5, <1>v6
  DEF Known, Settled, CalmInv, OneRow, RowTry, Passing, Terminal, RowAsked, Puts, Owners
<1>7. AnsweredRow' /\ SkipRow' /\ RunRow' /\ FinalRow'
  BY TypeKnown, MailOutEffect, <1>a, <1>v0, <1>v1, <1>v2, <1>v3, <1>v4, <1>v5, <1>v6
  DEF Known, Settled, CalmInv, AnsweredRow, Terminal, SkipRow, Sent, RunRow, Stopped, FinalRow, Puts,
      Owners
<1>8. NoOrphan' /\ SweepSees' /\ AnsweredNotAskedAgain'
  BY TypeKnown, MailOutEffect, <1>a, <1>v0, <1>v1, <1>v2, <1>v3, <1>v4, <1>v5, <1>v6
  DEF Known, Settled, CalmInv, NoOrphan, SweepSees, AnsweredNotAskedAgain, Puts, Owners
<1>p. Promised
  BY TypeKnown, MailOutEffect, <1>a, <1>v0, Stutters DEF SameStale, SameStatus, SameQuestions, Puts, Owners
<1> QED
  BY <1>1, <1>2, <1>3, <1>4, <1>5, <1>6, <1>7, <1>8, <1>r, <1>p DEF CalmInv

LEMMA MailFailsCalm ==
    ASSUME Known, Settled, NEW w \in Workers, NEW s \in WaitSteps, NEW t \in Tokens, MailFails(w, s, t)
    PROVE  CalmInv' /\ Promised
<1>a. /\ token[t].st = "pending" /\ Asks(t) /\ token[t].ex = ExecOf(w) /\ token[t].step = s
      /\ worker[w].pc = "dag" /\ At(w, s) = "asked" /\ ~token[t].mailed /\ exec[token[t].ex].st = "running"
  BY TypeKnown, MailFailsEffect, AskedOpen
<1>z. /\ \A v \in Workers : /\ worker'[v].pc = worker[v].pc
                          /\ \A r \in WaitSteps : v # w \/ r # s =>
                               At(v, r)' = At(v, r) /\ Try(v, r)' = Try(v, r)
      /\ At(w, s)' \in {"todo", "failed"}
  BY TypeKnown, MailFailsEffect DEF Again, Puts
<1>v0. \A d : Stale(d)' = Stale(d)
  BY TypeKnown, MailFailsEffect DEF Stale
<1>v1. \A u \in Tokens : Asks(u)' <=> (Asks(u) /\ u # t)
  BY TypeKnown, MailFailsEffect, <1>z DEF Turns, Owners, Asks, Coming, Workers
<1>v2. \A d : InPass(d)' <=> InPass(d)
  BY TypeKnown, MailFailsEffect, <1>z DEF Turns, Owners, InPass
<1>v3. \A u \in Tokens : Busy(u)' <=> Busy(u)
  BY TypeKnown, MailFailsEffect, <1>z DEF Turns, Owners, Busy, InPass
<1>v4. \A v \in Workers, r \in WaitSteps : Current(v, r)' <=> (Current(v, r) /\ ~(v = w /\ r = s))
  BY TypeKnown, MailFailsEffect, <1>a, <1>z DEF Turns, Owners, Current
<1>v5. \A v \in Workers : Stopped(v)' <=> Stopped(v)
  BY TypeKnown, MailFailsEffect, <1>a, <1>z DEF Turns, Owners, Stopped
<1>v6. \A v \in Workers : Works(v)' <=> Works(v)
  BY TypeKnown, MailFailsEffect, <1>z DEF Turns, Owners, Works
<1>1. OneWorker' /\ Running' /\ WorkStatus' /\ Fresher'
  BY TypeKnown, MailFailsEffect, <1>a, <1>z, <1>v0, <1>v1, <1>v2, <1>v3, <1>v4, <1>v5, <1>v6
  DEF Known, Settled, CalmInv, OneWorker, Works, Running, WorkStatus, Passing, Stopped, Fresher, Turns, Owners
<1>2. Sent' /\ JobSent' /\ Resolved'
  BY TypeKnown, MailFailsEffect, <1>a, <1>z, <1>v0, <1>v1, <1>v2, <1>v3, <1>v4, <1>v5, <1>v6
  DEF Known, Settled, CalmInv, Sent, JobSent, Resolved, Coming, Turns, Owners
<1>3. Mailed' /\ OneAsks' /\ Overdue' /\ Pending' /\ Waiting'
  BY TypeKnown, MailFailsEffect, <1>a, <1>z, <1>v0, <1>v1, <1>v2, <1>v3, <1>v4, <1>v5, <1>v6
  DEF Known, Settled, CalmInv, Mailed, OneAsks, Overdue, Pending, Waiting, Turns, Owners
<1>4. OneCurrent' /\ TokenPlaces'
  BY TypeKnown, MailFailsEffect, <1>a, <1>z, <1>v0, <1>v1, <1>v2, <1>v3, <1>v4, <1>v5, <1>v6
  DEF Known, Settled, CalmInv, OneCurrent, TokenPlaces, Turns, Owners
<1>5. PassToken'
  <2> SUFFICES ASSUME NEW v \in Workers, NEW r \in WaitSteps, Passing(v)', Current(v, r)'
               PROVE  \E u \in Tokens : /\ token'[u].ex = ExecOf(v)' /\ token'[u].step = r /\ token'[u].st = "pending"
                                        /\ token'[u].mailed <=> At(v, r)' # "asked"
    BY DEF PassToken
  <2>1. v = w
    BY <1>a, TypeKnown, MailFailsEffect, <1>z DEF Known, CalmInv, OneWorker, Works, Passing
  <2>2. r = s /\ Current(w, s)
    BY <1>a, <1>v4, <2>1 DEF Known, CalmInv, OneCurrent, Current
  <2> QED
    BY <1>a, <1>v4, <2>1, <2>2, TypeKnown, MailFailsEffect, <1>z DEF Turns, Owners
<1>6. WaitRow' /\ RowAsked'
  BY TypeKnown, MailFailsEffect, <1>a, <1>z, <1>v0, <1>v1, <1>v2, <1>v3, <1>v4, <1>v5, <1>v6
  DEF Known, Settled, CalmInv, WaitRow, Terminal, RowAsked, Turns, Owners
<1>r. OneRow' /\ RowTry'
  BY TypeKnown, MailFailsEffect, <1>a, <1>z, <1>v0, <1>v1, <1>v2, <1>v3, <1>v4, <1>v5, <1>v6
  DEF Known, Settled, CalmInv, OneRow, RowTry, Passing, Terminal, RowAsked, Turns, Owners
<1>7. AnsweredRow' /\ SkipRow' /\ RunRow' /\ FinalRow'
  BY TypeKnown, MailFailsEffect, <1>a, <1>z, <1>v0, <1>v1, <1>v2, <1>v3, <1>v4, <1>v5, <1>v6
  DEF Known, Settled, CalmInv, AnsweredRow, Terminal, SkipRow, Sent, RunRow, Stopped, FinalRow, Turns, Owners
<1>8. NoOrphan' /\ SweepSees' /\ AnsweredNotAskedAgain'
  BY TypeKnown, MailFailsEffect, <1>a, <1>z, <1>v0, <1>v1, <1>v2, <1>v3, <1>v4, <1>v5, <1>v6
  DEF Known, Settled, CalmInv, NoOrphan, SweepSees, AnsweredNotAskedAgain, Turns, Owners
<1>p. Promised
  BY <1>a, TypeKnown, MailFailsEffect, <1>z, <1>v0, Withdraws DEF SameStale, SameStatus, Known, CalmInv, OneAsks
<1> QED
  BY <1>1, <1>2, <1>3, <1>4, <1>5, <1>6, <1>7, <1>8, <1>r, <1>p DEF CalmInv

LEMMA SkipStepCalm ==
    ASSUME Known, Settled, NEW w \in Workers, NEW s \in WaitSteps, SkipStep(w, s)
    PROVE  CalmInv' /\ Promised
<1>a. At(w, s) = "todo"
  BY TypeKnown, SkipStepEffect DEF Reached
<1>v0. \A d : Stale(d)' = Stale(d)
  BY TypeKnown, SkipStepEffect DEF Stale
<1>v1. \A u \in Tokens : Asks(u)' <=> Asks(u)
  BY TypeKnown, SkipStepEffect DEF Puts, Owners, Asks, Coming, Workers
<1>v2. \A d : InPass(d)' <=> InPass(d)
  BY TypeKnown, SkipStepEffect DEF Puts, Owners, InPass
<1>v3. \A u \in Tokens : Busy(u)' <=> Busy(u)
  BY TypeKnown, SkipStepEffect DEF Puts, Owners, Busy, InPass
<1>v4. \A v \in Workers, r \in WaitSteps : Current(v, r)' <=> Current(v, r)
  BY TypeKnown, SkipStepEffect, <1>a DEF Puts, Owners, Current
<1>v5. \A v \in Workers : Stopped(v)' <=> Stopped(v)
  BY TypeKnown, SkipStepEffect, <1>a DEF Puts, Owners, Stopped
<1>v6. \A v \in Workers : Works(v)' <=> Works(v)
  BY TypeKnown, SkipStepEffect DEF Puts, Owners, Works
<1>1. OneWorker' /\ Running' /\ WorkStatus' /\ Fresher'
  BY TypeKnown, SkipStepEffect, <1>a, <1>v0, <1>v1, <1>v2, <1>v3, <1>v4, <1>v5, <1>v6
  DEF Known, Settled, CalmInv, OneWorker, Works, Running, WorkStatus, Passing, Stopped, Fresher, Puts,
      Owners
<1>2. Sent' /\ JobSent' /\ Resolved'
  BY TypeKnown, SkipStepEffect, <1>a, <1>v0, <1>v1, <1>v2, <1>v3, <1>v4, <1>v5, <1>v6
  DEF Known, Settled, CalmInv, Sent, JobSent, Resolved, Coming, Puts, Owners
<1>3. Mailed' /\ OneAsks' /\ Overdue' /\ Pending' /\ Waiting'
  BY TypeKnown, SkipStepEffect, <1>a, <1>v0, <1>v1, <1>v2, <1>v3, <1>v4, <1>v5, <1>v6
  DEF Known, Settled, CalmInv, Mailed, OneAsks, Overdue, Pending, Waiting, Puts, Owners
<1>4. OneCurrent' /\ PassToken' /\ TokenPlaces'
  BY TypeKnown, SkipStepEffect, <1>a, <1>v0, <1>v1, <1>v2, <1>v3, <1>v4, <1>v5, <1>v6
  DEF Known, Settled, CalmInv, OneCurrent, PassToken, Passing, TokenPlaces, Puts, Owners
<1>5. WaitRow' /\ RowAsked'
  BY TypeKnown, SkipStepEffect, <1>a, <1>v0, <1>v1, <1>v2, <1>v3, <1>v4, <1>v5, <1>v6
  DEF Known, Settled, CalmInv, WaitRow, Terminal, RowAsked, Puts, Owners
<1>r. OneRow' /\ RowTry'
  BY TypeKnown, SkipStepEffect, <1>a, <1>v0, <1>v1, <1>v2, <1>v3, <1>v4, <1>v5, <1>v6
  DEF Known, Settled, CalmInv, OneRow, RowTry, Passing, Terminal, RowAsked, Puts, Owners
<1>6. AnsweredRow' /\ SkipRow' /\ RunRow' /\ FinalRow'
  BY TypeKnown, SkipStepEffect, <1>a, <1>v0, <1>v1, <1>v2, <1>v3, <1>v4, <1>v5, <1>v6
  DEF Known, Settled, CalmInv, AnsweredRow, Terminal, SkipRow, Sent, RunRow, Stopped, FinalRow, Puts,
      Owners
<1>7. NoOrphan' /\ SweepSees' /\ AnsweredNotAskedAgain'
  BY TypeKnown, SkipStepEffect, <1>a, <1>v0, <1>v1, <1>v2, <1>v3, <1>v4, <1>v5, <1>v6
  DEF Known, Settled, CalmInv, NoOrphan, SweepSees, AnsweredNotAskedAgain, Puts, Owners
<1>p. Promised
  BY TypeKnown, SkipStepEffect, <1>a, <1>v0, Stutters DEF SameStale, SameStatus, SameQuestions, Puts, Owners
<1> QED
  BY <1>1, <1>2, <1>3, <1>4, <1>5, <1>6, <1>7, <1>r, <1>p DEF CalmInv

LEMMA StepFailsCalm ==
    ASSUME Known, Settled, NEW w \in Workers, NEW s \in WaitSteps, StepFails(w, s)
    PROVE  CalmInv' /\ Promised
<1>a. At(w, s) = "todo"
  BY TypeKnown, StepFailsEffect DEF Reached
<1>z. /\ \A v \in Workers : /\ worker'[v].pc = worker[v].pc
                          /\ \A r \in WaitSteps : v # w \/ r # s =>
                               At(v, r)' = At(v, r) /\ Try(v, r)' = Try(v, r)
      /\ At(w, s)' \in {"todo", "failed"}
  BY TypeKnown, StepFailsEffect DEF Again, Puts
<1>v0. \A d : Stale(d)' = Stale(d)
  BY TypeKnown, StepFailsEffect DEF Stale
<1>v1. \A u \in Tokens : Asks(u)' <=> Asks(u)
  BY TypeKnown, StepFailsEffect, <1>z DEF Owners, Asks, Coming, Workers
<1>v2. \A d : InPass(d)' <=> InPass(d)
  BY TypeKnown, StepFailsEffect, <1>z DEF Owners, InPass
<1>v3. \A u \in Tokens : Busy(u)' <=> Busy(u)
  BY TypeKnown, StepFailsEffect, <1>z DEF Owners, Busy, InPass
<1>v4. \A v \in Workers, r \in WaitSteps : Current(v, r)' <=> Current(v, r)
  BY TypeKnown, StepFailsEffect, <1>a, <1>z DEF Owners, Current
<1>v5. \A v \in Workers : Stopped(v)' <=> Stopped(v)
  BY TypeKnown, StepFailsEffect, <1>a, <1>z DEF Owners, Stopped
<1>v6. \A v \in Workers : Works(v)' <=> Works(v)
  BY TypeKnown, StepFailsEffect, <1>z DEF Owners, Works
<1>1. OneWorker' /\ Running' /\ WorkStatus' /\ Fresher'
  BY TypeKnown, StepFailsEffect, <1>a, <1>z, <1>v0, <1>v1, <1>v2, <1>v3, <1>v4, <1>v5, <1>v6
  DEF Known, Settled, CalmInv, OneWorker, Works, Running, WorkStatus, Passing, Stopped, Fresher, Owners
<1>2. Sent' /\ JobSent' /\ Resolved'
  BY TypeKnown, StepFailsEffect, <1>a, <1>z, <1>v0, <1>v1, <1>v2, <1>v3, <1>v4, <1>v5, <1>v6
  DEF Known, Settled, CalmInv, Sent, JobSent, Resolved, Coming, Owners
<1>3. Mailed' /\ OneAsks' /\ Overdue' /\ Pending' /\ Waiting'
  BY TypeKnown, StepFailsEffect, <1>a, <1>z, <1>v0, <1>v1, <1>v2, <1>v3, <1>v4, <1>v5, <1>v6
  DEF Known, Settled, CalmInv, Mailed, OneAsks, Overdue, Pending, Waiting, Owners
<1>4. OneCurrent' /\ PassToken' /\ TokenPlaces'
  BY TypeKnown, StepFailsEffect, <1>a, <1>z, <1>v0, <1>v1, <1>v2, <1>v3, <1>v4, <1>v5, <1>v6
  DEF Known, Settled, CalmInv, OneCurrent, PassToken, Passing, TokenPlaces, Owners
<1>5. WaitRow' /\ RowAsked'
  BY TypeKnown, StepFailsEffect, <1>a, <1>z, <1>v0, <1>v1, <1>v2, <1>v3, <1>v4, <1>v5, <1>v6
  DEF Known, Settled, CalmInv, WaitRow, Terminal, RowAsked, Owners
<1>r. OneRow' /\ RowTry'
  BY TypeKnown, StepFailsEffect, <1>a, <1>z, <1>v0, <1>v1, <1>v2, <1>v3, <1>v4, <1>v5, <1>v6
  DEF Known, Settled, CalmInv, OneRow, RowTry, Passing, Terminal, RowAsked, Owners
<1>6. AnsweredRow' /\ SkipRow' /\ RunRow' /\ FinalRow'
  BY TypeKnown, StepFailsEffect, <1>a, <1>z, <1>v0, <1>v1, <1>v2, <1>v3, <1>v4, <1>v5, <1>v6
  DEF Known, Settled, CalmInv, AnsweredRow, Terminal, SkipRow, Sent, RunRow, Stopped, FinalRow, Owners
<1>7. NoOrphan' /\ SweepSees' /\ AnsweredNotAskedAgain'
  BY TypeKnown, StepFailsEffect, <1>a, <1>z, <1>v0, <1>v1, <1>v2, <1>v3, <1>v4, <1>v5, <1>v6
  DEF Known, Settled, CalmInv, NoOrphan, SweepSees, AnsweredNotAskedAgain, Owners
<1>p. Promised
  BY TypeKnown, StepFailsEffect, <1>a, <1>z, <1>v0, Stutters DEF SameStale, SameStatus, SameQuestions, Owners
<1> QED
  BY <1>1, <1>2, <1>3, <1>4, <1>5, <1>6, <1>7, <1>r, <1>p DEF CalmInv

LEMMA SuspendCalm ==
    ASSUME Known, Settled, NEW w \in Workers, NEW s \in WaitSteps, Suspend(w, s)
    PROVE  CalmInv' /\ Promised
<1>a. worker[w].pc = "dag" /\ Works(w) /\ Passing(w) /\ Current(w, s) /\ At(w, s) = "mailed" /\ ExecOf(w) \in Execs
  BY TypeKnown, SuspendEffect, Employed DEF Works, Passing, Current
<1>b. PICK t \in Tokens : token[t].ex = ExecOf(w) /\ token[t].step = s /\ token[t].st = "pending" /\ token[t].mailed /\ Asks(t)
  BY <1>a DEF Known, CalmInv, PassToken, Asks
<1>c. \A v \in Workers : Works(v) => v = w
  BY <1>a DEF Known, CalmInv, OneWorker
<1>d. \A u \in Tokens : Asks(u) /\ token[u].ex = ExecOf(w) => u = t
  BY <1>b DEF Known, CalmInv, OneAsks
<1>e. InPass(ExecOf(w)) /\ exec[ExecOf(w)].st \notin Terminal
  BY <1>a DEF InPass, Passing, Known, CalmInv, WorkStatus, Terminal
<1>v0. \A d : Stale(d)' = Stale(d)
  BY TypeKnown, SuspendEffect DEF Stale
<1>v1. \A u \in Tokens : Asks(u)' <=> Asks(u)
  BY TypeKnown, SuspendEffect DEF Puts, Marks, Owners, Asks, Coming, Workers
<1>v2. \A d : InPass(d)' <=> InPass(d)
  BY TypeKnown, SuspendEffect DEF Puts, Marks, Owners, InPass
<1>v3. \A u \in Tokens : Busy(u)' <=> Busy(u)
  BY TypeKnown, SuspendEffect DEF Puts, Marks, Owners, Busy, InPass
<1>v4. \A v \in Workers, r \in WaitSteps : Current(v, r)' <=> Current(v, r)
  BY TypeKnown, SuspendEffect, <1>a DEF Puts, Marks, Owners, Current
<1>v5. \A v \in Workers : Stopped(v)' <=> (Stopped(v) \/ v = w)
  BY TypeKnown, SuspendEffect, <1>a DEF Puts, Marks, Owners, Stopped
<1>v6. \A v \in Workers : Works(v)' <=> Works(v)
  BY TypeKnown, SuspendEffect DEF Puts, Marks, Owners, Works
<1>1. OneWorker' /\ Running' /\ WorkStatus' /\ Fresher'
  BY TypeKnown, SuspendEffect, <1>a, <1>b, <1>c, <1>d, <1>e, <1>v0, <1>v1, <1>v2, <1>v3, <1>v4, <1>v5, <1>v6
  DEF Known, Settled, CalmInv, OneWorker, Works, Running, WorkStatus, Passing, Stopped, Fresher, Puts,
      Marks, Owners
<1>2. Sent' /\ JobSent' /\ Resolved'
  BY TypeKnown, SuspendEffect, <1>a, <1>b, <1>c, <1>d, <1>e, <1>v0, <1>v1, <1>v2, <1>v3, <1>v4, <1>v5, <1>v6
  DEF Known, Settled, CalmInv, Sent, JobSent, Resolved, Coming, Puts, Marks, Owners
<1>3. Mailed' /\ OneAsks' /\ Overdue' /\ Pending' /\ Waiting'
  BY TypeKnown, SuspendEffect, <1>a, <1>b, <1>c, <1>d, <1>e, <1>v0, <1>v1, <1>v2, <1>v3, <1>v4, <1>v5, <1>v6
  DEF Known, Settled, CalmInv, Mailed, OneAsks, Overdue, Pending, Waiting, Puts, Marks, Owners
<1>4. OneCurrent' /\ PassToken' /\ TokenPlaces'
  BY TypeKnown, SuspendEffect, <1>a, <1>b, <1>c, <1>d, <1>e, <1>v0, <1>v1, <1>v2, <1>v3, <1>v4, <1>v5, <1>v6
  DEF Known, Settled, CalmInv, OneCurrent, PassToken, Passing, TokenPlaces, Puts, Marks, Owners
<1>5. WaitRow' /\ RowAsked'
  BY TypeKnown, SuspendEffect, <1>a, <1>b, <1>c, <1>d, <1>e, <1>v0, <1>v1, <1>v2, <1>v3, <1>v4, <1>v5, <1>v6
  DEF Known, Settled, CalmInv, WaitRow, Terminal, RowAsked, Puts, Marks, Owners
<1>r. OneRow' /\ RowTry'
  BY TypeKnown, SuspendEffect, <1>a, <1>b, <1>c, <1>d, <1>e, <1>v0, <1>v1, <1>v2, <1>v3, <1>v4, <1>v5, <1>v6
  DEF Known, Settled, CalmInv, OneRow, RowTry, Passing, Terminal, RowAsked, Puts, Marks, Owners
<1>6. AnsweredRow' /\ SkipRow' /\ RunRow' /\ FinalRow'
  BY TypeKnown, SuspendEffect, <1>a, <1>b, <1>c, <1>d, <1>e, <1>v0, <1>v1, <1>v2, <1>v3, <1>v4, <1>v5, <1>v6
  DEF Known, Settled, CalmInv, AnsweredRow, Terminal, SkipRow, Sent, RunRow, Stopped, FinalRow, Puts,
      Marks, Owners
<1>7. NoOrphan' /\ SweepSees' /\ AnsweredNotAskedAgain'
  BY TypeKnown, SuspendEffect, <1>a, <1>b, <1>c, <1>d, <1>e, <1>v0, <1>v1, <1>v2, <1>v3, <1>v4, <1>v5, <1>v6
  DEF Known, Settled, CalmInv, NoOrphan, SweepSees, AnsweredNotAskedAgain, Puts, Marks, Owners
<1>p. Promised
  <2>1. ~Stopped(w)
    BY <1>a DEF Stopped, Known, CalmInv, OneCurrent, Current
  <2>2. exec[ExecOf(w)].st = "running"
    BY <1>a, <2>1 DEF Known, CalmInv, WorkStatus
  <2> QED
    BY <1>a, <1>b, <2>2, TypeKnown, SuspendEffect, <1>v0, Waits DEF SameStale, SameQuestions
<1> QED
  BY <1>1, <1>2, <1>3, <1>4, <1>5, <1>6, <1>7, <1>r, <1>p DEF CalmInv

\* What a journal writes during a pass: rows of the attempts made in it, and a miss only
\* where nothing was answered before.
LEMMA Journalled ==
    ASSUME Known, Settled, NEW w \in Workers, Passing(w), Journals(w), NEW e \in Execs, ExecOf(w) = e,
           exec[e].st \in {"running", "waiting"}
    PROVE  /\ \A d \in Execs \ {e} : Stale(d)' = Stale(d)
           /\ Stale(e) \subseteq Stale(e)'
           /\ \A u \in Tokens : token[u].st = "resolved" /\ token[u].ex = e
                 /\ token[u].step \in Stale(e)' => token[u].step \in Stale(e)
           /\ \A s \in WaitSteps : \A a \in Attempts :
                 /\ row'[e][s][a] = "waiting" => At(w, s) = "waiting" /\ a = Try(w, s)
                 /\ row'[e][s][a] = "success" <=> row[e][s][a] = "success"
           /\ \A d \in Execs \ {e} : \A s \in WaitSteps : \A a \in Attempts : row'[d][s][a] = row[d][s][a]
<1>1. Works(w)
  BY TypeKnown
<1>2. \A d \in Execs \ {e} : \A s \in WaitSteps : \A a \in Attempts : row'[d][s][a] = row[d][s][a]
  BY DEF Journals
<1>3. \A s \in WaitSteps : \A a \in Attempts :
        row'[e][s][a] # row[e][s][a] =>
            /\ row[e][s][a] = "none" /\ a = Try(w, s)
            /\ row'[e][s][a] = At(w, s) /\ At(w, s) \in Recorded
  BY <1>1 DEF Journals, Missing
<1>4. \A s \in WaitSteps : \A a \in Attempts :
        /\ row'[e][s][a] = "waiting" => At(w, s) = "waiting" /\ a = Try(w, s)
        /\ row'[e][s][a] = "success" <=> row[e][s][a] = "success"
  BY <1>1, <1>3 DEF Recorded, Known, CalmInv, RowTry
<1>5. \A d \in Execs \ {e} : Stale(d)' = Stale(d)
  BY <1>2 DEF Stale
<1>6. Stale(e) \subseteq Stale(e)'
  BY <1>3 DEF Stale
<1>7. ASSUME NEW u \in Tokens, token[u].st = "resolved", token[u].ex = e, token[u].step \in Stale(e)',
             token[u].step \notin Stale(e)
      PROVE  FALSE
  <2>0. PICK s \in WaitSteps : s = token[u].step /\ s \in Stale(e)' /\ s \notin Stale(e)
    BY <1>7 DEF Stale
  <2>1. At(w, s) \in {"failed", "skipped"}
    <3>1. PICK a \in Attempts : row'[e][s][a] \in {"failed", "skipped"}
      BY <2>0 DEF Stale
    <3>2. row'[e][s][a] # row[e][s][a]
      BY <2>0, <3>1 DEF Stale
    <3> QED
      BY <1>3, <3>1, <3>2
  <2>2. ~Coming(u)
    BY <1>1, <1>7, Unattended DEF Known, CalmInv, Resolved, Terminal
  <2>3. worker[u].pc \notin {"idle", "claim", "load", "snap"}
    BY <1>1, <1>7, <2>2, TypeKnown
    DEF Known, CalmInv, Resolved, OneWorker, Works, Passing, OrderInv, RunsGo
  <2>4. \E a \in Attempts : row[e][s][a] = "success"
    BY <1>7, <2>0, <2>3, TypeKnown DEF Known, CalmInv, AnsweredRow, Terminal, WorkerStates, Counters
  <2> QED
    BY <1>1, <2>1, <2>4, TypeKnown DEF Known, CalmInv, SkipRow, RunRow, Passing, OrderInv, RunsGo, Workers
<1> QED
  BY <1>2, <1>4, <1>5, <1>6, <1>7

LEMMA RunFlushCalm ==
    ASSUME Known, Settled, NEW e \in Execs, RunFlush(e)
    PROVE  CalmInv' /\ Promised
<1>a. e \in Workers /\ e \notin Tokens /\ ExecOf(e) = e /\ worker[e].pc = "dag" /\ Works(e) /\ Passing(e) /\ InPass(e)
  BY TypeKnown, KindAssumption, RunFlushEffect DEF Works, Passing, Workers, ExecOf, InPass
<1>c. \A v \in Workers : Works(v) => v = e
  BY <1>a DEF Known, CalmInv, OneWorker
<1>j. /\ \A s \in WaitSteps : At(e, s) \notin {"asked", "mailed"}
      /\ Journals(e) /\ exec[e].st \in {"running", "waiting"} /\ ExecOf(e) = e
  BY <1>a, TypeKnown, RunFlushEffect DEF LevelClosed, InFlight, Known, CalmInv, WorkStatus
<1>k. /\ \A d \in Execs \ {e} : Stale(d)' = Stale(d)
      /\ Stale(e) \subseteq Stale(e)'
      /\ \A u \in Tokens : token[u].st = "resolved" /\ token[u].ex = e
             /\ token[u].step \in Stale(e)' => token[u].step \in Stale(e)
      /\ \A s \in WaitSteps : \A a \in Attempts :
             /\ row'[e][s][a] = "waiting" => At(e, s) = "waiting" /\ a = Try(e, s)
             /\ row'[e][s][a] = "success" <=> row[e][s][a] = "success"
      /\ \A d \in Execs \ {e} : \A s \in WaitSteps : \A a \in Attempts : row'[d][s][a] = row[d][s][a]
  BY <1>a, <1>c, <1>j, Journalled
<1>m. \A v, r : At(v, r)' = At(v, r) /\ Try(v, r)' = Try(v, r)
  BY TypeKnown, RunFlushEffect DEF At, Try
<1>v1. \A u \in Tokens : Asks(u)' <=> Asks(u)
  BY TypeKnown, RunFlushEffect DEF Owners, Asks, Coming, Workers
<1>v2. \A d : InPass(d)' <=> InPass(d)
  BY TypeKnown, RunFlushEffect DEF Owners, InPass
<1>v3. \A u \in Tokens : Busy(u)' <=> Busy(u)
  BY TypeKnown, RunFlushEffect DEF Owners, Busy, InPass
<1>v4. \A v \in Workers, r \in WaitSteps : Current(v, r)' <=> Current(v, r)
  BY TypeKnown, RunFlushEffect, <1>a, <1>m DEF Owners, Current
<1>v5. \A v \in Workers : Stopped(v)' <=> Stopped(v)
  BY TypeKnown, RunFlushEffect, <1>a, <1>m DEF Owners, Stopped
<1>v6. \A v \in Workers : Works(v)' <=> Works(v)
  BY TypeKnown, RunFlushEffect DEF Owners, Works
<1>1. OneWorker' /\ Running' /\ WorkStatus' /\ Fresher'
  BY TypeKnown, RunFlushEffect, <1>a, <1>c, <1>j, <1>k, <1>m, <1>v1, <1>v2, <1>v3, <1>v4, <1>v5, <1>v6
  DEF Known, Settled, CalmInv, OneWorker, Works, Running, WorkStatus, Passing, Stopped, Fresher,
      Owners
<1>2. Sent' /\ JobSent' /\ Resolved'
  BY TypeKnown, RunFlushEffect, <1>a, <1>c, <1>j, <1>k, <1>m, <1>v1, <1>v2, <1>v3, <1>v4, <1>v5, <1>v6
  DEF Known, Settled, CalmInv, Sent, JobSent, Resolved, Coming, Owners
<1>3. Mailed' /\ OneAsks' /\ Overdue' /\ Pending' /\ Waiting'
  BY TypeKnown, RunFlushEffect, <1>a, <1>c, <1>j, <1>k, <1>m, <1>v1, <1>v2, <1>v3, <1>v4, <1>v5, <1>v6
  DEF Known, Settled, CalmInv, Mailed, OneAsks, Overdue, Pending, Waiting, Owners
<1>4. OneCurrent' /\ PassToken' /\ TokenPlaces'
  BY TypeKnown, RunFlushEffect, <1>a, <1>c, <1>j, <1>k, <1>m, <1>v1, <1>v2, <1>v3, <1>v4, <1>v5, <1>v6
  DEF Known, Settled, CalmInv, OneCurrent, PassToken, Passing, TokenPlaces, Owners
<1>5. WaitRow'
  <2> SUFFICES ASSUME NEW u \in Tokens, NEW d \in Execs, d = token[u].ex, Asks(u), exec[d].st \notin Terminal,
                      ~Busy(u)
               PROVE  \/ \E a \in Attempts : row'[d][token[u].step][a] = "waiting"
                      \/ token[u].step \in Stale(d)'
    BY TypeKnown, RunFlushEffect, <1>v1, <1>v3 DEF WaitRow, Terminal, Owners
  <2>1. d # e /\ token[u].step \in WaitSteps
    BY TypeKnown, <1>a DEF Busy
  <2>2. \/ \E a \in Attempts : row[token[u].ex][token[u].step][a] = "waiting"
        \/ token[u].step \in Stale(token[u].ex)
    BY DEF Known, CalmInv, WaitRow
  <2> QED
    BY <2>1, <2>2, <1>k
<1>y. RowAsked'
  <2> SUFFICES ASSUME NEW d \in Execs, NEW s \in WaitSteps, NEW a \in Attempts, row'[d][s][a] = "waiting",
                      exec[d].st \notin Terminal
               PROVE  \E u \in Tokens : Asks(u) /\ token[u].ex = d /\ token[u].step = s /\ token[u].mailed
    BY TypeKnown, RunFlushEffect, <1>v1 DEF RowAsked, Terminal, Owners
  <2>1. CASE d = e
    <3>1. At(e, s) = "waiting"
      BY <2>1, <1>k
    <3> QED
      BY <2>1, <3>1, TypeKnown, <1>a, <1>j, <1>a DEF Known, CalmInv, PassToken, Current
  <2>2. CASE d # e
    BY <2>2, <1>k DEF Known, CalmInv, RowAsked
  <2> QED
    BY <2>1, <2>2
<1>r. OneRow' /\ RowTry'
  BY TypeKnown, RunFlushEffect, <1>a, <1>c, <1>j, <1>k, <1>m, <1>v1, <1>v2, <1>v3, <1>v4, <1>v5, <1>v6
  DEF Known, Settled, CalmInv, OneRow, RowTry, Passing, Works, OneWorker, Terminal, Owners
<1>6. AnsweredRow' /\ SkipRow'
  BY TypeKnown, RunFlushEffect, <1>a, <1>c, <1>j, <1>k, <1>m, <1>v1, <1>v2, <1>v3, <1>v4, <1>v5, <1>v6
  DEF Known, Settled, CalmInv, AnsweredRow, Terminal, SkipRow, Sent, Owners
<1>7. RunRow'
  BY TypeKnown, RunFlushEffect, <1>a, <1>k DEF Known, CalmInv, RunRow, Owners
<1>z. FinalRow'
  <2>1. \A u \in Tokens : worker[u].pc # "final"
    BY <1>a, <1>c, TypeKnown DEF Works
  <2> QED
    BY <2>1, TypeKnown, RunFlushEffect DEF FinalRow
<1>8. NoOrphan' /\ SweepSees' /\ AnsweredNotAskedAgain'
  BY TypeKnown, RunFlushEffect, <1>a, <1>c, <1>j, <1>k, <1>m, <1>v1, <1>v2, <1>v3, <1>v4, <1>v5, <1>v6
  DEF Known, Settled, CalmInv, NoOrphan, SweepSees, AnsweredNotAskedAgain, Owners
<1>p. Promised
  BY <1>a, <1>j, <1>k, TypeKnown, RunFlushEffect, Misses DEF SameStatus, SameQuestions
<1> QED
  BY <1>1, <1>2, <1>3, <1>4, <1>5, <1>6, <1>7, <1>8, <1>r, <1>y, <1>z, <1>p DEF CalmInv

LEMMA RunEndCalm ==
    ASSUME Known, Settled, NEW e \in Execs, RunEnd(e)
    PROVE  CalmInv' /\ Promised
<1>a. e \in Workers /\ e \notin Tokens /\ ExecOf(e) = e /\ worker[e].pc = "dag" /\ Works(e) /\ Passing(e)
  BY TypeKnown, KindAssumption, RunEndEffect DEF Works, Passing, Workers, ExecOf
<1>c. \A v \in Workers : Works(v) => v = e
  BY <1>a DEF Known, CalmInv, OneWorker
<1>d. \A s \in WaitSteps : At(e, s) \notin {"asked", "mailed"}
  BY TypeKnown, RunEndEffect DEF LevelOver, InFlight
<1>e. exec[e].st = IF Stopped(e) THEN "waiting" ELSE "running"
  BY <1>a DEF Known, CalmInv, WorkStatus
<1>f. PICK x : /\ x \in IF Stopped(e) THEN {"waiting"} ELSE {"done", "failed"}
             /\ \A d \in Execs : exec'[d].st = IF d = e THEN x ELSE exec[d].st
  BY TypeKnown, RunEndEffect DEF Marks
<1>g. \A u \in Tokens : token[u].ex = e /\ Asks(u) =>
         /\ Stopped(e) /\ token[u].st = "pending" /\ token[u].mailed
         /\ (\E a \in Attempts : row[e][token[u].step][a] = "waiting") \/ token[u].step \in Stale(e)
  <2> SUFFICES ASSUME NEW u \in Tokens, token[u].ex = e, Asks(u)
               PROVE  /\ Stopped(e) /\ token[u].st = "pending" /\ token[u].mailed
                      /\ \/ \E a \in Attempts : row[e][token[u].step][a] = "waiting"
                         \/ token[u].step \in Stale(e)
    OBVIOUS
  <2>1. Stopped(e)
    BY <1>a, <1>d, <1>e, NoQuestion
  <2>2. PICK r \in WaitSteps : At(e, r) = "waiting"
    BY <2>1 DEF Stopped
  <2>3. token[u].st = "pending" /\ token[u].step = r /\ token[u].mailed
    BY <1>a, <2>2, PassAsks DEF Current
  <2>4. PICK a \in Attempts : a = Try(e, r)
    BY <1>a, TypeKnown DEF WorkerStates, Try
  <2>5. row[e][r][a] # "none"
    BY <1>a, <2>2, <2>4, TypeKnown, EnvKnown, RunEndEffect DEF Missing, Recorded
  <2>6. row[e][r][a] # "success"
    BY <1>a, <2>4 DEF Known, CalmInv, RunRow
  <2>7. row[e][r][a] \in {"waiting", "failed", "skipped"}
    BY <1>a, <2>5, <2>6, TypeKnown DEF JournalRows, StepRows, Recorded
  <2> QED
    BY <2>1, <2>3, <2>7 DEF Stale
<1>v0. \A d : Stale(d)' = Stale(d)
  BY TypeKnown, RunEndEffect DEF Stale
<1>v1. \A u \in Tokens : Asks(u)' <=> Asks(u)
  BY TypeKnown, RunEndEffect, <1>a DEF Moves, Marks, Owners, Asks, Coming, Workers
<1>v2. \A d : InPass(d)' <=> (InPass(d) /\ d # e)
  BY TypeKnown, RunEndEffect, <1>a, <1>c DEF Moves, Marks, Owners, InPass, Works
<1>v3. \A u \in Tokens : token[u].st # "free" => (Busy(u)' <=> (Busy(u) /\ token[u].ex # e))
  BY TypeKnown, RunEndEffect, <1>a, <1>c DEF Moves, Marks, Owners, Busy, InPass, Works
<1>v4. /\ \A v \in Workers, r \in WaitSteps : Current(v, r)' <=> Current(v, r)
       /\ \A v \in Workers : Stopped(v)' <=> Stopped(v)
  BY TypeKnown, RunEndEffect, <1>a DEF Moves, Marks, Owners, Current, Stopped
<1>v5. \A v \in Workers : ~Works(v)'
  BY TypeKnown, RunEndEffect, <1>a, <1>c DEF Moves, Marks, Owners, Works
<1>1. OneWorker' /\ Running' /\ WorkStatus' /\ Fresher'
  BY TypeKnown, RunEndEffect, <1>a, <1>c, <1>d, <1>e, <1>f, <1>g, <1>v0, <1>v1, <1>v2, <1>v3, <1>v4, <1>v5
  DEF Known, Settled, CalmInv, OneWorker, Works, Running, WorkStatus, Passing, Stopped, Fresher,
      Moves, Marks, Owners
<1>2. Sent' /\ JobSent' /\ Resolved'
  BY TypeKnown, RunEndEffect, <1>a, <1>c, <1>d, <1>e, <1>f, <1>g, <1>v0, <1>v1, <1>v2, <1>v3, <1>v4, <1>v5
  DEF Known, Settled, CalmInv, Sent, JobSent, Resolved, Coming, Moves, Marks, Owners
<1>3. Mailed' /\ OneAsks' /\ Overdue' /\ Pending' /\ Waiting'
  BY TypeKnown, RunEndEffect, <1>a, <1>c, <1>d, <1>e, <1>f, <1>g, <1>v0, <1>v1, <1>v2, <1>v3, <1>v4, <1>v5
  DEF Known, Settled, CalmInv, Mailed, OneAsks, Overdue, Pending, Waiting, Moves, Marks, Owners
<1>4. OneCurrent' /\ PassToken' /\ TokenPlaces'
  BY TypeKnown, RunEndEffect, <1>a, <1>c, <1>d, <1>e, <1>f, <1>g, <1>v0, <1>v1, <1>v2, <1>v3, <1>v4, <1>v5
  DEF Known, Settled, CalmInv, OneCurrent, PassToken, Passing, TokenPlaces, Moves, Marks, Owners
<1>5. WaitRow' /\ RowAsked'
  BY TypeKnown, RunEndEffect, <1>a, <1>c, <1>d, <1>e, <1>f, <1>g, <1>v0, <1>v1, <1>v2, <1>v3, <1>v4, <1>v5
  DEF Known, Settled, CalmInv, WaitRow, Terminal, RowAsked, Moves, Marks, Owners
<1>r. OneRow' /\ RowTry'
  BY TypeKnown, RunEndEffect, <1>a, <1>c, <1>d, <1>e, <1>f, <1>g, <1>v0, <1>v1, <1>v2, <1>v3, <1>v4, <1>v5
  DEF Known, Settled, CalmInv, OneRow, RowTry, Passing, Terminal, RowAsked, Moves, Marks, Owners
<1>6. AnsweredRow' /\ SkipRow' /\ RunRow' /\ FinalRow'
  BY TypeKnown, RunEndEffect, <1>a, <1>c, <1>d, <1>e, <1>f, <1>g, <1>v0, <1>v1, <1>v2, <1>v3, <1>v4, <1>v5
  DEF Known, Settled, CalmInv, AnsweredRow, Terminal, SkipRow, Sent, RunRow, Stopped, FinalRow, Moves,
      Marks, Owners
<1>7. NoOrphan' /\ SweepSees' /\ AnsweredNotAskedAgain'
  BY TypeKnown, RunEndEffect, <1>a, <1>c, <1>d, <1>e, <1>f, <1>g, <1>v0, <1>v1, <1>v2, <1>v3, <1>v4, <1>v5
  DEF Known, Settled, CalmInv, NoOrphan, SweepSees, AnsweredNotAskedAgain, Moves, Marks, Owners
<1>p. Promised
  <2>1. CASE Stopped(e)
    BY <1>e, <1>f, <2>1, TypeKnown, RunEndEffect, <1>v0, Stutters DEF SameStale, SameStatus, SameQuestions
  <2>2. CASE ~Stopped(e)
    <3>1. x \in {"done", "failed"} /\ Marks(e, x)
      BY <1>f, <2>2 DEF Marks
    <3> QED
      BY <1>a, <1>e, <1>g, <2>2, <3>1, TypeKnown, RunEndEffect, <1>v0, Finishes DEF SameStale, SameQuestions
  <2> QED
    BY <2>1, <2>2
<1> QED
  BY <1>1, <1>2, <1>3, <1>4, <1>5, <1>6, <1>7, <1>r, <1>p DEF CalmInv

LEMMA AnswerCalm ==
    ASSUME Known, Settled, NEW t \in Tokens, Answer(t)
    PROVE  CalmInv' /\ Promised
<1>a. Asks(t) /\ token[t].st = "pending" /\ token[t].mailed /\ token[t].ex \in Execs /\ token[t].step \in WaitSteps
  BY TypeKnown, AnswerEffect DEF Asks, Known, OrderInv, Owned
<1>b. ~InPass(token[t].ex)
  BY TypeKnown, EnvKnown, AnswerEffect DEF Outside
<1>c. exec[token[t].ex].st = "waiting"
  BY <1>a, <1>b DEF Known, CalmInv, Pending, InPass
<1>d. worker[token[t].ex].pc = "done"
  BY <1>a, <1>b, <1>c
  DEF Known, OrderInv, Created, Begun, RunsGo, CalmInv, WorkStatus, InPass, ExecOf, Workers
<1>e. t \notin unsched /\ worker[t].pc = "idle" /\ \A d \in Execs : job[d] # t
  BY <1>a, NoneAssumption DEF Known, CalmInv, Sent, JobSent
<1>v0. \A d : Stale(d)' = Stale(d)
  BY TypeKnown, AnswerEffect DEF Stale
<1>v1. \A u \in Tokens : Asks(u)' <=> Asks(u)
  BY TypeKnown, AnswerEffect, <1>a DEF Turns, Owners, Asks, Coming, Workers
<1>v2. \A d : InPass(d)' <=> InPass(d)
  BY TypeKnown, AnswerEffect DEF Turns, Owners, InPass
<1>v3. \A u \in Tokens : Busy(u)' <=> Busy(u)
  BY TypeKnown, AnswerEffect DEF Turns, Owners, Busy, InPass
<1>v4. /\ \A v \in Workers, r \in WaitSteps : Current(v, r)' <=> Current(v, r)
       /\ \A v \in Workers : Stopped(v)' <=> Stopped(v)
  BY TypeKnown, AnswerEffect DEF Turns, Owners, Current, Stopped, At
<1>v5. \A v \in Workers : Works(v)' <=> Works(v)
  BY TypeKnown, AnswerEffect DEF Turns, Owners, Works
<1>v6. \A v, r : At(v, r)' = At(v, r) /\ Try(v, r)' = Try(v, r)
  BY TypeKnown, AnswerEffect, <1>a, <1>b, <1>c, <1>d, <1>e, <1>v1, <1>v2, <1>v3, <1>v4, <1>v5
  DEF Turns, Owners, At, Try
<1>1. OneWorker' /\ Running' /\ WorkStatus' /\ Fresher'
  BY TypeKnown, AnswerEffect, <1>a, <1>b, <1>c, <1>d, <1>e, <1>v0, <1>v1, <1>v2, <1>v3, <1>v4, <1>v5, <1>v6
  DEF Known, Settled, CalmInv, OneWorker, Works, Running, WorkStatus, Passing, Stopped, Fresher,
      Turns, Owners
<1>2. Sent' /\ JobSent' /\ Resolved'
  BY TypeKnown, AnswerEffect, <1>a, <1>b, <1>c, <1>d, <1>e, <1>v0, <1>v1, <1>v2, <1>v3, <1>v4, <1>v5, <1>v6
  DEF Known, Settled, CalmInv, Sent, JobSent, Resolved, Coming, Turns, Owners
<1>3. Mailed' /\ OneAsks' /\ Overdue' /\ Pending' /\ Waiting'
  BY TypeKnown, AnswerEffect, <1>a, <1>b, <1>c, <1>d, <1>e, <1>v0, <1>v1, <1>v2, <1>v3, <1>v4, <1>v5, <1>v6
  DEF Known, Settled, CalmInv, Mailed, OneAsks, Overdue, Pending, Waiting, Turns, Owners
<1>4. OneCurrent' /\ PassToken' /\ TokenPlaces'
  BY TypeKnown, AnswerEffect, <1>a, <1>b, <1>c, <1>d, <1>e, <1>v0, <1>v1, <1>v2, <1>v3, <1>v4, <1>v5, <1>v6
  DEF Known, Settled, CalmInv, OneCurrent, PassToken, Passing, InPass, TokenPlaces, Turns, Owners
<1>5. WaitRow' /\ RowAsked'
  BY TypeKnown, AnswerEffect, <1>a, <1>b, <1>c, <1>d, <1>e, <1>v0, <1>v1, <1>v2, <1>v3, <1>v4, <1>v5, <1>v6
  DEF Known, Settled, CalmInv, WaitRow, Terminal, RowAsked, Turns, Owners
<1>r. OneRow' /\ RowTry'
  BY TypeKnown, AnswerEffect, <1>a, <1>b, <1>c, <1>d, <1>e, <1>v0, <1>v1, <1>v2, <1>v3, <1>v4, <1>v5, <1>v6
  DEF Known, Settled, CalmInv, OneRow, RowTry, Passing, Terminal, RowAsked, Turns, Owners
<1>6. AnsweredRow' /\ SkipRow' /\ RunRow' /\ FinalRow'
  BY TypeKnown, AnswerEffect, <1>a, <1>b, <1>c, <1>d, <1>e, <1>v0, <1>v1, <1>v2, <1>v3, <1>v4, <1>v5, <1>v6
  DEF Known, Settled, CalmInv, AnsweredRow, Terminal, SkipRow, Sent, RunRow, Stopped, FinalRow, Turns,
      Owners
<1>7. NoOrphan' /\ SweepSees' /\ AnsweredNotAskedAgain'
  BY TypeKnown, AnswerEffect, <1>a, <1>b, <1>c, <1>d, <1>e, <1>v0, <1>v1, <1>v2, <1>v3, <1>v4, <1>v5, <1>v6
  DEF Known, Settled, CalmInv, NoOrphan, SweepSees, AnsweredNotAskedAgain, OneAsks, Turns, Owners
<1>p. Promised
  BY <1>a, <1>c, TypeKnown, AnswerEffect, <1>v0, Accepts DEF SameStale, SameStatus, Known, CalmInv, OneAsks
<1> QED
  BY <1>1, <1>2, <1>3, <1>4, <1>5, <1>6, <1>7, <1>r, <1>p DEF CalmInv

LEMMA ScheduleCalm ==
    ASSUME Known, Settled, NEW t \in Tokens, Schedule(t)
    PROVE  CalmInv' /\ Promised
<1>a. token[t].st = "resolved" /\ Asks(t) /\ token[t].ex \in Execs /\ worker[t].pc = "idle"
  BY TypeKnown, ScheduleEffect DEF Asks, Coming, Known, CalmInv, Sent, OrderInv, Owned
<1>b. job[token[t].ex] = None
  <2> SUFFICES ASSUME job[token[t].ex] # None PROVE FALSE
    OBVIOUS
  <2> DEFINE u == job[token[t].ex]
  <2>1. u \in Tokens /\ token[u].st = "resolved" /\ token[u].ex = token[t].ex /\ u \notin unsched
    BY <1>a, TypeKnown DEF Known, CalmInv, JobSent, TypeOK
  <2>2. Asks(u)
    BY <2>1 DEF Asks, Coming
  <2> QED
    BY <1>a, <2>1, <2>2, TypeKnown, ScheduleEffect DEF Known, CalmInv, OneAsks
<1>v0. \A d : Stale(d)' = Stale(d)
  BY TypeKnown, ScheduleEffect DEF Stale
<1>v1. /\ \A u \in Tokens : Asks(u)' <=> Asks(u)
       /\ \A u \in Tokens : token[u].st = "resolved" => (Coming(u)' <=> Coming(u))
  BY TypeKnown, ScheduleEffect, <1>a, <1>b, NoneAssumption
  DEF Owners, Asks, Coming, Known, OrderInv, Owned
<1>v2. \A d : InPass(d)' <=> InPass(d)
  BY TypeKnown, ScheduleEffect DEF Owners, InPass
<1>v3. \A u \in Tokens : Busy(u)' <=> Busy(u)
  BY TypeKnown, ScheduleEffect DEF Owners, Busy, InPass
<1>v4. /\ \A v \in Workers, r \in WaitSteps : Current(v, r)' <=> Current(v, r)
       /\ \A v \in Workers : Stopped(v)' <=> Stopped(v)
  BY TypeKnown, ScheduleEffect DEF Owners, Current, Stopped, At
<1>v5. \A v \in Workers : Works(v)' <=> Works(v)
  BY TypeKnown, ScheduleEffect DEF Owners, Works
<1>v6. \A v, r : At(v, r)' = At(v, r) /\ Try(v, r)' = Try(v, r)
  BY TypeKnown, ScheduleEffect, <1>a, <1>b, <1>v1, <1>v2, <1>v3, <1>v4, <1>v5 DEF Owners, At, Try
<1>1. OneWorker' /\ Running' /\ WorkStatus' /\ Fresher'
  BY TypeKnown, ScheduleEffect, <1>a, <1>b, <1>v0, <1>v1, <1>v2, <1>v3, <1>v4, <1>v5, <1>v6
  DEF Known, Settled, CalmInv, OneWorker, Works, Running, WorkStatus, Passing, Stopped, Fresher, Owners
<1>2. Sent' /\ JobSent' /\ Resolved'
  BY TypeKnown, ScheduleEffect, <1>a, <1>b, <1>v0, <1>v1, <1>v2, <1>v3, <1>v4, <1>v5, <1>v6
  DEF Known, Settled, CalmInv, Sent, JobSent, Resolved, Coming, Owners
<1>3. Mailed' /\ OneAsks' /\ Overdue' /\ Pending' /\ Waiting'
  BY TypeKnown, ScheduleEffect, <1>a, <1>b, <1>v0, <1>v1, <1>v2, <1>v3, <1>v4, <1>v5, <1>v6
  DEF Known, Settled, CalmInv, Mailed, OneAsks, Overdue, Pending, Waiting, Owners
<1>4. OneCurrent' /\ PassToken' /\ TokenPlaces'
  BY TypeKnown, ScheduleEffect, <1>a, <1>b, <1>v0, <1>v1, <1>v2, <1>v3, <1>v4, <1>v5, <1>v6
  DEF Known, Settled, CalmInv, OneCurrent, PassToken, Passing, TokenPlaces, Owners
<1>5. WaitRow' /\ RowAsked'
  BY TypeKnown, ScheduleEffect, <1>a, <1>b, <1>v0, <1>v1, <1>v2, <1>v3, <1>v4, <1>v5, <1>v6
  DEF Known, Settled, CalmInv, WaitRow, Terminal, RowAsked, Owners
<1>r. OneRow' /\ RowTry'
  BY TypeKnown, ScheduleEffect, <1>a, <1>b, <1>v0, <1>v1, <1>v2, <1>v3, <1>v4, <1>v5, <1>v6
  DEF Known, Settled, CalmInv, OneRow, RowTry, Passing, Terminal, RowAsked, Owners
<1>6. AnsweredRow' /\ SkipRow' /\ RunRow' /\ FinalRow'
  BY TypeKnown, ScheduleEffect, <1>a, <1>b, <1>v0, <1>v1, <1>v2, <1>v3, <1>v4, <1>v5, <1>v6
  DEF Known, Settled, CalmInv, AnsweredRow, Terminal, SkipRow, Sent, RunRow, Stopped, FinalRow, Owners
<1>7. NoOrphan' /\ SweepSees' /\ AnsweredNotAskedAgain'
  BY TypeKnown, ScheduleEffect, <1>a, <1>b, <1>v0, <1>v1, <1>v2, <1>v3, <1>v4, <1>v5, <1>v6
  DEF Known, Settled, CalmInv, NoOrphan, SweepSees, AnsweredNotAskedAgain, Owners
<1>p. Promised
  BY TypeKnown, ScheduleEffect, <1>a, <1>b, <1>v0, Stutters DEF SameStale, SameStatus, SameQuestions, Owners
<1> QED
  BY <1>1, <1>2, <1>3, <1>4, <1>5, <1>6, <1>7, <1>r, <1>p DEF CalmInv

LEMMA FireCalm ==
    ASSUME Known, Settled, NEW e \in Execs, Fire(e)
    PROVE  CalmInv' /\ Promised
<1>a. PICK t \in Tokens : t = job[e]
  BY TypeKnown, FireEffect
<1>b. /\ token[t].st = "resolved" /\ token[t].ex = e /\ t \notin unsched /\ worker[t].pc = "idle" /\ t \in Workers /\ t \notin Execs
      /\ \A d \in Execs : d # e => job[d] # t
  BY <1>a, NoneAssumption, KindAssumption DEF Known, CalmInv, JobSent, Workers
<1>v0. \A d : Stale(d)' = Stale(d)
  BY TypeKnown, FireEffect DEF Stale
<1>v1. /\ \A u \in Tokens : Asks(u)' <=> Asks(u)
       /\ \A u \in Tokens : token[u].st = "resolved" => (Coming(u)' <=> Coming(u))
  BY TypeKnown, FireEffect, <1>a, <1>b, NoneAssumption
  DEF Moves, Owners, Asks, Coming, Workers, Known, OrderInv, Owned
<1>v2. \A d : InPass(d)' <=> InPass(d)
  BY TypeKnown, FireEffect, <1>a, <1>b DEF Moves, Owners, InPass
<1>v3. \A u \in Tokens : Busy(u)' <=> Busy(u)
  BY TypeKnown, FireEffect, <1>a, <1>b DEF Moves, Owners, Busy, InPass
<1>v4. /\ \A v \in Workers, r \in WaitSteps : Current(v, r)' <=> Current(v, r)
       /\ \A v \in Workers : Stopped(v)' <=> Stopped(v)
  BY TypeKnown, FireEffect DEF Moves, Owners, Current, Stopped
<1>v5. \A v \in Workers : Works(v)' <=> Works(v)
  BY TypeKnown, FireEffect, <1>a, <1>b DEF Moves, Owners, Works
<1>1. OneWorker' /\ Running' /\ WorkStatus' /\ Fresher'
  BY TypeKnown, FireEffect, <1>a, <1>b, <1>v0, <1>v1, <1>v2, <1>v3, <1>v4, <1>v5
  DEF Known, Settled, CalmInv, OneWorker, Works, Running, WorkStatus, Passing, Stopped, Fresher,
      Moves, Owners
<1>2. Sent' /\ JobSent' /\ Resolved'
  BY TypeKnown, FireEffect, <1>a, <1>b, <1>v0, <1>v1, <1>v2, <1>v3, <1>v4, <1>v5
  DEF Known, Settled, CalmInv, Sent, JobSent, Resolved, Coming, Moves, Owners
<1>3. Mailed' /\ OneAsks' /\ Overdue' /\ Pending' /\ Waiting'
  BY TypeKnown, FireEffect, <1>a, <1>b, <1>v0, <1>v1, <1>v2, <1>v3, <1>v4, <1>v5
  DEF Known, Settled, CalmInv, Mailed, OneAsks, Overdue, Pending, Waiting, Moves, Owners
<1>4. OneCurrent' /\ PassToken' /\ TokenPlaces'
  BY TypeKnown, FireEffect, <1>a, <1>b, <1>v0, <1>v1, <1>v2, <1>v3, <1>v4, <1>v5
  DEF Known, Settled, CalmInv, OneCurrent, PassToken, Passing, TokenPlaces, Moves, Owners
<1>5. WaitRow' /\ RowAsked'
  BY TypeKnown, FireEffect, <1>a, <1>b, <1>v0, <1>v1, <1>v2, <1>v3, <1>v4, <1>v5
  DEF Known, Settled, CalmInv, WaitRow, Terminal, RowAsked, Moves, Owners
<1>r. OneRow' /\ RowTry'
  BY TypeKnown, FireEffect, <1>a, <1>b, <1>v0, <1>v1, <1>v2, <1>v3, <1>v4, <1>v5
  DEF Known, Settled, CalmInv, OneRow, RowTry, Passing, Terminal, RowAsked, Moves, Owners
<1>6. AnsweredRow' /\ SkipRow' /\ RunRow' /\ FinalRow'
  BY TypeKnown, FireEffect, <1>a, <1>b, <1>v0, <1>v1, <1>v2, <1>v3, <1>v4, <1>v5
  DEF Known, Settled, CalmInv, AnsweredRow, Terminal, SkipRow, Sent, RunRow, Stopped, FinalRow, Moves,
      Owners
<1>7. NoOrphan' /\ SweepSees' /\ AnsweredNotAskedAgain'
  BY TypeKnown, FireEffect, <1>a, <1>b, <1>v0, <1>v1, <1>v2, <1>v3, <1>v4, <1>v5
  DEF Known, Settled, CalmInv, NoOrphan, SweepSees, AnsweredNotAskedAgain, Moves, Owners
<1>p. Promised
  BY TypeKnown, FireEffect, <1>a, <1>b, <1>v0, Stutters DEF SameStale, SameStatus, SameQuestions, Moves, Owners
<1> QED
  BY <1>1, <1>2, <1>3, <1>4, <1>5, <1>6, <1>7, <1>r, <1>p DEF CalmInv

LEMMA ClaimWonCalm ==
    ASSUME Known, Settled, NEW t \in Tokens, Claim(t), token[t].st = "resolved", exec[token[t].ex].st = "waiting"
    PROVE  CalmInv' /\ Promised
<1>a. /\ t \in Workers /\ t \notin Execs /\ token[t].st = "resolved" /\ token[t].ex \in Execs
      /\ token[t].step \in WaitSteps /\ ExecOf(t) = token[t].ex /\ t \notin unsched
      /\ (\A d \in Execs : job[d] # t) /\ worker[token[t].ex].pc = "done"
  BY TypeKnown, KindAssumption, NoneAssumption, ClaimEffect
  DEF Known, CalmInv, Sent, JobSent, Resolved, OrderInv, Owned, ExecOf, Workers
<1>b. Coming(t) /\ Asks(t) /\ worker[t].pc = "claim"
  BY <1>a, TypeKnown, ClaimEffect DEF Coming, Asks
<1>c. \A v \in Workers : ~Works(v)
  BY <1>a, <1>b, Unattended
<1>d. \A d : ~InPass(d)
  BY <1>c DEF InPass, Works
<1>e. Marks(token[t].ex, "running") /\ Moves(t, "load")
  BY TypeKnown, ClaimEffect
<1>f. \A u \in Tokens : Asks(u) /\ token[u].ex = token[t].ex => u = t
  BY <1>b DEF Known, CalmInv, OneAsks
<1>v0. \A d : Stale(d)' = Stale(d)
  BY TypeKnown, ClaimEffect DEF Stale
<1>v1. \A u \in Tokens : Asks(u)' <=> Asks(u)
  BY TypeKnown, ClaimEffect, <1>a, <1>b, <1>e DEF Moves, Marks, Owners, Asks, Coming, Workers
<1>v2. \A d : InPass(d)' <=> InPass(d)
  BY TypeKnown, ClaimEffect, <1>e, <1>d, <1>b DEF Moves, Marks, Owners, InPass
<1>v3. \A u \in Tokens : Busy(u)' <=> Busy(u)
  BY TypeKnown, ClaimEffect, <1>e, <1>d, <1>b DEF Moves, Marks, Owners, Busy, InPass
<1>v4. /\ \A v \in Workers, r \in WaitSteps : Current(v, r)' <=> Current(v, r)
       /\ \A v \in Workers : Stopped(v)' <=> Stopped(v)
  BY TypeKnown, ClaimEffect, <1>e DEF Moves, Marks, Owners, Current, Stopped
<1>v5. \A v \in Workers : Works(v)' <=> v = t
  BY TypeKnown, ClaimEffect, <1>c, <1>e, <1>a DEF Moves, Marks, Owners, Works
<1>1. OneWorker' /\ Running' /\ WorkStatus' /\ Fresher'
  BY TypeKnown, ClaimEffect, <1>a, <1>b, <1>c, <1>d, <1>e, <1>f, <1>v0, <1>v1, <1>v2, <1>v3, <1>v4, <1>v5
  DEF Known, Settled, CalmInv, OneWorker, Works, Running, WorkStatus, Passing, Stopped, Fresher,
      Moves, Marks, Owners
<1>2. Sent' /\ JobSent' /\ Resolved'
  BY TypeKnown, ClaimEffect, <1>a, <1>b, <1>c, <1>d, <1>e, <1>f, <1>v0, <1>v1, <1>v2, <1>v3, <1>v4, <1>v5
  DEF Known, Settled, CalmInv, Sent, JobSent, Resolved, Coming, Terminal, Moves, Marks, Owners
<1>3. Mailed' /\ OneAsks' /\ Overdue' /\ Pending' /\ Waiting'
  BY TypeKnown, ClaimEffect, <1>a, <1>b, <1>c, <1>d, <1>e, <1>f, <1>v0, <1>v1, <1>v2, <1>v3, <1>v4, <1>v5
  DEF Known, Settled, CalmInv, Mailed, OneAsks, Overdue, Pending, Waiting, Moves, Marks, Owners
<1>4. OneCurrent' /\ PassToken' /\ TokenPlaces'
  BY TypeKnown, ClaimEffect, <1>a, <1>b, <1>c, <1>d, <1>e, <1>f, <1>v0, <1>v1, <1>v2, <1>v3, <1>v4, <1>v5
  DEF Known, Settled, CalmInv, OneCurrent, PassToken, Passing, TokenPlaces, Moves, Marks, Owners
<1>5. WaitRow' /\ RowAsked'
  BY TypeKnown, ClaimEffect, <1>a, <1>b, <1>c, <1>d, <1>e, <1>f, <1>v0, <1>v1, <1>v2, <1>v3, <1>v4, <1>v5
  DEF Known, Settled, CalmInv, WaitRow, Terminal, RowAsked, Moves, Marks, Owners
<1>r. OneRow' /\ RowTry'
  BY TypeKnown, ClaimEffect, <1>a, <1>b, <1>c, <1>d, <1>e, <1>f, <1>v0, <1>v1, <1>v2, <1>v3, <1>v4, <1>v5
  DEF Known, Settled, CalmInv, OneRow, RowTry, Passing, Terminal, RowAsked, Moves, Marks, Owners
<1>6. AnsweredRow' /\ SkipRow' /\ RunRow' /\ FinalRow'
  BY TypeKnown, ClaimEffect, <1>a, <1>b, <1>c, <1>d, <1>e, <1>f, <1>v0, <1>v1, <1>v2, <1>v3, <1>v4, <1>v5
  DEF Known, Settled, CalmInv, AnsweredRow, Terminal, SkipRow, Sent, RunRow, Stopped, FinalRow, Moves,
      Marks, Owners
<1>7. NoOrphan' /\ SweepSees' /\ AnsweredNotAskedAgain'
  BY TypeKnown, ClaimEffect, <1>a, <1>b, <1>c, <1>d, <1>e, <1>f, <1>v0, <1>v1, <1>v2, <1>v3, <1>v4, <1>v5
  DEF Known, Settled, CalmInv, NoOrphan, SweepSees, AnsweredNotAskedAgain, Moves, Marks, Owners
<1>p. Promised
  BY <1>a, <1>e, <1>f, TypeKnown, ClaimEffect, <1>v0, Continues DEF SameStale, SameQuestions
<1> QED
  BY <1>1, <1>2, <1>3, <1>4, <1>5, <1>6, <1>7, <1>r, <1>p DEF CalmInv

LEMMA ClaimLostCalm ==
    ASSUME Known, Settled, NEW t \in Tokens, Claim(t), ~(token[t].st = "resolved" /\ exec[token[t].ex].st = "waiting")
    PROVE  CalmInv' /\ Promised
<1>a. /\ t \in Workers /\ t \notin Execs /\ token[t].st = "resolved" /\ token[t].ex \in Execs
      /\ token[t].step \in WaitSteps /\ ExecOf(t) = token[t].ex /\ t \notin unsched
      /\ (\A d \in Execs : job[d] # t) /\ worker[token[t].ex].pc = "done"
  BY TypeKnown, KindAssumption, NoneAssumption, ClaimEffect
  DEF Known, CalmInv, Sent, JobSent, Resolved, OrderInv, Owned, ExecOf, Workers
<1>b. Coming(t) /\ Asks(t) /\ worker[t].pc = "claim" /\ exec[token[t].ex].st \in Terminal
  BY <1>a, TypeKnown, ClaimEffect DEF Coming, Asks, Known, CalmInv, Resolved
<1>e. UNCHANGED exec /\ Moves(t, "done")
  BY TypeKnown, ClaimEffect
<1>v0. \A d : Stale(d)' = Stale(d)
  BY TypeKnown, ClaimEffect DEF Stale
<1>v1. \A u \in Tokens : Asks(u)' <=> (Asks(u) /\ u # t)
  BY TypeKnown, ClaimEffect, <1>a, <1>b, <1>e DEF Moves, Marks, Owners, Asks, Coming, Workers
<1>v2. \A d : InPass(d)' <=> InPass(d)
  BY TypeKnown, ClaimEffect, <1>e, <1>b, <1>a DEF Moves, Marks, Owners, InPass
<1>v3. \A u \in Tokens : Busy(u)' <=> Busy(u)
  BY TypeKnown, ClaimEffect, <1>e, <1>b, <1>a DEF Moves, Marks, Owners, Busy, InPass
<1>v4. /\ \A v \in Workers, r \in WaitSteps : Current(v, r)' <=> Current(v, r)
       /\ \A v \in Workers : Stopped(v)' <=> Stopped(v)
  BY TypeKnown, ClaimEffect, <1>e DEF Moves, Marks, Owners, Current, Stopped
<1>v5. \A v \in Workers : Works(v)' <=> Works(v)
  BY TypeKnown, ClaimEffect, <1>e, <1>b, <1>a DEF Moves, Marks, Owners, Works
<1>1. OneWorker' /\ Running' /\ WorkStatus' /\ Fresher'
  BY TypeKnown, ClaimEffect, <1>a, <1>b, <1>e, <1>v0, <1>v1, <1>v2, <1>v3, <1>v4, <1>v5
  DEF Known, Settled, CalmInv, OneWorker, Works, Running, WorkStatus, Passing, Stopped, Fresher,
      Moves, Marks, Owners
<1>2. Sent' /\ JobSent' /\ Resolved'
  BY TypeKnown, ClaimEffect, <1>a, <1>b, <1>e, <1>v0, <1>v1, <1>v2, <1>v3, <1>v4, <1>v5
  DEF Known, Settled, CalmInv, Sent, JobSent, Resolved, Coming, Moves, Marks, Owners
<1>3. Mailed' /\ OneAsks' /\ Overdue' /\ Pending' /\ Waiting'
  BY TypeKnown, ClaimEffect, <1>a, <1>b, <1>e, <1>v0, <1>v1, <1>v2, <1>v3, <1>v4, <1>v5
  DEF Known, Settled, CalmInv, Mailed, OneAsks, Overdue, Pending, Waiting, Moves, Marks, Owners
<1>4. OneCurrent' /\ PassToken' /\ TokenPlaces'
  BY TypeKnown, ClaimEffect, <1>a, <1>b, <1>e, <1>v0, <1>v1, <1>v2, <1>v3, <1>v4, <1>v5
  DEF Known, Settled, CalmInv, OneCurrent, PassToken, Passing, TokenPlaces, Moves, Marks, Owners
<1>5. WaitRow' /\ RowAsked'
  BY TypeKnown, ClaimEffect, <1>a, <1>b, <1>e, <1>v0, <1>v1, <1>v2, <1>v3, <1>v4, <1>v5
  DEF Known, Settled, CalmInv, WaitRow, Terminal, RowAsked, Moves, Marks, Owners
<1>r. OneRow' /\ RowTry'
  BY TypeKnown, ClaimEffect, <1>a, <1>b, <1>e, <1>v0, <1>v1, <1>v2, <1>v3, <1>v4, <1>v5
  DEF Known, Settled, CalmInv, OneRow, RowTry, Passing, Terminal, RowAsked, Moves, Marks, Owners
<1>6. AnsweredRow' /\ SkipRow' /\ RunRow' /\ FinalRow'
  BY TypeKnown, ClaimEffect, <1>a, <1>b, <1>e, <1>v0, <1>v1, <1>v2, <1>v3, <1>v4, <1>v5
  DEF Known, Settled, CalmInv, AnsweredRow, Terminal, SkipRow, Sent, RunRow, Stopped, FinalRow, Moves,
      Marks, Owners
<1>7. NoOrphan' /\ SweepSees' /\ AnsweredNotAskedAgain'
  BY TypeKnown, ClaimEffect, <1>a, <1>b, <1>e, <1>v0, <1>v1, <1>v2, <1>v3, <1>v4, <1>v5
  DEF Known, Settled, CalmInv, NoOrphan, SweepSees, AnsweredNotAskedAgain, Moves, Marks, Owners
<1>p. Promised
  BY TypeKnown, ClaimEffect, <1>a, <1>b, <1>e, <1>v0, Stutters
  DEF SameStale, SameStatus, SameQuestions, Moves, Marks, Owners
<1> QED
  BY <1>1, <1>2, <1>3, <1>4, <1>5, <1>6, <1>7, <1>r, <1>p DEF CalmInv

LEMMA LoadRefusedCalm ==
    ASSUME Known, Settled, NEW t \in Tokens, LoadRefused(t)
    PROVE  CalmInv' /\ Promised
<1>a. /\ t \in Workers /\ t \notin Execs /\ token[t].st = "resolved" /\ token[t].ex \in Execs
      /\ token[t].step \in WaitSteps /\ ExecOf(t) = token[t].ex /\ t \notin unsched
      /\ (\A d \in Execs : job[d] # t) /\ worker[token[t].ex].pc = "done"
  BY TypeKnown, KindAssumption, NoneAssumption, LoadRefusedEffect
  DEF Known, CalmInv, Sent, JobSent, Resolved, OrderInv, Owned, ExecOf, Workers
<1>b. worker[t].pc = "load" /\ Works(t)
  BY TypeKnown, LoadRefusedEffect DEF Works
<1>c. \A v \in Workers : Works(v) => v = t
  BY <1>a, <1>b DEF Known, CalmInv, OneWorker
<1>d. exec[token[t].ex].st = "running" /\ ~InPass(token[t].ex)
  BY <1>a, <1>b, <1>c DEF Known, CalmInv, WorkStatus, InPass, Works
<1>q. \A u \in Tokens : token[u].ex = token[t].ex /\ Asks(u) => u = t /\ worker[t].pc = "load"
  BY <1>a, <1>b, <1>d, NoQuestion
<1>e. Marks(token[t].ex, "failed")
  BY <1>a, <1>d, TypeKnown, LoadRefusedEffect
<1>v0. \A d : Stale(d)' = Stale(d)
  BY TypeKnown, LoadRefusedEffect DEF Stale
<1>v1. \A u \in Tokens : Asks(u)' <=> (Asks(u) /\ u # t)
  BY TypeKnown, LoadRefusedEffect, <1>a, <1>b DEF Moves, Marks, Owners, Asks, Coming, Workers
<1>v2. \A d : InPass(d)' <=> InPass(d)
  BY TypeKnown, LoadRefusedEffect, <1>b, <1>a DEF Moves, Marks, Owners, InPass
<1>v3. \A u \in Tokens : Busy(u)' <=> Busy(u)
  BY TypeKnown, LoadRefusedEffect, <1>b, <1>a DEF Moves, Marks, Owners, Busy, InPass
<1>v4. /\ \A v \in Workers, r \in WaitSteps : Current(v, r)' <=> Current(v, r)
       /\ \A v \in Workers : Stopped(v)' <=> Stopped(v)
  BY TypeKnown, LoadRefusedEffect DEF Moves, Marks, Owners, Current, Stopped
<1>v5. \A v \in Workers : ~Works(v)'
  BY TypeKnown, LoadRefusedEffect, <1>c, <1>a DEF Moves, Marks, Owners, Works
<1>1. OneWorker' /\ Running' /\ WorkStatus' /\ Fresher'
  BY TypeKnown, LoadRefusedEffect, <1>a, <1>b, <1>c, <1>d, <1>q, <1>e, <1>v0, <1>v1, <1>v2, <1>v3, <1>v4, <1>v5
  DEF Known, Settled, CalmInv, OneWorker, Works, Running, WorkStatus, Passing, Stopped, Fresher,
      Moves, Marks, Owners
<1>2. Sent' /\ JobSent' /\ Resolved'
  BY TypeKnown, LoadRefusedEffect, <1>a, <1>b, <1>c, <1>d, <1>q, <1>e, <1>v0, <1>v1, <1>v2, <1>v3, <1>v4, <1>v5
  DEF Known, Settled, CalmInv, Sent, JobSent, Resolved, Coming, Terminal, Moves, Marks, Owners
<1>3. Mailed' /\ OneAsks' /\ Overdue' /\ Pending' /\ Waiting'
  BY TypeKnown, LoadRefusedEffect, <1>a, <1>b, <1>c, <1>d, <1>q, <1>e, <1>v0, <1>v1, <1>v2, <1>v3, <1>v4, <1>v5
  DEF Known, Settled, CalmInv, Mailed, OneAsks, Overdue, Pending, Waiting, Moves, Marks, Owners
<1>4. OneCurrent' /\ PassToken' /\ TokenPlaces'
  BY TypeKnown, LoadRefusedEffect, <1>a, <1>b, <1>c, <1>d, <1>q, <1>e, <1>v0, <1>v1, <1>v2, <1>v3, <1>v4, <1>v5
  DEF Known, Settled, CalmInv, OneCurrent, PassToken, Passing, TokenPlaces, Moves, Marks, Owners
<1>5. WaitRow' /\ RowAsked'
  BY TypeKnown, LoadRefusedEffect, <1>a, <1>b, <1>c, <1>d, <1>q, <1>e, <1>v0, <1>v1, <1>v2, <1>v3, <1>v4, <1>v5
  DEF Known, Settled, CalmInv, WaitRow, Terminal, RowAsked, Moves, Marks, Owners
<1>r. OneRow' /\ RowTry'
  BY TypeKnown, LoadRefusedEffect, <1>a, <1>b, <1>c, <1>d, <1>q, <1>e, <1>v0, <1>v1, <1>v2, <1>v3, <1>v4, <1>v5
  DEF Known, Settled, CalmInv, OneRow, RowTry, Passing, Terminal, RowAsked, Moves, Marks, Owners
<1>6. AnsweredRow' /\ SkipRow' /\ RunRow' /\ FinalRow'
  BY TypeKnown, LoadRefusedEffect, <1>a, <1>b, <1>c, <1>d, <1>q, <1>e, <1>v0, <1>v1, <1>v2, <1>v3, <1>v4, <1>v5
  DEF Known, Settled, CalmInv, AnsweredRow, Terminal, SkipRow, Sent, RunRow, Stopped, FinalRow, Moves,
      Marks, Owners
<1>7. NoOrphan' /\ SweepSees' /\ AnsweredNotAskedAgain'
  BY TypeKnown, LoadRefusedEffect, <1>a, <1>b, <1>c, <1>d, <1>q, <1>e, <1>v0, <1>v1, <1>v2, <1>v3, <1>v4, <1>v5
  DEF Known, Settled, CalmInv, NoOrphan, SweepSees, AnsweredNotAskedAgain, Moves, Marks, Owners
<1>p. Promised
  BY <1>a, <1>d, <1>e, <1>q, TypeKnown, LoadRefusedEffect, <1>v0, Finishes DEF SameStale, SameQuestions
<1> QED
  BY <1>1, <1>2, <1>3, <1>4, <1>5, <1>6, <1>7, <1>r, <1>p DEF CalmInv

LEMMA LoadCalm ==
    ASSUME Known, Settled, NEW t \in Tokens, Load(t)
    PROVE  CalmInv' /\ Promised
<1>0. token[t].ex \in Execs /\ token[t].step \in WaitSteps
  BY DEF Load, Known, OrderInv, Owned
<1>a. /\ t \in Workers /\ t \notin Execs /\ token[t].st = "resolved" /\ token[t].ex \in Execs
      /\ token[t].step \in WaitSteps /\ ExecOf(t) = token[t].ex /\ t \notin unsched
      /\ (\A d \in Execs : job[d] # t) /\ worker[token[t].ex].pc = "done"
  BY <1>0, TypeKnown, KindAssumption, NoneAssumption, LoadEffect
  DEF Known, CalmInv, Sent, JobSent, Resolved, OrderInv, Owned, ExecOf, Workers
<1>b. worker[t].pc = "load" /\ Works(t) /\ Asks(t)
  BY <1>0, <1>a, TypeKnown, LoadEffect DEF Works, Asks
<1>c. \A v \in Workers : Works(v) => v = t
  BY <1>a, <1>b DEF Known, CalmInv, OneWorker
<1>d. exec[token[t].ex].st = "running" /\ ~InPass(token[t].ex)
  BY <1>a, <1>b, <1>c DEF Known, CalmInv, WorkStatus, InPass, Works
<1>q. \A u \in Tokens : token[u].ex = token[t].ex /\ Asks(u) => u = t /\ worker[t].pc = "load"
  BY <1>a, <1>b, <1>d, NoQuestion
<1>e. \/ \E a \in Attempts : row[token[t].ex][token[t].step][a] = "waiting"
      \/ token[t].step \in Stale(token[t].ex)
  BY <1>a, <1>b, <1>d DEF Known, CalmInv, WaitRow, Terminal, Busy
<1>f. \A d \in Execs : exec'[d].st = exec[d].st
  BY <1>0, <1>d, TypeKnown, LoadEffect DEF Marks
<1>w. /\ \A v \in Workers : worker'[v].pc = IF v = t THEN "lock" ELSE worker[v].pc
      /\ \A v \in Workers \ {t} : \A r \in WaitSteps : At(v, r)' = At(v, r)
      /\ \A r \in WaitSteps : At(t, r)' \in {"todo", "known"}
      /\ \A v \in Workers : \A r \in WaitSteps : Try(v, r)' = Try(v, r)
      /\ Owners /\ UNCHANGED <<token, overdue, old, unsched, job, lock, sweep>>
  BY <1>0, TypeKnown, LoadEffect
<1>x. \A d \in Execs : \A s \in WaitSteps : \A a \in Attempts :
        row'[d][s][a] = "waiting" => row[d][s][a] = "waiting"
  BY <1>0, TypeKnown, LoadEffect
<1>o. /\ \A d \in Execs \ {token[t].ex} : \A s \in WaitSteps : \A a \in Attempts : row'[d][s][a] = row[d][s][a]
      /\ \A d \in Execs : \A s \in WaitSteps : \A a \in Attempts :
            row[d][s][a] = "success" => row'[d][s][a] = "success"
  BY <1>0, TypeKnown, LoadEffect
<1>k. \A s \in WaitSteps : \A a \in Attempts : row'[token[t].ex][s][a] = "success" => At(t, s)' = "known"
  BY <1>0, TypeKnown, LoadEffect
<1>v0. \A d \in Execs : Stale(d)' = Stale(d)
  BY <1>0, TypeKnown, LoadEffect DEF Stale
<1>s. \A a \in Attempts : row'[token[t].ex][token[t].step][a] # "waiting"
  BY <1>0, <1>d, TypeKnown, LoadEffect DEF Known, CalmInv, OneRow, Terminal
<1>u. \/ \E a \in Attempts : row'[token[t].ex][token[t].step][a] = "success"
      \/ token[t].step \in Stale(token[t].ex)
  BY <1>0, <1>e, TypeKnown, LoadEffect
<1>v1. \A u \in Tokens : Asks(u)' <=> (Asks(u) /\ u # t)
  BY TypeKnown, LoadEffect, <1>0, <1>a, <1>b DEF Marks, Owners, Asks, Coming, Workers
<1>v2. \A d : InPass(d)' <=> InPass(d)
  BY TypeKnown, LoadEffect, <1>0, <1>a, <1>b DEF Marks, Owners, InPass
<1>v3. \A u \in Tokens : Busy(u)' <=> Busy(u)
  BY TypeKnown, LoadEffect, <1>0, <1>a, <1>b DEF Marks, Owners, Busy, InPass
<1>v4. /\ \A v \in Workers \ {t} : /\ Stopped(v)' <=> Stopped(v)
                                /\ \A r \in WaitSteps : Current(v, r)' <=> Current(v, r)
       /\ ~Stopped(t)' /\ \A r \in WaitSteps : ~Current(t, r)'
  BY TypeKnown, LoadEffect, <1>0, <1>a DEF Marks, Owners, Current, Stopped
<1>v5. \A v \in Workers : Works(v)' <=> Works(v)
  BY TypeKnown, LoadEffect, <1>0, <1>a, <1>b DEF Marks, Owners, Works
<1>1. OneWorker' /\ Running' /\ WorkStatus' /\ Fresher'
  BY TypeKnown, <1>w, <1>x, <1>0, <1>a, <1>b, <1>c, <1>d, <1>q, <1>e, <1>f, <1>v0, <1>s, <1>u, <1>v1, <1>v2, <1>v3,
     <1>v4, <1>v5
  DEF Known, Settled, CalmInv, OneWorker, Works, Running, WorkStatus, Passing, Stopped, Fresher,
      Marks, Owners
<1>2. Sent' /\ JobSent' /\ Resolved'
  BY TypeKnown, <1>w, <1>x, <1>0, <1>a, <1>b, <1>c, <1>d, <1>q, <1>e, <1>f, <1>v0, <1>s, <1>u, <1>v1, <1>v2, <1>v3,
     <1>v4, <1>v5
  DEF Known, Settled, CalmInv, Sent, JobSent, Resolved, Coming, Marks, Owners
<1>3. Mailed' /\ OneAsks' /\ Overdue' /\ Pending' /\ Waiting'
  BY TypeKnown, <1>w, <1>x, <1>0, <1>a, <1>b, <1>c, <1>d, <1>q, <1>e, <1>f, <1>v0, <1>s, <1>u, <1>v1, <1>v2, <1>v3,
     <1>v4, <1>v5
  DEF Known, Settled, CalmInv, Mailed, OneAsks, Overdue, Pending, Waiting, Marks, Owners
<1>4. OneCurrent' /\ PassToken' /\ TokenPlaces'
  BY TypeKnown, <1>w, <1>x, <1>0, <1>a, <1>b, <1>c, <1>d, <1>q, <1>e, <1>f, <1>v0, <1>s, <1>u, <1>v1, <1>v2, <1>v3,
     <1>v4, <1>v5
  DEF Known, Settled, CalmInv, OneCurrent, PassToken, Passing, TokenPlaces, Marks, Owners
<1>5. WaitRow'
  <2> SUFFICES ASSUME NEW u \in Tokens, NEW d \in Execs, d = token[u].ex, Asks(u), u # t,
                      exec[d].st \notin Terminal, ~Busy(u)
               PROVE  \/ \E a \in Attempts : row'[d][token[u].step][a] = "waiting"
                      \/ token[u].step \in Stale(d)'
    BY TypeKnown, <1>w, <1>f, <1>v1, <1>v3 DEF WaitRow, Terminal
  <2>1. d # token[t].ex /\ token[u].step \in WaitSteps
    BY TypeKnown, <1>q
  <2>2. \/ \E a \in Attempts : row[token[u].ex][token[u].step][a] = "waiting"
        \/ token[u].step \in Stale(token[u].ex)
    BY DEF Known, CalmInv, WaitRow
  <2> QED
    BY <2>1, <2>2, <1>v0, <1>o
<1>y. RowAsked'
  <2> SUFFICES ASSUME NEW d \in Execs, NEW s \in WaitSteps, NEW a \in Attempts, row'[d][s][a] = "waiting",
                      exec[d].st \notin Terminal
               PROVE  \E u \in Tokens : Asks(u) /\ u # t /\ token[u].ex = d /\ token[u].step = s /\ token[u].mailed
    BY TypeKnown, <1>w, <1>f, <1>v1 DEF RowAsked, Terminal
  <2>1. PICK u \in Tokens : Asks(u) /\ token[u].ex = d /\ token[u].step = s /\ token[u].mailed
    BY <1>x DEF Known, CalmInv, RowAsked
  <2> QED
    BY <2>1, <1>s
<1>r. OneRow' /\ RowTry'
  BY TypeKnown, <1>w, <1>x, <1>0, <1>a, <1>b, <1>c, <1>d, <1>q, <1>e, <1>f, <1>v0, <1>s, <1>u, <1>v1, <1>v2, <1>v3,
     <1>v4, <1>v5
  DEF Known, Settled, CalmInv, OneRow, RowTry, Passing, Works, Terminal, RowAsked, Marks, Owners
<1>6. AnsweredRow'
  <2> SUFFICES ASSUME NEW u \in Tokens, NEW d \in Execs, d = token[u].ex, token[u].st = "resolved",
                      worker'[u].pc \in {"lock", "dag", "persist", "final", "done"}, exec[d].st \notin Terminal
               PROVE  \/ \E a \in Attempts : row'[d][token[u].step][a] = "success"
                      \/ token[u].step \in Stale(d)'
    BY TypeKnown, <1>w, <1>f DEF AnsweredRow, Terminal
  <2>2. token[u].ex \in Execs /\ token[u].step \in WaitSteps
    BY TypeKnown
  <2>3. u # t =>
        \/ \E a \in Attempts : row[token[u].ex][token[u].step][a] = "success"
        \/ token[u].step \in Stale(token[u].ex)
    BY <1>w, TypeKnown DEF Known, CalmInv, AnsweredRow
  <2> QED
    BY <2>2, <2>3, <1>v0, <1>u, <1>o
<1>y2. SkipRow'
  <2> SUFFICES ASSUME NEW u \in Tokens, NEW s \in WaitSteps, NEW a \in Attempts,
                      worker'[u].pc \in {"lock", "dag", "persist", "final"},
                      row'[token[u].ex][s][a] = "success"
               PROVE  At(u, s)' = "known"
    BY TypeKnown, <1>w DEF SkipRow
  <2>1. u = t
    BY TypeKnown, <1>w, <1>c DEF Works
  <2> QED
    BY <2>1, <1>k
<1>z. RunRow' /\ FinalRow'
  <2>1. RunRow'
    BY TypeKnown, <1>w, <1>a, <1>o DEF Known, CalmInv, RunRow
  <2>2. FinalRow'
    BY TypeKnown, <1>w, <1>c DEF FinalRow, Works
  <2> QED
    BY <2>1, <2>2
<1>7. NoOrphan' /\ SweepSees' /\ AnsweredNotAskedAgain'
  BY TypeKnown, <1>w, <1>x, <1>0, <1>a, <1>b, <1>c, <1>d, <1>q, <1>e, <1>f, <1>v0, <1>s, <1>u, <1>v1, <1>v2, <1>v3,
     <1>v4, <1>v5
  DEF Known, Settled, CalmInv, NoOrphan, SweepSees, AnsweredNotAskedAgain, Marks, Owners
<1>p. Promised
  BY TypeKnown, LoadEffect, <1>0, <1>a, <1>b, <1>c, <1>d, <1>q, <1>e, <1>f, <1>v0, Stutters
  DEF SameStale, SameStatus, SameQuestions, Marks, Owners
<1> QED
  BY <1>1, <1>2, <1>3, <1>4, <1>5, <1>6, <1>7, <1>r, <1>y, <1>y2, <1>z, <1>p DEF CalmInv

LEMMA ResumeRefusedCalm ==
    ASSUME Known, Settled, NEW t \in Tokens, ResumeRefused(t)
    PROVE  CalmInv' /\ Promised
<1>a. /\ t \in Workers /\ t \notin Execs /\ token[t].st = "resolved" /\ token[t].ex \in Execs
      /\ token[t].step \in WaitSteps /\ ExecOf(t) = token[t].ex /\ t \notin unsched
      /\ (\A d \in Execs : job[d] # t) /\ worker[token[t].ex].pc = "done"
  BY TypeKnown, KindAssumption, NoneAssumption, ResumeRefusedEffect
  DEF Known, CalmInv, Sent, JobSent, Resolved, OrderInv, Owned, ExecOf, Workers
<1>b. worker[t].pc = "lock" /\ Works(t)
  BY TypeKnown, ResumeRefusedEffect DEF Works
<1>c. \A v \in Workers : Works(v) => v = t
  BY <1>a, <1>b DEF Known, CalmInv, OneWorker
<1>d. exec[token[t].ex].st = "running" /\ ~InPass(token[t].ex)
  BY <1>a, <1>b, <1>c DEF Known, CalmInv, WorkStatus, InPass, Works
<1>q. \A u \in Tokens : token[u].ex = token[t].ex /\ Asks(u) => u = t /\ worker[t].pc = "load"
  BY <1>a, <1>b, <1>d, NoQuestion
<1>v0. \A d : Stale(d)' = Stale(d)
  BY TypeKnown, ResumeRefusedEffect DEF Stale
<1>v1. \A u \in Tokens : Asks(u)' <=> Asks(u)
  BY TypeKnown, ResumeRefusedEffect, <1>a, <1>b DEF Moves, Marks, Owners, Asks, Coming, Workers
<1>v2. \A d : InPass(d)' <=> InPass(d)
  BY TypeKnown, ResumeRefusedEffect, <1>b, <1>a DEF Moves, Marks, Owners, InPass
<1>v3. \A u \in Tokens : Busy(u)' <=> Busy(u)
  BY TypeKnown, ResumeRefusedEffect, <1>b, <1>a DEF Moves, Marks, Owners, Busy, InPass
<1>v4. /\ \A v \in Workers, r \in WaitSteps : Current(v, r)' <=> Current(v, r)
       /\ \A v \in Workers : Stopped(v)' <=> Stopped(v)
  BY TypeKnown, ResumeRefusedEffect DEF Moves, Marks, Owners, Current, Stopped
<1>v5. \A v \in Workers : ~Works(v)'
  BY TypeKnown, ResumeRefusedEffect, <1>c, <1>a DEF Moves, Marks, Owners, Works
<1>1. OneWorker' /\ Running' /\ WorkStatus' /\ Fresher'
  BY TypeKnown, ResumeRefusedEffect, <1>a, <1>b, <1>c, <1>d, <1>q, <1>v0, <1>v1, <1>v2, <1>v3, <1>v4, <1>v5
  DEF Known, Settled, CalmInv, OneWorker, Works, Running, WorkStatus, Passing, Stopped, Fresher,
      Moves, Marks, Owners
<1>2. Sent' /\ JobSent' /\ Resolved'
  BY TypeKnown, ResumeRefusedEffect, <1>a, <1>b, <1>c, <1>d, <1>q, <1>v0, <1>v1, <1>v2, <1>v3, <1>v4, <1>v5
  DEF Known, Settled, CalmInv, Sent, JobSent, Resolved, Coming, Terminal, Moves, Marks, Owners
<1>3. Mailed' /\ OneAsks' /\ Overdue' /\ Pending' /\ Waiting'
  BY TypeKnown, ResumeRefusedEffect, <1>a, <1>b, <1>c, <1>d, <1>q, <1>v0, <1>v1, <1>v2, <1>v3, <1>v4, <1>v5
  DEF Known, Settled, CalmInv, Mailed, OneAsks, Overdue, Pending, Waiting, Moves, Marks, Owners
<1>4. OneCurrent' /\ PassToken' /\ TokenPlaces'
  BY TypeKnown, ResumeRefusedEffect, <1>a, <1>b, <1>c, <1>d, <1>q, <1>v0, <1>v1, <1>v2, <1>v3, <1>v4, <1>v5
  DEF Known, Settled, CalmInv, OneCurrent, PassToken, Passing, TokenPlaces, Moves, Marks, Owners
<1>5. WaitRow' /\ RowAsked'
  BY TypeKnown, ResumeRefusedEffect, <1>a, <1>b, <1>c, <1>d, <1>q, <1>v0, <1>v1, <1>v2, <1>v3, <1>v4, <1>v5
  DEF Known, Settled, CalmInv, WaitRow, Terminal, RowAsked, Moves, Marks, Owners
<1>r. OneRow' /\ RowTry'
  BY TypeKnown, ResumeRefusedEffect, <1>a, <1>b, <1>c, <1>d, <1>q, <1>v0, <1>v1, <1>v2, <1>v3, <1>v4, <1>v5
  DEF Known, Settled, CalmInv, OneRow, RowTry, Passing, Terminal, RowAsked, Moves, Marks, Owners
<1>6. AnsweredRow' /\ SkipRow' /\ RunRow' /\ FinalRow'
  BY TypeKnown, ResumeRefusedEffect, <1>a, <1>b, <1>c, <1>d, <1>q, <1>v0, <1>v1, <1>v2, <1>v3, <1>v4, <1>v5
  DEF Known, Settled, CalmInv, AnsweredRow, Terminal, SkipRow, Sent, RunRow, Stopped, FinalRow, Moves,
      Marks, Owners
<1>7. NoOrphan' /\ SweepSees' /\ AnsweredNotAskedAgain'
  BY TypeKnown, ResumeRefusedEffect, <1>a, <1>b, <1>c, <1>d, <1>q, <1>v0, <1>v1, <1>v2, <1>v3, <1>v4, <1>v5
  DEF Known, Settled, CalmInv, NoOrphan, SweepSees, AnsweredNotAskedAgain, Moves, Marks, Owners
<1>p. Promised
  BY <1>a, <1>d, <1>q, TypeKnown, ResumeRefusedEffect, <1>v0, Finishes DEF SameStale, SameQuestions
<1> QED
  BY <1>1, <1>2, <1>3, <1>4, <1>5, <1>6, <1>7, <1>r, <1>p DEF CalmInv

LEMMA AcquireLockCalm ==
    ASSUME Known, Settled, NEW t \in Tokens, AcquireLock(t)
    PROVE  CalmInv' /\ Promised
<1>a. /\ t \in Workers /\ t \notin Execs /\ token[t].st = "resolved" /\ token[t].ex \in Execs
      /\ token[t].step \in WaitSteps /\ ExecOf(t) = token[t].ex /\ t \notin unsched
      /\ (\A d \in Execs : job[d] # t) /\ worker[token[t].ex].pc = "done"
  BY TypeKnown, KindAssumption, NoneAssumption, AcquireLockEffect
  DEF Known, CalmInv, Sent, JobSent, Resolved, OrderInv, Owned, ExecOf, Workers
<1>b. worker[t].pc = "lock" /\ Works(t)
  BY TypeKnown, AcquireLockEffect DEF Works
<1>c. \A v \in Workers : Works(v) => v = t
  BY <1>a, <1>b DEF Known, CalmInv, OneWorker
<1>d. exec[token[t].ex].st = "running" /\ ~InPass(token[t].ex)
  BY <1>a, <1>b, <1>c DEF Known, CalmInv, WorkStatus, InPass, Works
<1>q. \A u \in Tokens : token[u].ex = token[t].ex /\ Asks(u) => u = t /\ worker[t].pc = "load"
  BY <1>a, <1>b, <1>d, NoQuestion
<1>v0. \A d : Stale(d)' = Stale(d)
  BY TypeKnown, AcquireLockEffect DEF Stale
<1>v1. \A u \in Tokens : Asks(u)' <=> Asks(u)
  BY TypeKnown, AcquireLockEffect, <1>a, <1>b DEF Moves, Owners, Asks, Coming, Workers
<1>v2. \A d : InPass(d)' <=> (InPass(d) \/ d = token[t].ex)
  BY TypeKnown, AcquireLockEffect, <1>b, <1>a DEF Moves, Owners, InPass
<1>v3. \A u \in Tokens : token[u].st # "free" => (Busy(u)' <=> (Busy(u) \/ token[u].ex = token[t].ex))
  BY TypeKnown, AcquireLockEffect, <1>b, <1>a DEF Moves, Owners, Busy, InPass
<1>v4. /\ \A v \in Workers, r \in WaitSteps : Current(v, r)' <=> Current(v, r)
       /\ \A v \in Workers : Stopped(v)' <=> Stopped(v)
  BY TypeKnown, AcquireLockEffect DEF Moves, Owners, Current, Stopped
<1>v5. \A v \in Workers : Works(v)' <=> Works(v)
  BY TypeKnown, AcquireLockEffect, <1>b, <1>a DEF Moves, Owners, Works
<1>1. OneWorker' /\ Running' /\ WorkStatus' /\ Fresher'
  BY TypeKnown, AcquireLockEffect, <1>a, <1>b, <1>c, <1>d, <1>q, <1>v0, <1>v1, <1>v2, <1>v3, <1>v4, <1>v5
  DEF Known, Settled, CalmInv, OneWorker, Works, Running, WorkStatus, Passing, Stopped, TokenPlaces,
      Fresher, Moves, Owners
<1>2. Sent' /\ JobSent' /\ Resolved'
  BY TypeKnown, AcquireLockEffect, <1>a, <1>b, <1>c, <1>d, <1>q, <1>v0, <1>v1, <1>v2, <1>v3, <1>v4, <1>v5
  DEF Known, Settled, CalmInv, Sent, JobSent, Resolved, Coming, Moves, Owners
<1>3. Mailed' /\ OneAsks' /\ Overdue' /\ Pending' /\ Waiting'
  BY TypeKnown, AcquireLockEffect, <1>a, <1>b, <1>c, <1>d, <1>q, <1>v0, <1>v1, <1>v2, <1>v3, <1>v4, <1>v5
  DEF Known, Settled, CalmInv, Mailed, OneAsks, Overdue, Pending, Waiting, Moves, Owners
<1>4. OneCurrent' /\ PassToken' /\ TokenPlaces'
  BY TypeKnown, AcquireLockEffect, <1>a, <1>b, <1>c, <1>d, <1>q, <1>v0, <1>v1, <1>v2, <1>v3, <1>v4, <1>v5
  DEF Known, Settled, CalmInv, OneCurrent, PassToken, Passing, TokenPlaces, Current, OneWorker, Works,
      Moves, Owners
<1>5. WaitRow' /\ RowAsked'
  BY TypeKnown, AcquireLockEffect, <1>a, <1>b, <1>c, <1>d, <1>q, <1>v0, <1>v1, <1>v2, <1>v3, <1>v4, <1>v5
  DEF Known, Settled, CalmInv, WaitRow, Terminal, RowAsked, Moves, Owners
<1>r. OneRow' /\ RowTry'
  BY TypeKnown, AcquireLockEffect, <1>a, <1>b, <1>c, <1>d, <1>q, <1>v0, <1>v1, <1>v2, <1>v3, <1>v4, <1>v5
  DEF Known, Settled, CalmInv, OneRow, RowTry, Passing, Terminal, RowAsked, Moves, Owners
<1>6. AnsweredRow' /\ SkipRow' /\ RunRow' /\ FinalRow'
  BY TypeKnown, AcquireLockEffect, <1>a, <1>b, <1>c, <1>d, <1>q, <1>v0, <1>v1, <1>v2, <1>v3, <1>v4, <1>v5
  DEF Known, Settled, CalmInv, AnsweredRow, Terminal, SkipRow, Sent, RunRow, Stopped, FinalRow, Moves,
      Owners
<1>7. NoOrphan' /\ SweepSees' /\ AnsweredNotAskedAgain'
  BY TypeKnown, AcquireLockEffect, <1>a, <1>b, <1>c, <1>d, <1>q, <1>v0, <1>v1, <1>v2, <1>v3, <1>v4, <1>v5
  DEF Known, Settled, CalmInv, NoOrphan, SweepSees, AnsweredNotAskedAgain, Moves, Owners
<1>p. Promised
  BY TypeKnown, AcquireLockEffect, <1>a, <1>b, <1>c, <1>d, <1>q, <1>v0, Stutters
  DEF SameStale, SameStatus, SameQuestions, Moves, Owners
<1> QED
  BY <1>1, <1>2, <1>3, <1>4, <1>5, <1>6, <1>7, <1>r, <1>p DEF CalmInv

LEMMA ResumeReturnCalm ==
    ASSUME Known, Settled, NEW t \in Tokens, ResumeReturn(t)
    PROVE  CalmInv' /\ Promised
<1>a. /\ t \in Workers /\ t \notin Execs /\ token[t].st = "resolved" /\ token[t].ex \in Execs
      /\ token[t].step \in WaitSteps /\ ExecOf(t) = token[t].ex /\ t \notin unsched
      /\ (\A d \in Execs : job[d] # t) /\ worker[token[t].ex].pc = "done"
  BY TypeKnown, KindAssumption, NoneAssumption, ResumeReturnEffect
  DEF Known, CalmInv, Sent, JobSent, Resolved, OrderInv, Owned, ExecOf, Workers
<1>b. worker[t].pc = "dag" /\ Works(t)
  BY TypeKnown, ResumeReturnEffect DEF Works
<1>c. \A v \in Workers : Works(v) => v = t
  BY <1>a, <1>b DEF Known, CalmInv, OneWorker
<1>d. \A r \in WaitSteps : At(t, r) \notin {"asked", "mailed"}
  BY TypeKnown, ResumeReturnEffect DEF LevelOver, InFlight
<1>e. Passing(t)
  BY <1>b DEF Passing
<1>v0. \A d : Stale(d)' = Stale(d)
  BY TypeKnown, ResumeReturnEffect DEF Stale
<1>v1. \A u \in Tokens : Asks(u)' <=> Asks(u)
  BY TypeKnown, ResumeReturnEffect, <1>a, <1>b DEF Moves, Owners, Asks, Coming, Workers
<1>v2. \A d : InPass(d)' <=> InPass(d)
  BY TypeKnown, ResumeReturnEffect, <1>b, <1>a DEF Moves, Owners, InPass
<1>v3. \A u \in Tokens : Busy(u)' <=> Busy(u)
  BY TypeKnown, ResumeReturnEffect, <1>b, <1>a DEF Moves, Owners, Busy, InPass
<1>v4. /\ \A v \in Workers, r \in WaitSteps : Current(v, r)' <=> Current(v, r)
       /\ \A v \in Workers : Stopped(v)' <=> Stopped(v)
  BY TypeKnown, ResumeReturnEffect DEF Moves, Owners, Current, Stopped
<1>v5. \A v \in Workers : Works(v)' <=> Works(v)
  BY TypeKnown, ResumeReturnEffect, <1>b, <1>a DEF Moves, Owners, Works
<1>1. OneWorker' /\ Running' /\ WorkStatus' /\ Fresher'
  BY TypeKnown, ResumeReturnEffect, <1>a, <1>b, <1>c, <1>d, <1>e, <1>v0, <1>v1, <1>v2, <1>v3, <1>v4, <1>v5
  DEF Known, Settled, CalmInv, OneWorker, Works, Running, WorkStatus, Passing, Stopped, Fresher,
      Moves, Owners
<1>2. Sent' /\ JobSent' /\ Resolved'
  BY TypeKnown, ResumeReturnEffect, <1>a, <1>b, <1>c, <1>d, <1>e, <1>v0, <1>v1, <1>v2, <1>v3, <1>v4, <1>v5
  DEF Known, Settled, CalmInv, Sent, JobSent, Resolved, Coming, Moves, Owners
<1>3. Mailed' /\ OneAsks' /\ Overdue' /\ Pending' /\ Waiting'
  BY TypeKnown, ResumeReturnEffect, <1>a, <1>b, <1>c, <1>d, <1>e, <1>v0, <1>v1, <1>v2, <1>v3, <1>v4, <1>v5
  DEF Known, Settled, CalmInv, Mailed, OneAsks, Overdue, Pending, Waiting, Moves, Owners
<1>4. OneCurrent' /\ PassToken' /\ TokenPlaces'
  BY TypeKnown, ResumeReturnEffect, <1>a, <1>b, <1>c, <1>d, <1>e, <1>v0, <1>v1, <1>v2, <1>v3, <1>v4, <1>v5
  DEF Known, Settled, CalmInv, OneCurrent, PassToken, Passing, TokenPlaces, Moves, Owners
<1>5. WaitRow' /\ RowAsked'
  BY TypeKnown, ResumeReturnEffect, <1>a, <1>b, <1>c, <1>d, <1>e, <1>v0, <1>v1, <1>v2, <1>v3, <1>v4, <1>v5
  DEF Known, Settled, CalmInv, WaitRow, Terminal, RowAsked, Moves, Owners
<1>r. OneRow' /\ RowTry'
  BY TypeKnown, ResumeReturnEffect, <1>a, <1>b, <1>c, <1>d, <1>e, <1>v0, <1>v1, <1>v2, <1>v3, <1>v4, <1>v5
  DEF Known, Settled, CalmInv, OneRow, RowTry, Passing, Terminal, RowAsked, Moves, Owners
<1>6. AnsweredRow' /\ SkipRow' /\ RunRow' /\ FinalRow'
  BY TypeKnown, ResumeReturnEffect, <1>a, <1>b, <1>c, <1>d, <1>e, <1>v0, <1>v1, <1>v2, <1>v3, <1>v4, <1>v5
  DEF Known, Settled, CalmInv, AnsweredRow, Terminal, SkipRow, Sent, RunRow, Stopped, FinalRow, Moves,
      Owners
<1>7. NoOrphan' /\ SweepSees' /\ AnsweredNotAskedAgain'
  BY TypeKnown, ResumeReturnEffect, <1>a, <1>b, <1>c, <1>d, <1>e, <1>v0, <1>v1, <1>v2, <1>v3, <1>v4, <1>v5
  DEF Known, Settled, CalmInv, NoOrphan, SweepSees, AnsweredNotAskedAgain, Moves, Owners
<1>p. Promised
  BY TypeKnown, ResumeReturnEffect, <1>a, <1>b, <1>c, <1>d, <1>e, <1>v0, Stutters
  DEF SameStale, SameStatus, SameQuestions, Moves, Owners
<1> QED
  BY <1>1, <1>2, <1>3, <1>4, <1>5, <1>6, <1>7, <1>r, <1>p DEF CalmInv

LEMMA ResumePersistCalm ==
    ASSUME Known, Settled, NEW t \in Tokens, ResumePersist(t)
    PROVE  CalmInv' /\ Promised
<1>a. /\ t \in Workers /\ t \notin Execs /\ token[t].st = "resolved" /\ token[t].ex \in Execs
      /\ token[t].step \in WaitSteps /\ ExecOf(t) = token[t].ex /\ t \notin unsched
      /\ (\A d \in Execs : job[d] # t) /\ worker[token[t].ex].pc = "done"
  BY TypeKnown, KindAssumption, NoneAssumption, ResumePersistEffect
  DEF Known, CalmInv, Sent, JobSent, Resolved, OrderInv, Owned, ExecOf, Workers
<1>b. worker[t].pc = "persist" /\ Works(t)
  BY TypeKnown, ResumePersistEffect DEF Works
<1>c. \A v \in Workers : Works(v) => v = t
  BY <1>a, <1>b DEF Known, CalmInv, OneWorker
<1>d. Passing(t) /\ InPass(token[t].ex)
  BY <1>a, <1>b DEF Passing, InPass
<1>i. PICK e \in Execs : e = token[t].ex
  BY <1>a
<1>j. /\ \A s \in WaitSteps : At(t, s) \notin {"asked", "mailed"}
      /\ Journals(t) /\ exec[e].st \in {"running", "waiting"} /\ ExecOf(t) = e
  BY <1>a, <1>b, <1>d, <1>i, TypeKnown, EnvKnown, ResumePersistEffect
  DEF Known, CalmInv, WorkStatus, TokenPlaces
<1>k. /\ \A d \in Execs \ {e} : Stale(d)' = Stale(d)
      /\ Stale(e) \subseteq Stale(e)'
      /\ \A u \in Tokens : token[u].st = "resolved" /\ token[u].ex = e
             /\ token[u].step \in Stale(e)' => token[u].step \in Stale(e)
      /\ \A s \in WaitSteps : \A a \in Attempts :
             /\ row'[e][s][a] = "waiting" => At(t, s) = "waiting" /\ a = Try(t, s)
             /\ row'[e][s][a] = "success" <=> row[e][s][a] = "success"
      /\ \A d \in Execs \ {e} : \A s \in WaitSteps : \A a \in Attempts : row'[d][s][a] = row[d][s][a]
  BY <1>a, <1>b, <1>c, <1>d, <1>j, Journalled
<1>v1. \A u \in Tokens : Asks(u)' <=> Asks(u)
  BY TypeKnown, ResumePersistEffect, <1>a, <1>b DEF Moves, Owners, Asks, Coming, Workers
<1>v2. \A d : InPass(d)' <=> InPass(d)
  BY TypeKnown, ResumePersistEffect, <1>b, <1>a DEF Moves, Owners, InPass
<1>v3. \A u \in Tokens : Busy(u)' <=> Busy(u)
  BY TypeKnown, ResumePersistEffect, <1>b, <1>a DEF Moves, Owners, Busy, InPass
<1>v4. /\ \A v \in Workers, r \in WaitSteps : Current(v, r)' <=> Current(v, r)
       /\ \A v \in Workers : Stopped(v)' <=> Stopped(v)
  BY TypeKnown, ResumePersistEffect DEF Moves, Owners, Current, Stopped
<1>v5. \A v \in Workers : Works(v)' <=> Works(v)
  BY TypeKnown, ResumePersistEffect, <1>b, <1>a DEF Moves, Owners, Works
<1>1. OneWorker' /\ Running' /\ WorkStatus' /\ Fresher'
  BY TypeKnown, ResumePersistEffect, <1>a, <1>b, <1>c, <1>d, <1>i, <1>j, <1>k, <1>v1, <1>v2, <1>v3, <1>v4, <1>v5
  DEF Known, Settled, CalmInv, OneWorker, Works, Running, WorkStatus, Passing, Stopped, Fresher,
      Moves, Owners
<1>2. Sent' /\ JobSent' /\ Resolved'
  BY TypeKnown, ResumePersistEffect, <1>a, <1>b, <1>c, <1>d, <1>i, <1>j, <1>k, <1>v1, <1>v2, <1>v3, <1>v4, <1>v5
  DEF Known, Settled, CalmInv, Sent, JobSent, Resolved, Coming, Moves, Owners
<1>3. Mailed' /\ OneAsks' /\ Overdue' /\ Pending' /\ Waiting'
  BY TypeKnown, ResumePersistEffect, <1>a, <1>b, <1>c, <1>d, <1>i, <1>j, <1>k, <1>v1, <1>v2, <1>v3, <1>v4, <1>v5
  DEF Known, Settled, CalmInv, Mailed, OneAsks, Overdue, Pending, Waiting, Moves, Owners
<1>4. OneCurrent' /\ PassToken' /\ TokenPlaces'
  BY TypeKnown, ResumePersistEffect, <1>a, <1>b, <1>c, <1>d, <1>i, <1>j, <1>k, <1>v1, <1>v2, <1>v3, <1>v4, <1>v5
  DEF Known, Settled, CalmInv, OneCurrent, PassToken, Passing, TokenPlaces, Moves, Owners
<1>5. WaitRow'
  <2> SUFFICES ASSUME NEW u \in Tokens, NEW d \in Execs, d = token[u].ex, Asks(u), exec[d].st \notin Terminal,
                      ~Busy(u)
               PROVE  \/ \E a \in Attempts : row'[d][token[u].step][a] = "waiting"
                      \/ token[u].step \in Stale(d)'
    BY TypeKnown, ResumePersistEffect, <1>v1, <1>v3 DEF WaitRow, Terminal, Moves, Owners
  <2>1. d # e /\ token[u].step \in WaitSteps
    BY TypeKnown, <1>d, <1>i DEF Busy
  <2>2. \/ \E a \in Attempts : row[token[u].ex][token[u].step][a] = "waiting"
        \/ token[u].step \in Stale(token[u].ex)
    BY DEF Known, CalmInv, WaitRow
  <2> QED
    BY <2>1, <2>2, <1>k
<1>y. RowAsked'
  <2> SUFFICES ASSUME NEW d \in Execs, NEW s \in WaitSteps, NEW a \in Attempts, row'[d][s][a] = "waiting",
                      exec[d].st \notin Terminal
               PROVE  \E u \in Tokens : Asks(u) /\ token[u].ex = d /\ token[u].step = s /\ token[u].mailed
    BY TypeKnown, ResumePersistEffect, <1>v1 DEF RowAsked, Terminal, Moves, Owners
  <2>1. CASE d = e
    <3>1. At(t, s) = "waiting"
      BY <2>1, <1>k
    <3> QED
      BY <2>1, <3>1, TypeKnown, <1>a, <1>j, <1>d, <1>i DEF Known, CalmInv, PassToken, Current
  <2>2. CASE d # e
    BY <2>2, <1>k DEF Known, CalmInv, RowAsked
  <2> QED
    BY <2>1, <2>2
<1>r. OneRow' /\ RowTry'
  BY TypeKnown, ResumePersistEffect, <1>a, <1>b, <1>c, <1>d, <1>i, <1>j, <1>k, <1>v1, <1>v2, <1>v3, <1>v4, <1>v5
  DEF Known, Settled, CalmInv, OneRow, RowTry, Passing, Works, OneWorker, Terminal, Moves, Owners
<1>6. AnsweredRow'
  <2> SUFFICES ASSUME NEW u \in Tokens, NEW d \in Execs, d = token[u].ex, token[u].st = "resolved",
                      worker'[u].pc \in {"lock", "dag", "persist", "final", "done"}, exec[d].st \notin Terminal
               PROVE  \/ \E a \in Attempts : row'[d][token[u].step][a] = "success"
                      \/ token[u].step \in Stale(d)'
    BY TypeKnown, ResumePersistEffect DEF AnsweredRow, Terminal, Moves, Owners
  <2>1. worker[u].pc \in {"lock", "dag", "persist", "final", "done"}
    BY TypeKnown, ResumePersistEffect, <1>b DEF Moves
  <2>2. token[u].ex \in Execs /\ token[u].step \in WaitSteps
    BY TypeKnown
  <2>3. \/ \E a \in Attempts : row[token[u].ex][token[u].step][a] = "success"
        \/ token[u].step \in Stale(token[u].ex)
    BY <2>1 DEF Known, CalmInv, AnsweredRow
  <2> QED
    BY <2>2, <2>3, <1>k
<1>y2. SkipRow'
  <2> SUFFICES ASSUME NEW u \in Tokens, NEW s \in WaitSteps, NEW a \in Attempts,
                      worker'[u].pc \in {"lock", "dag", "persist", "final"},
                      row'[token[u].ex][s][a] = "success"
               PROVE  At(u, s) = "known"
    BY TypeKnown, ResumePersistEffect DEF SkipRow, Moves, Owners
  <2>1. u = t
    BY TypeKnown, ResumePersistEffect, <1>c DEF Moves, Works
  <2> QED
    BY <2>1, <1>b, <1>i, <1>k DEF Known, CalmInv, SkipRow
<1>z. RunRow'
  BY TypeKnown, ResumePersistEffect, <1>a, <1>i, <1>k DEF Known, CalmInv, RunRow, Moves
<1>7. NoOrphan' /\ SweepSees' /\ AnsweredNotAskedAgain'
  BY TypeKnown, ResumePersistEffect, <1>a, <1>b, <1>c, <1>d, <1>i, <1>j, <1>k, <1>v1, <1>v2, <1>v3, <1>v4, <1>v5
  DEF Known, Settled, CalmInv, NoOrphan, SweepSees, AnsweredNotAskedAgain, Moves, Owners
<1>f. FinalRow'
  <2>1. \A s \in WaitSteps : At(t, s) = "waiting" => row'[e][s][Try(t, s)] # "none"
    <3> SUFFICES ASSUME NEW s \in WaitSteps, At(t, s) = "waiting" PROVE row'[e][s][Try(t, s)] # "none"
      OBVIOUS
    <3>1. Try(t, s) \in Attempts
      BY <1>a, TypeKnown DEF WorkerStates, Try
    <3> QED
      BY <1>j, <3>1 DEF Journals, Missing, Recorded
  <2> QED
    BY <1>a, <1>b, <1>c, <1>i, <2>1, TypeKnown, ResumePersistEffect
    DEF FinalRow, Moves, Owners, Works
<1>p. Promised
  BY <1>a, <1>j, <1>k, TypeKnown, ResumePersistEffect, Misses DEF SameStatus, SameQuestions
<1> QED
  BY <1>1, <1>2, <1>3, <1>4, <1>5, <1>6, <1>7, <1>r, <1>y, <1>y2, <1>z, <1>f, <1>p DEF CalmInv

LEMMA ResumeFinalCalm ==
    ASSUME Known, Settled, NEW t \in Tokens, ResumeFinal(t)
    PROVE  CalmInv' /\ Promised
<1>a. /\ t \in Workers /\ t \notin Execs /\ token[t].st = "resolved" /\ token[t].ex \in Execs
      /\ token[t].step \in WaitSteps /\ ExecOf(t) = token[t].ex /\ t \notin unsched
      /\ (\A d \in Execs : job[d] # t) /\ worker[token[t].ex].pc = "done"
  BY TypeKnown, KindAssumption, NoneAssumption, ResumeFinalEffect
  DEF Known, CalmInv, Sent, JobSent, Resolved, OrderInv, Owned, ExecOf, Workers
<1>b. worker[t].pc = "final" /\ Works(t)
  BY TypeKnown, ResumeFinalEffect DEF Works
<1>c. \A v \in Workers : Works(v) => v = t
  BY <1>a, <1>b DEF Known, CalmInv, OneWorker
<1>d. Passing(t) /\ exec[token[t].ex].st = IF Stopped(t) THEN "waiting" ELSE "running"
  BY <1>a, <1>b DEF Passing, Known, CalmInv, WorkStatus
<1>e. \A u \in Tokens : token[u].ex = token[t].ex /\ Asks(u) =>
         /\ Stopped(t) /\ token[u].st = "pending" /\ token[u].mailed
         /\ \/ \E a \in Attempts : row[token[t].ex][token[u].step][a] = "waiting"
            \/ token[u].step \in Stale(token[t].ex)
  <2> SUFFICES ASSUME NEW u \in Tokens, token[u].ex = token[t].ex, Asks(u)
               PROVE  /\ Stopped(t) /\ token[u].st = "pending" /\ token[u].mailed
                      /\ \/ \E a \in Attempts : row[token[t].ex][token[u].step][a] = "waiting"
                         \/ token[u].step \in Stale(token[t].ex)
    OBVIOUS
  <2>1. Stopped(t)
    BY <1>a, <1>b, <1>d, NoQuestion
  <2>2. PICK r \in WaitSteps : At(t, r) = "waiting"
    BY <2>1 DEF Stopped
  <2>3. token[u].st = "pending" /\ token[u].step = r /\ token[u].mailed
    BY <1>a, <1>d, <2>2, PassAsks DEF Current
  <2>4. PICK a \in Attempts : a = Try(t, r)
    BY <1>a, TypeKnown DEF WorkerStates, Try
  <2>5. row[token[t].ex][r][a] # "none"
    BY <1>b, <2>2, <2>4 DEF Known, CalmInv, FinalRow
  <2>6. row[token[t].ex][r][a] # "success"
    BY <1>b, <2>2, <2>4 DEF Known, CalmInv, SkipRow
  <2>7. row[token[t].ex][r][a] \in {"waiting", "failed", "skipped"}
    BY <1>a, <2>5, <2>6, TypeKnown DEF JournalRows, StepRows, Recorded
  <2> QED
    BY <2>1, <2>3, <2>7 DEF Stale
<1>f. WaitsAgain(t) <=> Stopped(t)
  BY <1>a, <1>d DEF WaitsAgain, Stopped, Known, CalmInv, RowTry
<1>g. PICK x : /\ x \in IF Stopped(t) THEN {"waiting"} ELSE {"done", "failed"}
             /\ \A d \in Execs : exec'[d].st = IF d = token[t].ex THEN x ELSE exec[d].st
  BY <1>f, TypeKnown, ResumeFinalEffect DEF Marks
<1>v0. \A d : Stale(d)' = Stale(d)
  BY TypeKnown, ResumeFinalEffect DEF Stale
<1>v1. \A u \in Tokens : Asks(u)' <=> Asks(u)
  BY TypeKnown, ResumeFinalEffect, <1>a, <1>b DEF Moves, Marks, Owners, Asks, Coming, Workers
<1>v2. \A d : InPass(d)' <=> (InPass(d) /\ d # token[t].ex)
  BY TypeKnown, ResumeFinalEffect, <1>a, <1>b, <1>c DEF Moves, Marks, Owners, InPass, Works
<1>v3. \A u \in Tokens : token[u].st # "free" => (Busy(u)' <=> (Busy(u) /\ token[u].ex # token[t].ex))
  BY TypeKnown, ResumeFinalEffect, <1>a, <1>b, <1>c DEF Moves, Marks, Owners, Busy, InPass, Works
<1>v4. /\ \A v \in Workers, r \in WaitSteps : Current(v, r)' <=> Current(v, r)
       /\ \A v \in Workers : Stopped(v)' <=> Stopped(v)
  BY TypeKnown, ResumeFinalEffect DEF Moves, Marks, Owners, Current, Stopped
<1>v5. \A v \in Workers : ~Works(v)'
  BY TypeKnown, ResumeFinalEffect, <1>c, <1>a DEF Moves, Marks, Owners, Works
<1>1. OneWorker' /\ Running' /\ WorkStatus' /\ Fresher'
  BY TypeKnown, ResumeFinalEffect, <1>a, <1>b, <1>c, <1>d, <1>e, <1>f, <1>g, <1>v0, <1>v1, <1>v2, <1>v3,
     <1>v4, <1>v5
  DEF Known, Settled, CalmInv, OneWorker, Works, Running, WorkStatus, Passing, Stopped, Fresher,
      Moves, Marks, Owners
<1>2. Sent' /\ JobSent' /\ Resolved'
  BY TypeKnown, ResumeFinalEffect, <1>a, <1>b, <1>c, <1>d, <1>e, <1>f, <1>g, <1>v0, <1>v1, <1>v2, <1>v3,
     <1>v4, <1>v5
  DEF Known, Settled, CalmInv, Sent, JobSent, Resolved, Coming, Moves, Marks, Owners
<1>3. Mailed' /\ OneAsks' /\ Overdue' /\ Pending' /\ Waiting'
  BY TypeKnown, ResumeFinalEffect, <1>a, <1>b, <1>c, <1>d, <1>e, <1>f, <1>g, <1>v0, <1>v1, <1>v2, <1>v3,
     <1>v4, <1>v5
  DEF Known, Settled, CalmInv, Mailed, OneAsks, Overdue, Pending, Waiting, Moves, Marks, Owners
<1>4. OneCurrent' /\ PassToken' /\ TokenPlaces'
  BY TypeKnown, ResumeFinalEffect, <1>a, <1>b, <1>c, <1>d, <1>e, <1>f, <1>g, <1>v0, <1>v1, <1>v2, <1>v3,
     <1>v4, <1>v5
  DEF Known, Settled, CalmInv, OneCurrent, PassToken, Passing, TokenPlaces, Moves, Marks, Owners
<1>5. WaitRow' /\ RowAsked'
  BY TypeKnown, ResumeFinalEffect, <1>a, <1>b, <1>c, <1>d, <1>e, <1>f, <1>g, <1>v0, <1>v1, <1>v2, <1>v3,
     <1>v4, <1>v5
  DEF Known, Settled, CalmInv, WaitRow, Terminal, RowAsked, Moves, Marks, Owners
<1>r. OneRow' /\ RowTry'
  BY TypeKnown, ResumeFinalEffect, <1>a, <1>b, <1>c, <1>d, <1>e, <1>f, <1>g, <1>v0, <1>v1, <1>v2, <1>v3,
     <1>v4, <1>v5
  DEF Known, Settled, CalmInv, OneRow, RowTry, Passing, Terminal, RowAsked, Moves, Marks, Owners
<1>6. AnsweredRow' /\ SkipRow' /\ RunRow' /\ FinalRow'
  BY TypeKnown, ResumeFinalEffect, <1>a, <1>b, <1>c, <1>d, <1>e, <1>f, <1>g, <1>v0, <1>v1, <1>v2, <1>v3,
     <1>v4, <1>v5
  DEF Known, Settled, CalmInv, AnsweredRow, Terminal, SkipRow, Sent, RunRow, Stopped, FinalRow, Moves,
      Marks, Owners
<1>7. NoOrphan' /\ SweepSees' /\ AnsweredNotAskedAgain'
  BY TypeKnown, ResumeFinalEffect, <1>a, <1>b, <1>c, <1>d, <1>e, <1>f, <1>g, <1>v0, <1>v1, <1>v2, <1>v3,
     <1>v4, <1>v5
  DEF Known, Settled, CalmInv, NoOrphan, SweepSees, AnsweredNotAskedAgain, Moves, Marks, Owners
<1>p. Promised
  <2>1. CASE Stopped(t)
    BY <1>d, <1>g, <2>1, TypeKnown, ResumeFinalEffect, <1>v0, Stutters DEF SameStale, SameStatus, SameQuestions
  <2>2. CASE ~Stopped(t)
    <3>1. x \in {"done", "failed"} /\ Marks(token[t].ex, x)
      BY <1>g, <2>2 DEF Marks
    <3> QED
      BY <1>a, <1>d, <1>e, <2>2, <3>1, TypeKnown, ResumeFinalEffect, <1>v0, Finishes DEF SameStale, SameQuestions
  <2> QED
    BY <2>1, <2>2
<1> QED
  BY <1>1, <1>2, <1>3, <1>4, <1>5, <1>6, <1>7, <1>r, <1>p DEF CalmInv

LEMMA ToggleCalm ==
    ASSUME Known, Settled, Toggle
    PROVE  CalmInv' /\ Promised
<1>a. /\ UNCHANGED <<exec, token, row, overdue, old, unsched, job, worker, lock>>
      /\ \A k \in Sweepers : sweep'[k].on <=> k = "toggle"
      /\ sweep'["toggle"].ex \subseteq WaitingExecs
  BY TypeKnown DEF Toggle, CancelRead, ToCancel, Settled, TypeOK, SweepStates, Sweepers
<1>b. \A d, f \in WaitingExecs : d = f
  BY LatestUnique, WaitingIsLatest DEF Known, WaitingExecs
<1>c. /\ \A d \in sweep'["toggle"].ex : d \in Execs /\ exec[d].st = "waiting" /\ ~InPass(d)
      /\ \A u \in Tokens : u \in sweep'["toggle"].tk <=> token[u].st = "pending" /\ token[u].ex \in sweep'["toggle"].ex
  BY TypeKnown, EnvKnown
  DEF Toggle, CancelRead, ToCancel, WaitingExecs, PendingOf, Outside, SweepStates, Sweepers
<1>v0. \A d : Stale(d)' = Stale(d)
  BY <1>a DEF Stale
<1>v1. /\ \A u \in Tokens : Asks(u)' <=> Asks(u)
       /\ \A d : InPass(d)' <=> InPass(d)
  BY TypeKnown, <1>a DEF Toggle, Owners, Asks, Coming, InPass, ExecOf
<1>v2. \A u \in Tokens : Busy(u)' <=> Busy(u)
  BY TypeKnown, <1>a DEF Toggle, Owners, Busy, InPass, ExecOf
<1>v3. /\ \A v \in Workers, r \in WaitSteps : Current(v, r)' <=> Current(v, r)
       /\ \A v \in Workers : Stopped(v)' <=> Stopped(v)
  BY TypeKnown, <1>a DEF Toggle, Owners, Current, Stopped, At
<1>v4. \A v \in Workers : Works(v)' <=> Works(v)
  BY TypeKnown, <1>a DEF Toggle, Owners, Works
<1>v5. Owners
  BY TypeKnown, <1>a, OwnersBy DEF Toggle, Owners
<1>v6. \A v, r : At(v, r)' = At(v, r) /\ Try(v, r)' = Try(v, r)
  BY TypeKnown, <1>a, <1>b, <1>c, <1>v1, <1>v2, <1>v3, <1>v4, <1>v5 DEF Toggle, Owners, At, Try
<1>1. OneWorker' /\ Running' /\ WorkStatus' /\ Fresher'
  BY TypeKnown, <1>a, <1>b, <1>c, <1>v0, <1>v1, <1>v2, <1>v3, <1>v4, <1>v5, <1>v6
  DEF Known, Settled, CalmInv, OneWorker, Works, Running, WorkStatus, Passing, Stopped, Fresher,
      Toggle, Owners
<1>2. Sent' /\ JobSent' /\ Resolved'
  BY TypeKnown, <1>a, <1>b, <1>c, <1>v0, <1>v1, <1>v2, <1>v3, <1>v4, <1>v5, <1>v6
  DEF Known, Settled, CalmInv, Sent, JobSent, Resolved, Coming, Toggle, Owners
<1>3. Mailed' /\ OneAsks' /\ Overdue' /\ Pending' /\ Waiting'
  BY TypeKnown, <1>a, <1>b, <1>c, <1>v0, <1>v1, <1>v2, <1>v3, <1>v4, <1>v5, <1>v6
  DEF Known, Settled, CalmInv, Mailed, OneAsks, Overdue, Pending, Waiting, Toggle, Owners
<1>4. OneCurrent' /\ PassToken' /\ TokenPlaces'
  BY TypeKnown, <1>a, <1>b, <1>c, <1>v0, <1>v1, <1>v2, <1>v3, <1>v4, <1>v5, <1>v6
  DEF Known, Settled, CalmInv, OneCurrent, PassToken, Passing, TokenPlaces, Toggle, Owners
<1>5. WaitRow' /\ RowAsked'
  BY TypeKnown, <1>a, <1>b, <1>c, <1>v0, <1>v1, <1>v2, <1>v3, <1>v4, <1>v5, <1>v6
  DEF Known, Settled, CalmInv, WaitRow, Terminal, RowAsked, Toggle, Owners
<1>r. OneRow' /\ RowTry'
  BY TypeKnown, <1>a, <1>b, <1>c, <1>v0, <1>v1, <1>v2, <1>v3, <1>v4, <1>v5, <1>v6
  DEF Known, Settled, CalmInv, OneRow, RowTry, Passing, Terminal, RowAsked, Toggle, Owners
<1>6. AnsweredRow' /\ SkipRow' /\ RunRow' /\ FinalRow'
  BY TypeKnown, <1>a, <1>b, <1>c, <1>v0, <1>v1, <1>v2, <1>v3, <1>v4, <1>v5, <1>v6
  DEF Known, Settled, CalmInv, AnsweredRow, Terminal, SkipRow, Sent, RunRow, Stopped, FinalRow,
      Toggle, Owners
<1>7. NoOrphan' /\ AnsweredNotAskedAgain'
  BY TypeKnown, <1>a, <1>b, <1>c, <1>v0, <1>v1, <1>v2, <1>v3, <1>v4, <1>v5, <1>v6
  DEF Known, Settled, CalmInv, NoOrphan, Sweepers, AnsweredNotAskedAgain, Toggle, Owners
<1>8. SweepSees'
  <2>1. \A k \in Sweepers : sweep'[k].on => k = "toggle"
    BY <1>a
  <2>2. \A d, e \in sweep'["toggle"].ex : d = e
    BY <1>a, <1>b
  <2>3. \A d \in sweep'["toggle"].ex : exec'[d].st = "waiting" /\ ~InPass(d)'
    BY <1>a, <1>c, <1>v1
  <2>4. \A u \in Tokens : u \in sweep'["toggle"].tk <=> token'[u].st = "pending" /\ token'[u].ex \in sweep'["toggle"].ex
    BY <1>a, <1>c
  <2>5. sweep'["toggle"].tk \subseteq Tokens
    BY TypeKnown DEF Toggle, CancelRead, PendingOf, SweepStates, Sweepers
  <2> QED
    BY <2>1, <2>2, <2>3, <2>4, <2>5 DEF SweepSees
<1>p. Promised
  BY TypeKnown, <1>a, <1>b, <1>c, <1>v0, Stutters DEF SameStale, SameStatus, SameQuestions, Toggle, Owners
<1> QED
  BY <1>1, <1>2, <1>3, <1>4, <1>5, <1>6, <1>7, <1>8, <1>r, <1>p DEF CalmInv

LEMMA ExpireReadCalm ==
    ASSUME Known, Settled, ExpireRead
    PROVE  CalmInv' /\ Promised
<1>a. /\ UNCHANGED <<exec, token, row, overdue, old, unsched, job, worker, lock>>
      /\ \A k \in Sweepers : sweep'[k].on <=> k = "expire"
      /\ sweep'["expire"].ex \subseteq WaitingExecs
  BY TypeKnown DEF ExpireRead, AwaitedBy, Settled, TypeOK, SweepStates, Sweepers
<1>b. \A d, f \in WaitingExecs : d = f
  BY LatestUnique, WaitingIsLatest DEF Known, WaitingExecs
<1>c. /\ \A d \in sweep'["expire"].ex : d \in Execs /\ exec[d].st = "waiting" /\ ~InPass(d)
      /\ \A u \in Tokens : u \in sweep'["expire"].tk <=> token[u].st = "pending" /\ token[u].ex \in sweep'["expire"].ex
  <2> DEFINE late == {t \in overdue : token[t].st = "pending"}
  <2>1. sweep'["expire"].tk = late /\ sweep'["expire"].ex = AwaitedBy(late)
    BY TypeKnown DEF ExpireRead, SweepStates, Sweepers
  <2>2. \A u \in late : u \in Tokens /\ token[u].ex \in WaitingExecs /\ ~InPass(token[u].ex)
    BY TypeKnown DEF Known, CalmInv, Overdue, Pending, Busy, InPass, WaitingExecs
  <2>3. \A u \in Tokens : token[u].st = "pending" /\ token[u].ex \in AwaitedBy(late) => u \in late
    BY TypeKnown, <2>2 DEF Known, CalmInv, OneAsks, AwaitedBy
  <2> QED
    BY <2>1, <2>2, <2>3 DEF AwaitedBy, WaitingExecs
<1>v0. \A d : Stale(d)' = Stale(d)
  BY <1>a DEF Stale
<1>v1. /\ \A u \in Tokens : Asks(u)' <=> Asks(u)
       /\ \A d : InPass(d)' <=> InPass(d)
  BY TypeKnown, <1>a DEF ExpireRead, Owners, Asks, Coming, InPass, ExecOf
<1>v2. \A u \in Tokens : Busy(u)' <=> Busy(u)
  BY TypeKnown, <1>a DEF ExpireRead, Owners, Busy, InPass, ExecOf
<1>v3. /\ \A v \in Workers, r \in WaitSteps : Current(v, r)' <=> Current(v, r)
       /\ \A v \in Workers : Stopped(v)' <=> Stopped(v)
  BY TypeKnown, <1>a DEF ExpireRead, Owners, Current, Stopped, At
<1>v4. \A v \in Workers : Works(v)' <=> Works(v)
  BY TypeKnown, <1>a DEF ExpireRead, Owners, Works
<1>v5. Owners
  BY TypeKnown, <1>a, OwnersBy DEF ExpireRead, Owners
<1>v6. \A v, r : At(v, r)' = At(v, r) /\ Try(v, r)' = Try(v, r)
  BY TypeKnown, <1>a, <1>b, <1>c, <1>v1, <1>v2, <1>v3, <1>v4, <1>v5 DEF ExpireRead, Owners, At, Try
<1>1. OneWorker' /\ Running' /\ WorkStatus' /\ Fresher'
  BY TypeKnown, <1>a, <1>b, <1>c, <1>v0, <1>v1, <1>v2, <1>v3, <1>v4, <1>v5, <1>v6
  DEF Known, Settled, CalmInv, OneWorker, Works, Running, WorkStatus, Passing, Stopped, Fresher,
      ExpireRead, Owners
<1>2. Sent' /\ JobSent' /\ Resolved'
  BY TypeKnown, <1>a, <1>b, <1>c, <1>v0, <1>v1, <1>v2, <1>v3, <1>v4, <1>v5, <1>v6
  DEF Known, Settled, CalmInv, Sent, JobSent, Resolved, Coming, ExpireRead, Owners
<1>3. Mailed' /\ OneAsks' /\ Overdue' /\ Pending' /\ Waiting'
  BY TypeKnown, <1>a, <1>b, <1>c, <1>v0, <1>v1, <1>v2, <1>v3, <1>v4, <1>v5, <1>v6
  DEF Known, Settled, CalmInv, Mailed, OneAsks, Overdue, Pending, Waiting, ExpireRead, Owners
<1>4. OneCurrent' /\ PassToken' /\ TokenPlaces'
  BY TypeKnown, <1>a, <1>b, <1>c, <1>v0, <1>v1, <1>v2, <1>v3, <1>v4, <1>v5, <1>v6
  DEF Known, Settled, CalmInv, OneCurrent, PassToken, Passing, TokenPlaces, ExpireRead, Owners
<1>5. WaitRow' /\ RowAsked'
  BY TypeKnown, <1>a, <1>b, <1>c, <1>v0, <1>v1, <1>v2, <1>v3, <1>v4, <1>v5, <1>v6
  DEF Known, Settled, CalmInv, WaitRow, Terminal, RowAsked, ExpireRead, Owners
<1>r. OneRow' /\ RowTry'
  BY TypeKnown, <1>a, <1>b, <1>c, <1>v0, <1>v1, <1>v2, <1>v3, <1>v4, <1>v5, <1>v6
  DEF Known, Settled, CalmInv, OneRow, RowTry, Passing, Terminal, RowAsked, ExpireRead, Owners
<1>6. AnsweredRow' /\ SkipRow' /\ RunRow' /\ FinalRow'
  BY TypeKnown, <1>a, <1>b, <1>c, <1>v0, <1>v1, <1>v2, <1>v3, <1>v4, <1>v5, <1>v6
  DEF Known, Settled, CalmInv, AnsweredRow, Terminal, SkipRow, Sent, RunRow, Stopped, FinalRow,
      ExpireRead, Owners
<1>7. NoOrphan' /\ SweepSees' /\ AnsweredNotAskedAgain'
  BY TypeKnown, <1>a, <1>b, <1>c, <1>v0, <1>v1, <1>v2, <1>v3, <1>v4, <1>v5, <1>v6
  DEF Known, Settled, CalmInv, NoOrphan, Sweepers, SweepSees, WaitingExecs, AnsweredNotAskedAgain,
      ExpireRead, Owners
<1>p. Promised
  BY TypeKnown, <1>a, <1>b, <1>c, <1>v0, Stutters DEF SameStale, SameStatus, SameQuestions, ExpireRead, Owners
<1> QED
  BY <1>1, <1>2, <1>3, <1>4, <1>5, <1>6, <1>7, <1>r, <1>p DEF CalmInv

LEMMA DeadlineCalm ==
    ASSUME Known, Settled, NEW t \in Tokens, Deadline(t)
    PROVE  CalmInv' /\ Promised
<1>a. UNCHANGED <<exec, token, row, old, unsched, job, worker, lock, sweep>> /\ overdue' = overdue \cup {t} /\ token[t].st # "free"
  BY DEF Deadline
<1>b. ~InPass(token[t].ex)
  BY EnvKnown DEF Deadline, Outside
<1>v0. \A d : Stale(d)' = Stale(d)
  BY <1>a DEF Stale
<1>v1. /\ \A u \in Tokens : Asks(u)' <=> Asks(u)
       /\ \A d : InPass(d)' <=> InPass(d)
  BY TypeKnown, <1>a DEF Deadline, Owners, Asks, Coming, InPass, ExecOf
<1>v2. \A u \in Tokens : Busy(u)' <=> Busy(u)
  BY TypeKnown, <1>a DEF Deadline, Owners, Busy, InPass, ExecOf
<1>v3. /\ \A v \in Workers, r \in WaitSteps : Current(v, r)' <=> Current(v, r)
       /\ \A v \in Workers : Stopped(v)' <=> Stopped(v)
  BY TypeKnown, <1>a DEF Deadline, Owners, Current, Stopped, At
<1>v4. \A v \in Workers : Works(v)' <=> Works(v)
  BY TypeKnown, <1>a DEF Deadline, Owners, Works
<1>v5. Owners
  BY TypeKnown, <1>a, OwnersBy DEF Deadline, Owners
<1>v6. \A v, r : At(v, r)' = At(v, r) /\ Try(v, r)' = Try(v, r)
  BY TypeKnown, <1>a, <1>b, <1>v1, <1>v2, <1>v3, <1>v4, <1>v5 DEF Deadline, Owners, At, Try
<1>1. OneWorker' /\ Running' /\ WorkStatus' /\ Fresher'
  BY TypeKnown, <1>a, <1>b, <1>v0, <1>v1, <1>v2, <1>v3, <1>v4, <1>v5, <1>v6
  DEF Known, Settled, CalmInv, OneWorker, Works, Running, WorkStatus, Passing, Stopped, Fresher,
      Deadline, Owners
<1>2. Sent' /\ JobSent' /\ Resolved'
  BY TypeKnown, <1>a, <1>b, <1>v0, <1>v1, <1>v2, <1>v3, <1>v4, <1>v5, <1>v6
  DEF Known, Settled, CalmInv, Sent, JobSent, Resolved, Coming, Deadline, Owners
<1>3. Mailed' /\ OneAsks' /\ Overdue' /\ Pending' /\ Waiting'
  BY TypeKnown, <1>a, <1>b, <1>v0, <1>v1, <1>v2, <1>v3, <1>v4, <1>v5, <1>v6
  DEF Known, Settled, CalmInv, Mailed, OneAsks, Overdue, Busy, Pending, Waiting, Deadline, Owners
<1>4. OneCurrent' /\ PassToken' /\ TokenPlaces'
  BY TypeKnown, <1>a, <1>b, <1>v0, <1>v1, <1>v2, <1>v3, <1>v4, <1>v5, <1>v6
  DEF Known, Settled, CalmInv, OneCurrent, PassToken, Passing, TokenPlaces, Deadline, Owners
<1>5. WaitRow' /\ RowAsked'
  BY TypeKnown, <1>a, <1>b, <1>v0, <1>v1, <1>v2, <1>v3, <1>v4, <1>v5, <1>v6
  DEF Known, Settled, CalmInv, WaitRow, Terminal, RowAsked, Deadline, Owners
<1>r. OneRow' /\ RowTry'
  BY TypeKnown, <1>a, <1>b, <1>v0, <1>v1, <1>v2, <1>v3, <1>v4, <1>v5, <1>v6
  DEF Known, Settled, CalmInv, OneRow, RowTry, Passing, Terminal, RowAsked, Deadline, Owners
<1>6. AnsweredRow' /\ SkipRow' /\ RunRow' /\ FinalRow'
  BY TypeKnown, <1>a, <1>b, <1>v0, <1>v1, <1>v2, <1>v3, <1>v4, <1>v5, <1>v6
  DEF Known, Settled, CalmInv, AnsweredRow, Terminal, SkipRow, Sent, RunRow, Stopped, FinalRow,
      Deadline, Owners
<1>7. NoOrphan' /\ SweepSees' /\ AnsweredNotAskedAgain'
  BY TypeKnown, <1>a, <1>b, <1>v0, <1>v1, <1>v2, <1>v3, <1>v4, <1>v5, <1>v6
  DEF Known, Settled, CalmInv, NoOrphan, SweepSees, AnsweredNotAskedAgain, Deadline, Owners
<1>p. Promised
  BY TypeKnown, <1>a, <1>b, <1>v0, Stutters DEF SameStale, SameStatus, SameQuestions, Deadline, Owners
<1> QED
  BY <1>1, <1>2, <1>3, <1>4, <1>5, <1>6, <1>7, <1>r, <1>p DEF CalmInv

LEMMA ClosesCalm ==
    ASSUME Known, NEW k \in Sweepers, NEW ts \in {"cancelled", "expired"}, NEW es \in {"cancelled", "failed"}, Closes(k, ts, es)
    PROVE  CalmInv' /\ Promised
<1>a. \A d \in sweep[k].ex : exec[d].st = "waiting" /\ ~InPass(d) /\ d \in Execs
  BY TypeKnown DEF Closes, Known, CalmInv, SweepSees, TypeOK, SweepStates
<1>b. \A u \in Tokens : u \in sweep[k].tk <=> token[u].st = "pending" /\ token[u].ex \in sweep[k].ex
  BY DEF Closes, Known, CalmInv, SweepSees
<1>g. Owners /\ UNCHANGED <<row, overdue, old, unsched, job, worker, lock>>
  BY DEF Closes
<1>c. \A u \in Tokens : /\ token'[u].st = IF u \in sweep[k].tk THEN ts ELSE token[u].st
                        /\ token'[u].ex = token[u].ex /\ token'[u].step = token[u].step /\ token'[u].mailed = token[u].mailed
  BY <1>b DEF Closes
<1>d. \A d \in Execs : exec'[d].st = IF d \in sweep[k].ex THEN es ELSE exec[d].st
  BY DEF Closes
<1>e. \A j \in Sweepers : ~sweep'[j].on
  BY TypeKnown DEF Closes, Known, CalmInv, SweepSees, TypeOK, SweepStates, NoSweep
<1>f. es \in Terminal /\ es # "none" /\ ts \notin {"pending", "resolved", "free"}
  BY DEF Terminal
<1>v0. \A d : Stale(d)' = Stale(d)
  BY <1>g DEF Stale
<1>v1. \A u \in Tokens : Asks(u)' <=> (Asks(u) /\ u \notin sweep[k].tk)
  BY TypeKnown, <1>b, <1>c, <1>f, <1>g DEF Closes, Owners, Asks, Coming
<1>v2. \A d : InPass(d)' <=> InPass(d)
  BY TypeKnown, <1>c, <1>g DEF Closes, Owners, InPass
<1>v3. \A u \in Tokens : Busy(u)' <=> Busy(u)
  BY TypeKnown, <1>c, <1>g DEF Closes, Owners, Busy, InPass
<1>v4. /\ \A v \in Workers, r \in WaitSteps : Current(v, r)' <=> Current(v, r)
       /\ \A v \in Workers : Stopped(v)' <=> Stopped(v)
  BY TypeKnown, <1>c, <1>g DEF Closes, Owners, Current, Stopped, At
<1>v5. \A v \in Workers : Works(v)' <=> Works(v)
  BY TypeKnown, <1>c, <1>g DEF Closes, Owners, Works
<1>v6. \A v, r : At(v, r)' = At(v, r) /\ Try(v, r)' = Try(v, r)
  BY TypeKnown, <1>a, <1>b, <1>g, <1>c, <1>d, <1>e, <1>f, <1>v1, <1>v2, <1>v3, <1>v4, <1>v5
  DEF Closes, Owners, At, Try
<1>1. OneWorker' /\ Running' /\ Fresher'
  BY TypeKnown, <1>a, <1>b, <1>g, <1>c, <1>d, <1>e, <1>f, <1>v0, <1>v1, <1>v2, <1>v3, <1>v4, <1>v5, <1>v6
  DEF Known, Settled, CalmInv, OneWorker, Works, Running, Fresher, Closes, Owners
<1>2. WorkStatus'
  <2>1. \A w \in Workers : worker'[w].pc = worker[w].pc /\ ExecOf(w)' = ExecOf(w) /\ (Stopped(w)' <=> Stopped(w))
    BY <1>g, <1>v4 DEF Owners
  <2>2. \A w \in Workers : worker[w].pc = "snap" => exec'[w].st = exec[w].st
    BY <1>a, <1>d, TypeKnown, KindAssumption DEF Known, CalmInv, WorkStatus, OrderInv, RunsGo, Workers
  <2>3. \A w \in Workers : worker[w].pc \in {"load", "lock"} \/ Passing(w) => exec'[ExecOf(w)].st = exec[ExecOf(w)].st
    BY <1>a, <1>d, TypeKnown DEF Known, CalmInv, WorkStatus, Works, Passing, InPass
  <2> QED
    BY <2>1, <2>2, <2>3 DEF Known, CalmInv, WorkStatus, Passing
<1>3. Sent' /\ JobSent' /\ Resolved'
  BY TypeKnown, <1>a, <1>b, <1>g, <1>c, <1>d, <1>e, <1>f, <1>v0, <1>v1, <1>v2, <1>v3, <1>v4, <1>v5, <1>v6
  DEF Known, Settled, CalmInv, Sent, JobSent, Resolved, Coming, Closes, Owners
<1>4. Mailed' /\ OneAsks' /\ Overdue' /\ Pending' /\ Waiting'
  BY TypeKnown, <1>a, <1>b, <1>g, <1>c, <1>d, <1>e, <1>f, <1>v0, <1>v1, <1>v2, <1>v3, <1>v4, <1>v5, <1>v6
  DEF Known, Settled, CalmInv, Mailed, Pending, OneAsks, Overdue, Waiting, Closes, Owners
<1>5. OneCurrent' /\ PassToken' /\ TokenPlaces'
  BY TypeKnown, <1>a, <1>b, <1>g, <1>c, <1>d, <1>e, <1>f, <1>v0, <1>v1, <1>v2, <1>v3, <1>v4, <1>v5, <1>v6
  DEF Known, Settled, CalmInv, OneCurrent, PassToken, Passing, InPass, TokenPlaces, Closes, Owners
<1>6. WaitRow' /\ RowAsked'
  BY TypeKnown, <1>a, <1>b, <1>g, <1>c, <1>d, <1>e, <1>f, <1>v0, <1>v1, <1>v2, <1>v3, <1>v4, <1>v5, <1>v6
  DEF Known, Settled, CalmInv, WaitRow, Terminal, RowAsked, Closes, Owners
<1>r. OneRow' /\ RowTry'
  BY TypeKnown, <1>a, <1>b, <1>g, <1>c, <1>d, <1>e, <1>f, <1>v0, <1>v1, <1>v2, <1>v3, <1>v4, <1>v5, <1>v6
  DEF Known, Settled, CalmInv, OneRow, RowTry, Passing, Terminal, RowAsked, Closes, Owners
<1>7. AnsweredRow' /\ SkipRow' /\ RunRow' /\ FinalRow'
  BY TypeKnown, <1>a, <1>b, <1>g, <1>c, <1>d, <1>e, <1>f, <1>v0, <1>v1, <1>v2, <1>v3, <1>v4, <1>v5, <1>v6
  DEF Known, Settled, CalmInv, AnsweredRow, Terminal, SkipRow, Sent, RunRow, Stopped, FinalRow,
      Closes, Owners
<1>8. NoOrphan' /\ SweepSees' /\ AnsweredNotAskedAgain'
  BY TypeKnown, <1>a, <1>b, <1>g, <1>c, <1>d, <1>e, <1>f, <1>v0, <1>v1, <1>v2, <1>v3, <1>v4, <1>v5, <1>v6
  DEF Known, Settled, CalmInv, NoOrphan, SweepSees, AnsweredNotAskedAgain, Closes, Owners
<1>p. Promised
  <2>1. CASE sweep[k].ex = {}
    BY <1>b, <1>c, <1>d, <2>1, <1>v0, Stutters DEF SameStale, SameStatus, SameQuestions
  <2>2. ASSUME NEW d \in sweep[k].ex PROVE Promised
    <3>1. sweep[k].ex = {d} /\ d \in Execs /\ exec[d].st = "waiting"
      BY <1>a, <2>2 DEF Closes, Known, CalmInv, SweepSees
    <3>2. Marks(d, es)
      BY <1>d, <3>1 DEF Marks
    <3>3. \A t \in Tokens : /\ token'[t].ex = token[t].ex /\ token'[t].step = token[t].step
                            /\ token'[t].st = IF token[t].st = "pending" /\ token[t].ex = d THEN ts ELSE token[t].st
      BY <1>b, <1>c, <3>1
    <3> QED
      BY <1>f, <3>1, <3>2, <3>3, <1>v0, GivesUp DEF SameStale
  <2> QED
    BY <2>1, <2>2
<1> QED
  BY <1>1, <1>2, <1>3, <1>4, <1>5, <1>6, <1>7, <1>8, <1>r, <1>p DEF CalmInv
-------------------------------------------------------------------------------
(* The invariant along every behaviour, and what follows from it.               *)
\* An execution that runs for too long is worked on, so the orphan cleanup finds none.
LEMMA NeverAges ==
    ASSUME Known, NEW e \in Execs, Age(e)
    PROVE  FALSE
<1>1. worker[e].pc = "done" /\ exec[e].st = "running" /\ \A t \in Tokens : token[t].ex = e => ~Resuming(t)
  BY EnvKnown DEF Age
<1>2. PICK w \in Workers : Works(w) /\ ExecOf(w) = e
  BY <1>1 DEF Known, CalmInv, Running
<1>3. w \in Tokens
  BY <1>1, <1>2, TypeKnown DEF Works, Workers
<1> QED
  BY <1>1, <1>2, <1>3, TypeKnown DEF Works, Resuming, Known, OrderInv, RunsGo

LEMMA WriteCalm ==
    ASSUME Known, Write
    PROVE  CalmInv' /\ Promised
<1>1. ~OrphanWrite /\ \A e \in Execs : ~RunCancelFails(e)
  BY TypeKnown, EnvKnown, OrphanWriteEffect, RunCancelFailsEffect DEF Known, CalmInv, NoOrphan
<1> QED
  BY <1>1, TypeKnown, WriteEffect, ClosesCalm DEF Sweepers

LEMMA CalmStep ==
    ASSUME Known, [Next]_vars
    PROVE  CalmInv' /\ Promised
<1>1. CASE Write
  BY <1>1, WriteCalm
<1>2. ASSUME Settled, NEW e \in Execs, RunStep(e) \/ Fire(e) \/ Misfire(e) \/ Age(e)
      PROVE  CalmInv' /\ Promised
  <2>1. ~RunAbort(e) /\ ~Misfire(e) /\ ~Age(e)
    BY TypeKnown, EnvKnown, RunAbortEffect, MisfireEffect, NeverAges
  <2> QED
    BY <1>2, <2>1, RunStartCalm, RunCreateCalm, RunFlushCalm, RunEndCalm, FireCalm DEF RunStep
<1>3. ASSUME Settled, NEW w \in Workers, DagStep(w)
      PROVE  CalmInv' /\ Promised
  <2>1. \A s \in WaitSteps : ~SuspendFails(w, s)
    BY TypeKnown, EnvKnown, SuspendFailsEffect
  <2> QED
    BY <1>3, <2>1, SuspendCalm, StepFailsCalm, SkipStepCalm, AskTokenCalm, MailOutCalm, MailFailsCalm
    DEF DagStep
<1>4. ASSUME Settled, NEW t \in Tokens, HandlerStep(t) \/ Deadline(t)
      PROVE  CalmInv' /\ Promised
  <2>1. ~ScheduleFails(t)
    BY TypeKnown, EnvKnown, ScheduleFailsEffect
  <2> QED
    BY <1>4, <2>1, AnswerCalm, ScheduleCalm, DeadlineCalm DEF HandlerStep
<1>5. ASSUME Settled, NEW t \in Tokens, ResumeStep(t)
      PROVE  CalmInv' /\ Promised
  <2>1. ~ResumeCrash(t)
    BY TypeKnown, EnvKnown, ResumeCrashEffect
  <2>2. Claim(t) => CalmInv' /\ Promised
    BY <1>5, ClaimWonCalm, ClaimLostCalm
  <2> QED
    BY <1>5, <2>1, <2>2, LoadRefusedCalm, LoadCalm, ResumeRefusedCalm, AcquireLockCalm,
       ResumeReturnCalm, ResumePersistCalm, ResumeFinalCalm DEF ResumeStep
<1>6. ASSUME Settled, Toggle \/ ExpireRead \/ OrphanRead \/ Crash
      PROVE  CalmInv' /\ Promised
  <2>1. ~OrphanRead /\ ~Crash
    BY EnvKnown DEF OrphanRead, Orphans, Crash, Known, CalmInv, NoOrphan
  <2> QED
    BY <1>6, <2>1, ToggleCalm, ExpireReadCalm
<1>7. CASE UNCHANGED vars
  <2>0. SameStatus /\ SameQuestions /\ SameStale
    BY <1>7 DEF vars, SameStatus, SameQuestions, SameStale, Stale
  <2>1. Promised
    BY <2>0, Stutters
  <2>2. /\ OneWorker' /\ Sent' /\ JobSent' /\ Resolved' /\ Mailed' /\ OneAsks' /\ Overdue'
        /\ Pending' /\ Waiting' /\ WorkStatus' /\ Running' /\ OneCurrent' /\ Fresher'
        /\ PassToken' /\ TokenPlaces'
    BY <1>7
    DEF vars, Known, CalmInv, OneWorker, Sent, JobSent, Resolved, Mailed, OneAsks, Overdue, Pending,
       Waiting, WorkStatus, Running, OneCurrent, Fresher, PassToken, TokenPlaces,
       Works, Passing, Current, Busy, Coming, Asks, InPass, Stopped, At, ExecOf
  <2>3. WaitRow' /\ RowAsked' /\ OneRow'
    BY <1>7
    DEF vars, Known, CalmInv, WaitRow, RowAsked, OneRow, Stale, Busy, Coming, Asks, InPass, ExecOf
  <2>4. RowTry' /\ AnsweredRow' /\ AnsweredNotAskedAgain'
    BY <1>7
    DEF vars, Known, CalmInv, RowTry, AnsweredRow, AnsweredNotAskedAgain, Stale, Passing, Try, At, ExecOf
  <2>5. SkipRow' /\ RunRow' /\ FinalRow' /\ NoOrphan' /\ SweepSees'
    BY <1>7
    DEF vars, Known, CalmInv, SkipRow, RunRow, FinalRow, NoOrphan, SweepSees, Try, At, InPass, ExecOf
  <2> QED
    BY <2>1, <2>2, <2>3, <2>4, <2>5 DEF CalmInv
<1>8. "gap" \notin Env
  BY DEF Known, Calm
<1> QED
  BY <1>1, <1>2, <1>3, <1>4, <1>5, <1>6, <1>7, <1>8 DEF Next, Settled

LEMMA InitCalm == Init => CalmInv /\ Promise!PromiseInit
<1> SUFFICES ASSUME Init PROVE CalmInv /\ Promise!PromiseInit
  OBVIOUS
<1>1. /\ \A w \in Workers : worker[w].pc = "idle" /\ \A s \in WaitSteps : At(w, s) = "todo"
      /\ \A t \in Tokens : token[t].st = "free" /\ t \in Workers
      /\ \A e \in Execs : exec[e].st = "none" /\ job[e] = None /\ e \in Workers
      /\ \A e \in Execs : \A s \in WaitSteps : \A a \in Attempts : row[e][s][a] = "none"
      /\ overdue = {} /\ old = {} /\ unsched = {}
      /\ \A k \in Sweepers : ~sweep[k].on
  BY DEF Init, Idle, Fresh, NoSweep, Workers, At
<1>2. OneWorker /\ Sent /\ JobSent /\ Resolved /\ Mailed /\ OneAsks /\ Overdue /\ Pending /\ Waiting
  BY <1>1
  DEF OneWorker, Sent, JobSent, Resolved, Mailed, OneAsks, Overdue, Pending, Waiting, Works, Asks
<1>3. WorkStatus /\ Running /\ OneCurrent /\ Fresher /\ PassToken /\ TokenPlaces
  BY <1>1 DEF WorkStatus, Running, OneCurrent, Fresher, PassToken, TokenPlaces, Passing, Current
<1>4. /\ WaitRow /\ RowAsked /\ OneRow /\ RowTry
      /\ AnsweredRow /\ SkipRow /\ RunRow /\ FinalRow
  BY <1>1 DEF WaitRow, RowAsked, OneRow, RowTry, AnsweredRow, SkipRow, RunRow, FinalRow, Asks, Passing
<1>5. NoOrphan /\ SweepSees /\ AnsweredNotAskedAgain
  BY <1>1 DEF NoOrphan, SweepSees, AnsweredNotAskedAgain, Sweepers
<1>6. Promise!PromiseInit
  <2>1. \A e, st : st # "free" => StepsOf(e, st) = {}
    BY <1>1 DEF StepsOf
  <2>2. \A e \in Execs : Stale(e) = {}
    BY <1>1 DEF Stale
  <2> QED
    BY <1>1, <2>1, <2>2 DEF Promise!PromiseInit
<1> QED
  BY <1>2, <1>3, <1>4, <1>5, <1>6 DEF CalmInv

\* With the database there, every run cancels what waits before it creates its execution.
LEMMA BlindStep ==
    ASSUME Known, [Next]_vars
    PROVE  NoBlind'
<1>1. CASE Write
  <2>1. UNCHANGED worker
    BY <1>1, TypeKnown, EnvKnown, WriteEffect, OrphanWriteEffect, RunCancelFailsEffect DEF Closes
  <2> QED
    BY <2>1 DEF Known, NoBlind
<1>2. ASSUME NEW e \in Execs, RunStep(e) \/ Fire(e) \/ Misfire(e) \/ Age(e)
      PROVE  NoBlind'
  BY <1>2, TypeKnown, RunStartEffect, RunCreateEffect, RunFlushEffect, RunEndEffect, RunAbortEffect,
     FireEffect, MisfireEffect DEF RunStep, Age, Moves, Known, NoBlind
<1>3. ASSUME NEW w \in Workers, DagStep(w)
      PROVE  NoBlind'
  BY <1>3, TypeKnown, SuspendEffect, SuspendFailsEffect, StepFailsEffect, SkipStepEffect, AskTokenEffect,
     MailOutEffect, MailFailsEffect DEF DagStep, Puts, Again, Known, NoBlind
<1>4. ASSUME NEW t \in Tokens, HandlerStep(t) \/ Deadline(t)
      PROVE  NoBlind'
  BY <1>4, TypeKnown, AnswerEffect, ScheduleEffect, ScheduleFailsEffect
  DEF HandlerStep, Deadline, Known, NoBlind
<1>5. ASSUME NEW t \in Tokens, ResumeStep(t)
      PROVE  NoBlind'
  <2>1. Load(t) => token[t].ex \in Execs /\ token[t].step \in WaitSteps
    BY DEF Load, Known, OrderInv, Owned
  <2> QED
    BY <1>5, <2>1, TypeKnown, ClaimEffect, LoadRefusedEffect, LoadEffect, ResumeRefusedEffect,
       AcquireLockEffect, ResumeReturnEffect, ResumePersistEffect, ResumeFinalEffect, ResumeCrashEffect
    DEF ResumeStep, Moves, Known, NoBlind
<1>6. ASSUME Toggle \/ ExpireRead \/ OrphanRead \/ Crash
      PROVE  NoBlind'
  BY <1>6, TypeKnown, CrashEffect DEF Toggle, ExpireRead, OrphanRead, Known, NoBlind
<1>7. CASE UNCHANGED vars
  BY <1>7 DEF vars, Known, NoBlind
<1> QED
  BY <1>1, <1>2, <1>3, <1>4, <1>5, <1>6, <1>7 DEF Next

LEMMA CalmAlways == ASSUME Calm PROVE Spec => []Known
<1>1. Calm /\ InTurn
  BY DEF Calm, InTurn
<1>2. Calm /\ TypeOK /\ LockHeld /\ NoBlind /\ OrderInv /\ CalmInv => Known
  BY DEF Known
<1>3. Known /\ [Next]_vars => CalmInv' /\ NoBlind'
  BY CalmStep, BlindStep
<1>4. Init => NoBlind
  BY DEF Init, Idle, NoBlind, Workers
<1> QED
  BY <1>1, <1>2, <1>3, <1>4, InitCalm, OrderAlways, PTL DEF Spec

\* An execution is never stuck in waiting: one of its questions is still open and was sent,
\* or an accepted answer is with the handler or the scheduler.
THEOREM WaitingStaysAnswerable == ASSUME Calm PROVE Spec => []WaitingIsAnswerable
<1>1. Known => WaitingIsAnswerable
  <2> SUFFICES ASSUME Known, NEW e \in Execs, exec[e].st = "waiting", Quiet(e)
               PROVE  \E t \in Tokens : /\ token[t].ex = e
                                        /\ \/ token[t].st = "pending" /\ token[t].mailed
                                           \/ token[t].st = "resolved" /\ (t \in unsched \/ job[e] = t)
    BY DEF WaitingIsAnswerable
  <2>1. PICK t \in Tokens : Asks(t) /\ token[t].ex = e
    BY DEF Known, CalmInv, Waiting
  <2>2. worker[t].pc \in {"idle", "done"}
    BY <2>1, TypeKnown DEF Quiet
  <2> QED
    BY <2>1, <2>2 DEF Asks, Coming, Known, CalmInv, Pending
<1> QED
  BY <1>1, CalmAlways, PTL

\* A link that still accepts an answer belongs to an execution that waits for it.
THEOREM AnswersAreAwaited == ASSUME Calm PROVE Spec => []PendingIsAwaited
<1>1. Known => PendingIsAwaited
  BY DEF PendingIsAwaited, Quiet, Known, CalmInv, Pending
<1> QED
  BY <1>1, CalmAlways, PTL

\* Nobody is asked again what was answered in the same execution, however many questions,
\* answers and resumes it has gone through, but for the steps that failed or were skipped in
\* an earlier pass over it.
THEOREM AnsweredOnce == ASSUME Calm PROVE Spec => []AnsweredNotAskedAgain
<1>1. Known => AnsweredNotAskedAgain
  BY DEF Known, CalmInv
<1> QED
  BY <1>1, CalmAlways, PTL

\* The waits implement WaitPromise, step by step, where a question may be asked again only
\* if a pass missed it before it was answered.
THEOREM PromiseKept == ASSUME Calm PROVE Spec => KeepsPromise
<1>1. Known /\ [Next]_vars => [Promise!PromiseNext]_(Promise!pvars)
  BY CalmStep DEF Promised
<1> QED
  BY <1>1, InitCalm, CalmAlways, PTL DEF Spec, KeepsPromise, Promise!PromiseSpec
===============================================================================
