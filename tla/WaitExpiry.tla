------------------------------ MODULE WaitExpiry ------------------------------
(* Deadlines, reminders, retention and uploaded files of the questions that    *)
(* executions of ONE automation mail to third parties: compute_wait_expires_at *)
(* and the job of wait_resume.py, the wait adapter of executor.py, the upload  *)
(* of wait_response.py.  WaitResume has the passes over the DAG, which are     *)
(* here the two ends of a question: suspended, resumed.                        *)
(*                                                                             *)
(* Time counts quarters of an hour, the period of the job.  A question is a    *)
(* row of the token table with its execution and its upload directory.         *)
EXTENDS Integers, FiniteSets

CONSTANTS
    Questions, Posts,
    MinWait, MaxWait,   \* bounds of the life of a link
    Margin,             \* between the end of a link and the next run of the schedule
    Retention,          \* age from which a row that is done may be deleted
    Requests,           \* what steps ask for: 0, or the life of the link,
    Reminders,          \* and 0, or how long before its end the owner is reminded
    Schedules,          \* sets of dates of the automation's job
    Weathers,           \* the sets of hazards considered, one per behaviour
    Horizon,            \* bound of the clock
    None

Hazards == {"crash", "dberror", "nosmtp",
            "moved",   \* the schedule is edited
            "nojob",   \* the scheduler does not know the next run
            "toggle",  \* the automation is switched off, or run by hand
            "step"}    \* the step that asks is deleted

ASSUME TimesAssumption   == {MinWait, MaxWait, Margin, Retention, Horizon} \subseteq Nat
ASSUME WaitAssumption    == 0 < Margin /\ 0 < MinWait /\ MinWait <= MaxWait
ASSUME QuestionsAssumption == Questions # {}
ASSUME RetentionAssumption == MaxWait <= Retention
ASSUME InputsAssumption  == Requests \cup Reminders \cup UNION Schedules \subseteq Nat
ASSUME WeathersAssumption == Weathers \subseteq SUBSET Hazards
ASSUME NoneAssumption    == None \notin Posts

VARIABLES
    weather,  \* this behaviour's
    now,
    dates,    \* when the automation's job fires
    row,      \* of each question: token, execution, what its step asked for
    post,     \* submissions of the form of a question
    disk,     \* the files, each named by the submission that wrote it
    job,      \* cleanup_wait_tokens_job: program counter, the questions it has in hand
    mailed    \* history: reminders that left

vars == <<weather, now, dates, row, post, disk, job, mailed>>

Done      == {"resolved", "expired", "cancelled"}
Rows      == [st : {"free", "pending", "gone"} \cup Done, ex : {"none", "running", "waiting", "over"},
              born : Nat, until : Nat, asked : Nat, remind : Nat, marked : BOOLEAN, file : Posts \cup {None}]
PostStates == [pc : {"idle", "written", "gone"}, of : Questions]
Counters  == {"idle", "expire", "remind", "mail", "purge", "dirs"}

TypeOK ==
    /\ weather \in Weathers
    /\ now \in Nat
    /\ dates \in Schedules
    /\ row \in [Questions -> Rows]
    /\ post \in [Posts -> PostStates]
    /\ disk \subseteq Posts
    /\ job \in [pc : Counters, of : SUBSET Questions]
    /\ mailed \subseteq Questions

Resting == [pc |-> "idle", of |-> {}]
Init ==
    /\ weather \in Weathers
    /\ now = 0
    /\ dates \in Schedules
    /\ row = [q \in Questions |-> [st |-> "free", ex |-> "none", born |-> 0, until |-> 0,
                                   asked |-> 0, remind |-> 0, marked |-> FALSE, file |-> None]]
    /\ post = [p \in Posts |-> [pc |-> "idle", of |-> CHOOSE q \in Questions : TRUE]]
    /\ disk = {}
    /\ job = Resting
    /\ mailed = {}

-------------------------------------------------------------------------------
May(h)   == h \in weather
Has(q, st) == row[q].st = st
In(q, ex)  == row[q].ex = ex
Left(q)  == row[q].until - now
Lesser(a, b) == IF a <= b THEN a ELSE b
Clamped(n)   == Lesser(MaxWait, IF n < MinWait THEN MinWait ELSE n)

\* compute_wait_expires_at: what the step asks for, or the next run, or the longest life.
NextRuns == IF May("nojob") THEN {} ELSE {d \in dates : d > now}
Ahead(d) == d \in NextRuns /\ \A e \in NextRuns : d <= e
InTime   == \E d \in NextRuns : Ahead(d) /\ d - Margin > now
Unasked  == IF InTime THEN Lesser((CHOOSE d \in NextRuns : Ahead(d)) - Margin, now + MaxWait)
            ELSE now + MaxWait
LongLink(n) == IF n > 0 THEN now + n ELSE Unasked                               \* mutant
PastRuns(n) == now + (IF n > 0 THEN Clamped(n) ELSE MaxWait)                    \* mutant
Deadline(n) == IF n > 0 THEN now + Clamped(n) ELSE Unasked

(* The wait step: row, mail, checkpoint.  It takes less than a quarter of an hour.        *)
Fresh == {q \in Questions : In(q, "none")}
Ask(q, n, r) ==
    /\ Fresh # {} /\ q = CHOOSE x \in Fresh : TRUE
    /\ row' = [row EXCEPT ![q] = [st |-> "pending", ex |-> "running", born |-> now, until |-> Deadline(n),
                                  asked |-> n, remind |-> r, marked |-> FALSE, file |-> None]]
    /\ UNCHANGED <<weather, now, dates, post, disk, job, mailed>>

Suspend(q) ==
    /\ In(q, "running")
    /\ row' = [row EXCEPT ![q].ex = "waiting"]
    /\ UNCHANGED <<weather, now, dates, post, disk, job, mailed>>

MailFails(q) ==
    /\ May("nosmtp")
    /\ In(q, "running")
    /\ row' = [row EXCEPT ![q].st = "gone", ![q].ex = "over"]
    /\ UNCHANGED <<weather, now, dates, post, disk, job, mailed>>

(* The form: the file is written first, the row is then answered if it still may be.      *)
(* Answers that come before the execution waits are WaitResume's.                         *)
Unused == {p \in Posts : post[p].pc = "idle"}
Submit(p, q) ==
    /\ Unused # {} /\ p = CHOOSE x \in Unused : TRUE
    /\ Has(q, "pending") /\ In(q, "waiting") /\ Left(q) >= 0
    /\ post' = [post EXCEPT ![p] = [pc |-> "written", of |-> q]]
    /\ disk' = disk \cup {p}
    /\ UNCHANGED <<weather, now, dates, row, job, mailed>>

Over(p)  == post' = [post EXCEPT ![p].pc = "gone"]
Open(q)  == Has(q, "pending") /\ Left(q) > 0
Answer(p) ==
    /\ post[p].pc = "written" /\ Open(post[p].of)
    /\ row' = [row EXCEPT ![post[p].of].st = "resolved", ![post[p].of].file = p]
    /\ Over(p)
    /\ UNCHANGED <<weather, now, dates, disk, job, mailed>>

KeepsFile(p) == disk                                                            \* mutant
Without(p)   == disk \ {p}
Lose(p) ==
    /\ post[p].pc = "written" /\ ~Open(post[p].of)
    /\ Over(p) /\ disk' = Without(p)
    /\ UNCHANGED <<weather, now, dates, row, job, mailed>>

DbError(p) ==
    /\ May("dberror")
    /\ post[p].pc = "written" /\ Over(p)
    /\ UNCHANGED <<weather, now, dates, row, disk, job, mailed>>

\* A resume that comes after the deadline fails the execution; without its row it does not
\* touch it.
Resume(q) ==
    /\ Has(q, "resolved") /\ In(q, "waiting")
    /\ row' = [row EXCEPT ![q].ex = "over"]
    /\ UNCHANGED <<weather, now, dates, post, disk, job, mailed>>

(* cleanup_wait_tokens_job.                                                               *)
JobAt(l) == job.pc = l
Overdue  == {q \in Questions : Has(q, "pending") /\ Left(q) < 0}
Expire ==
    /\ JobAt("expire")
    /\ row' = [q \in Questions |->
                 IF q \in Overdue
                 THEN [row[q] EXCEPT !.st = "expired", !.ex = IF @ = "waiting" THEN "over" ELSE @]
                 ELSE row[q]]
    /\ job' = [pc |-> "remind", of |-> {}]
    /\ UNCHANGED <<weather, now, dates, post, disk, mailed>>

\* The row is marked before the mail leaves, so that no owner is reminded twice.
Early(q) == Left(q) < row[q].remind                                             \* mutant
Close(q) == Left(q) <= row[q].remind
ToRemind == {q \in Questions :
    Has(q, "pending") /\ ~row[q].marked /\ In(q, "waiting") /\ row[q].remind > 0 /\ Left(q) > 0 /\ Close(q)}
Remind ==
    /\ JobAt("remind")
    /\ row' = [q \in Questions |-> IF q \in ToRemind THEN [row[q] EXCEPT !.marked = TRUE] ELSE row[q]]
    /\ job' = [pc |-> "mail", of |-> ToRemind]
    /\ UNCHANGED <<weather, now, dates, post, disk, mailed>>

Mail ==
    /\ JobAt("mail")
    /\ mailed' \in {mailed \cup job.of} \cup (IF May("nosmtp") THEN {mailed} ELSE {})
    /\ job' = [pc |-> "purge", of |-> {}]
    /\ UNCHANGED <<weather, now, dates, row, post, disk>>

\* Rows go first, their directories once every row is gone.
Answered(S)    == {q \in S : row[q].file # None}                                 \* mutant
Directories(S) == S
Old(q) == row[q].born < now - Retention
Purgeable == {q \in Questions : row[q].st \in Done /\ Old(q)}
Purge ==
    /\ JobAt("purge")
    /\ row' = [q \in Questions |-> IF q \in Purgeable THEN [row[q] EXCEPT !.st = "gone"] ELSE row[q]]
    /\ job' = [pc |-> "dirs", of |-> Directories(Purgeable)]
    /\ UNCHANGED <<weather, now, dates, post, disk, mailed>>

PurgeDirs ==
    /\ JobAt("dirs")
    /\ disk' = {p \in disk : post[p].of \notin job.of}
    /\ job' = Resting
    /\ UNCHANGED <<weather, now, dates, row, post, mailed>>

(* Cancellations, edits of the automation, time.                                          *)
\* cancel_pending_waits_for_automation, by the run of the schedule or by somebody.
Cancel ==
    /\ now \in dates \/ May("toggle")
    /\ \E q \in Questions : In(q, "waiting")
    /\ row' = [q \in Questions |->
                 IF In(q, "waiting")
                 THEN [row[q] EXCEPT !.ex = "over", !.st = IF @ = "pending" THEN "cancelled" ELSE @]
                 ELSE row[q]]
    /\ UNCHANGED <<weather, now, dates, post, disk, job, mailed>>

\* The handler has deleted the step, and with it the rows of its questions, in a transaction
\* that it keeps open while the cancellation waits for the write lock in a session of its
\* own: the cancellation times out, and the handler commits.  Without a question to cancel
\* there is nothing to wait for.
DeleteStep(q) ==
    /\ May("step")
    /\ ~In(q, "none") /\ ~In(q, "running") /\ ~Has(q, "gone")
    /\ row' = [row EXCEPT ![q].st = "gone"]
    /\ UNCHANGED <<weather, now, dates, post, disk, job, mailed>>

EditSchedule ==
    /\ May("moved")
    /\ dates' \in Schedules
    /\ UNCHANGED <<weather, now, row, post, disk, job, mailed>>

\* The job runs at every quarter, unless the process is stopped then.
Tick ==
    /\ now < Horizon
    /\ JobAt("idle") /\ \A q \in Questions : ~In(q, "running")
    /\ now' = now + 1
    /\ job' \in {[pc |-> "expire", of |-> {}]} \cup (IF May("crash") THEN {Resting} ELSE {})
    /\ UNCHANGED <<weather, dates, row, post, disk, mailed>>

\* What is in memory is lost; an execution that was running is failed by a sweep.
Crash ==
    /\ May("crash")
    /\ \/ job # Resting
       \/ \E p \in Posts : post[p].pc = "written"
       \/ \E q \in Questions : In(q, "running")
    /\ job' = Resting
    /\ post' = [p \in Posts |-> IF post[p].pc = "written" THEN [post[p] EXCEPT !.pc = "gone"] ELSE post[p]]
    /\ row' = [q \in Questions |-> IF In(q, "running") THEN [row[q] EXCEPT !.ex = "over"] ELSE row[q]]
    /\ UNCHANGED <<weather, now, dates, disk, mailed>>

Job    == Expire \/ Remind \/ Mail \/ Purge \/ PurgeDirs
Form(p) == Answer(p) \/ Lose(p) \/ DbError(p) \/ \E q \in Questions : Submit(p, q)
Step(q) == Suspend(q) \/ MailFails(q) \/ Resume(q) \/ DeleteStep(q) \/ \E n \in Requests, r \in Reminders : Ask(q, n, r)

Next ==
    \/ Job \/ Cancel \/ EditSchedule \/ Tick \/ Crash
    \/ \E p \in Posts : Form(p)
    \/ \E q \in Questions : Step(q)

Spec == Init /\ [][Next]_vars

-------------------------------------------------------------------------------
\* "expirer AVANT le prochain run scheduled (sinon 2 instances waiting concurrentes)" (the
\* wait adapter): at a date of the schedule no earlier question is open whose step left the
\* deadline to the schedule, unless a run followed the question within the margin.
BeforeNextRun ==
    weather \cap {"moved", "nojob"} = {} /\ now \in dates =>
        \A q \in Questions :
            Has(q, "pending") /\ row[q].asked = 0 /\ row[q].born < now =>
                \/ Left(q) < 0
                \/ \E d \in dates : row[q].born < d /\ d <= row[q].born + Margin

\* A question that expires unanswered was announced to the owner, when its step asked for a
\* reminder and the job ran at least once while it was open.
Reminded ==
    weather \cap {"crash", "nosmtp"} = {} =>
        \A q \in Questions :
            Has(q, "expired") /\ row[q].remind > 0 /\ row[q].until > row[q].born + 1 => q \in mailed

\* The retention takes no answer, nor its file, from an execution that can still resume with
\* it: a row is purged by the age of the question, however recent the answer.
AnswersSurvive ==
    "step" \notin weather =>
        \A q \in Questions :
            row[q].file # None /\ In(q, "waiting") /\ Left(q) >= 0 => Has(q, "resolved") /\ row[q].file \in disk

\* Every file is the one of a submission in progress or of an accepted answer, or is in a
\* directory that the job is about to remove.  An error of the database leaves the file of a
\* submission behind, but in the directory of a row, and it goes away with it; only a crash
\* between the rows and the directories, or the deletion of a step, leaves files for good.
FilesFollowRows ==
    weather \cap {"crash", "step"} = {} =>
        \A p \in disk :
            LET q == post[p].of IN
            \/ post[p].pc = "written" \/ q \in job.of
            \/ ~Has(q, "gone") /\ (row[q].file = p \/ May("dberror"))

\* "Cancel les waits pendants liés à CE step AVANT commit (FK cascade va supprimer les
\* tokens sinon" (delete of AutomationStepDetailAPIHandler): no execution goes on waiting
\* for a question whose link has disappeared before its deadline.
NoWaitWithoutLink == \A q \in Questions : In(q, "waiting") /\ Left(q) >= 0 => ~Has(q, "gone")
===============================================================================
