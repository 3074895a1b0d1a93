--------------------------- MODULE WaitExpiryProofs ---------------------------
(* For every set of questions and submissions, every bound on the life of a     *)
(* link, every schedule and every weather: types, deadlines before the next     *)
(* run, reminders before deadlines, answers and files through the retention.    *)
EXTENDS WaitExpiry, WellFoundedInduction, TLAPS

-------------------------------------------------------------------------------
(* Deadlines.                                                                   *)
\* Every date is a natural number, and so is what a step may ask for.
LEMMA Numbers ==
    /\ MinWait \in Nat /\ MaxWait \in Nat /\ Margin \in Nat /\ Retention \in Nat
    /\ Requests \subseteq Nat /\ Reminders \subseteq Nat
    /\ \A S \in Schedules : S \subseteq Nat
BY TimesAssumption, InputsAssumption

\* Of the runs to come there is a first, and it is the one that is ahead.
LEMMA FirstRun ==
    ASSUME dates \in Schedules, NextRuns # {}
    PROVE  \E d \in NextRuns : Ahead(d)
<1>1. NextRuns \in SUBSET Nat
  BY Numbers DEF NextRuns
<1>2. IsWellFoundedOn(OpToRel(<, Nat), Nat)
  BY NatLessThanWellFounded
<1>3. PICK d \in NextRuns : \A e \in NextRuns : ~(<<e, d>> \in OpToRel(<, Nat))
  BY <1>1, <1>2, WFMin
<1>4. \A e \in NextRuns : ~(e < d)
  BY <1>1, <1>3 DEF OpToRel
<1> QED
  BY <1>1, <1>4 DEF Ahead

LEMMA AheadUnique ==
    ASSUME dates \in Schedules, NEW d, NEW e, Ahead(d), Ahead(e)
    PROVE  d = e /\ d \in Nat /\ d \in dates
<1>1. NextRuns \subseteq Nat /\ NextRuns \subseteq dates
  BY Numbers DEF NextRuns
<1> QED
  BY <1>1 DEF Ahead

\* A deadline is at most the longest life away; left to the schedule, it is before every run
\* to come, unless a run comes within the margin.
LEMMA DeadlineBounds ==
    ASSUME now \in Nat, dates \in Schedules, NEW n \in Nat
    PROVE  /\ Deadline(n) \in Nat /\ Deadline(n) <= now + MaxWait
           /\ n = 0 /\ ~May("nojob") => \/ \A d \in dates : d > now => Deadline(n) < d
                                        \/ \E d \in dates : now < d /\ d <= now + Margin
<1>1. Clamped(n) \in Nat /\ Clamped(n) <= MaxWait
  BY Numbers DEF Clamped, Lesser
<1>2. CASE n > 0
  BY <1>1, <1>2, Numbers DEF Deadline
<1>3. CASE n = 0 /\ InTime
  <2> DEFINE d == CHOOSE x \in NextRuns : Ahead(x)
  <2>1. PICK e \in NextRuns : Ahead(e) /\ e - Margin > now
    BY <1>3 DEF InTime
  <2>2. Ahead(d)
    BY <2>1
  <2>3. d = e /\ d \in Nat /\ d \in dates
    BY <2>1, <2>2, AheadUnique
  <2> HIDE DEF d
  <2>4. Unasked = Lesser(d - Margin, now + MaxWait)
    BY <1>3 DEF Unasked, d
  <2>5. Unasked \in Nat /\ Unasked <= now + MaxWait /\ Unasked <= d - Margin
    BY <2>1, <2>3, <2>4, Numbers DEF Lesser
  <2>6. ~May("nojob") => \A x \in dates : x > now => Unasked < x
    <3> SUFFICES ASSUME ~May("nojob"), NEW x \in dates, x > now PROVE Unasked < x
      OBVIOUS
    <3>1. x \in NextRuns /\ x \in Nat
      BY Numbers DEF NextRuns
    <3>2. d <= x
      BY <2>2, <3>1 DEF Ahead
    <3> QED
      BY <2>3, <2>5, <3>1, <3>2, Numbers, WaitAssumption
  <2> QED
    BY <1>3, <2>5, <2>6 DEF Deadline
<1>4. CASE n = 0 /\ ~InTime
  <2>1. Deadline(n) = now + MaxWait
    BY <1>4 DEF Deadline, Unasked
  <2>2. ASSUME ~May("nojob"), NEW x \in dates, x > now PROVE \E d \in dates : now < d /\ d <= now + Margin
    <3>1. x \in NextRuns
      BY <2>2 DEF NextRuns
    <3>2. PICK d \in NextRuns : Ahead(d)
      BY <3>1, FirstRun
    <3>3. d \in dates /\ d \in Nat /\ d > now
      BY Numbers DEF NextRuns
    <3>4. ~(d - Margin > now)
      BY <1>4, <3>2 DEF InTime
    <3> QED
      BY <3>3, <3>4, Numbers
  <2>3. \A x \in dates : x \in Nat
    BY Numbers
  <2> QED
    BY <2>1, <2>2, <2>3, Numbers
<1> QED
  BY <1>2, <1>3, <1>4

-------------------------------------------------------------------------------
(* Types.                                                                       *)
States == {"free", "pending", "gone"} \cup Done
Fates  == {"none", "running", "waiting", "over"}

\* What the actions write in a row leaves it a row.
LEMMA Edits ==
    ASSUME NEW x \in Rows, NEW s \in States, NEW e \in Fates
    PROVE  /\ [x EXCEPT !.st = s] \in Rows
           /\ [x EXCEPT !.ex = e] \in Rows
           /\ [x EXCEPT !.st = s, !.ex = e] \in Rows
           /\ [x EXCEPT !.ex = e, !.st = s] \in Rows
           /\ [x EXCEPT !.marked = TRUE] \in Rows
           /\ \A p \in Posts : [x EXCEPT !.st = s, !.file = p] \in Rows
BY DEF Rows, States, Fates, Done

LEMMA Fields ==
    ASSUME NEW x \in Rows
    PROVE  x.st \in States /\ x.ex \in Fates
BY DEF Rows, States, Fates

LEMMA InitTypes ==
    Init => TypeOK
<1> SUFFICES ASSUME Init PROVE TypeOK
  OBVIOUS
<1>1. (CHOOSE q \in Questions : TRUE) \in Questions
  BY QuestionsAssumption
<1> QED
  BY <1>1, NoneAssumption DEF Init, TypeOK, Rows, PostStates, Counters, Resting, Done

LEMMA TypesStep ==
    TypeOK /\ [Next]_vars => TypeOK'
<1> SUFFICES ASSUME TypeOK, [Next]_vars PROVE TypeOK'
  OBVIOUS
<1> USE DEF TypeOK
<1>1. ASSUME Expire PROVE TypeOK'
  <2>1. row' \in [Questions -> Rows]
    <3>1. ASSUME NEW x \in Questions PROVE row[x] \in Rows
      OBVIOUS
    <3>2. ASSUME NEW x \in Questions
          PROVE  row'[x] \in Rows
      BY <1>1, <3>1, Fields, Edits DEF Expire, States, Fates, Done
    <3> QED
      BY <1>1, <3>2 DEF Expire
  <2> QED
    BY <1>1, <2>1 DEF Expire, Counters
<1>2. ASSUME Remind PROVE TypeOK'
  <2>1. row' \in [Questions -> Rows]
    <3>1. ASSUME NEW x \in Questions PROVE row[x] \in Rows
      OBVIOUS
    <3>2. ASSUME NEW x \in Questions
          PROVE  row'[x] \in Rows
      BY <1>2, <3>1, Fields, Edits DEF Remind, States, Fates, Done
    <3> QED
      BY <1>2, <3>2 DEF Remind
  <2> QED
    BY <1>2, <2>1 DEF Remind, Counters, ToRemind
<1>3. ASSUME Mail PROVE TypeOK'
  BY <1>3 DEF Mail, Rows, PostStates, Counters, Done, Resting
<1>4. ASSUME Purge PROVE TypeOK'
  <2>1. row' \in [Questions -> Rows]
    <3>1. ASSUME NEW x \in Questions PROVE row[x] \in Rows
      OBVIOUS
    <3>2. ASSUME NEW x \in Questions
          PROVE  row'[x] \in Rows
      BY <1>4, <3>1, Fields, Edits DEF Purge, States, Fates, Done
    <3> QED
      BY <1>4, <3>2 DEF Purge
  <2> QED
    BY <1>4, <2>1 DEF Purge, Counters, Directories, Purgeable
<1>5. ASSUME PurgeDirs PROVE TypeOK'
  BY <1>5 DEF PurgeDirs, Rows, PostStates, Counters, Done, Resting
<1>6. ASSUME Cancel PROVE TypeOK'
  <2>1. row' \in [Questions -> Rows]
    <3>1. ASSUME NEW x \in Questions PROVE row[x] \in Rows
      OBVIOUS
    <3>2. ASSUME NEW x \in Questions
          PROVE  row'[x] \in Rows
      BY <1>6, <3>1, Fields, Edits DEF Cancel, States, Fates, Done
    <3> QED
      BY <1>6, <3>2 DEF Cancel
  <2> QED
    BY <1>6, <2>1 DEF Cancel, Counters
<1>7. ASSUME EditSchedule PROVE TypeOK'
  BY <1>7 DEF EditSchedule, Rows, PostStates, Counters, Done, Resting
<1>8. ASSUME Tick PROVE TypeOK'
  BY <1>8 DEF Tick, Rows, PostStates, Counters, Done, Resting
<1>9. ASSUME Crash PROVE TypeOK'
  <2>1. row' \in [Questions -> Rows]
    <3>1. ASSUME NEW x \in Questions PROVE row[x] \in Rows
      OBVIOUS
    <3>2. ASSUME NEW x \in Questions
          PROVE  row'[x] \in Rows
      BY <1>9, <3>1, Fields, Edits DEF Crash, States, Fates, Done
    <3> QED
      BY <1>9, <3>2 DEF Crash
  <2> QED
    BY <1>9, <2>1 DEF Crash, Counters, Resting, PostStates
<1>10. ASSUME NEW p \in Posts, Answer(p) PROVE TypeOK'
  <2>1. row' \in [Questions -> Rows]
    <3>1. post[p].of \in Questions
      BY DEF PostStates
    <3>2. [row[post[p].of] EXCEPT !.st = "resolved", !.file = p] \in Rows
      BY <3>1, Edits DEF States, Done, Fates
    <3> QED
      BY <1>10, <3>1, <3>2 DEF Answer
  <2> QED
    BY <1>10, <2>1 DEF Answer, Counters, Over, PostStates
<1>11. ASSUME NEW p \in Posts, Lose(p) PROVE TypeOK'
  BY <1>11 DEF Lose, Rows, PostStates, Counters, Done, Resting, Over, Without
<1>12. ASSUME NEW p \in Posts, DbError(p) PROVE TypeOK'
  BY <1>12 DEF DbError, Rows, PostStates, Counters, Done, Resting, Over
<1>13. ASSUME NEW p \in Posts, NEW q \in Questions, Submit(p, q) PROVE TypeOK'
  BY <1>13 DEF Submit, Rows, PostStates, Counters, Done, Resting
<1>14. ASSUME NEW q \in Questions, Suspend(q) PROVE TypeOK'
  BY <1>14 DEF Suspend, Rows, PostStates, Counters, Done, Resting
<1>15. ASSUME NEW q \in Questions, MailFails(q) PROVE TypeOK'
  <2>1. row' \in [Questions -> Rows]
    <3>1. [row[q] EXCEPT !.st = "gone", !.ex = "over"] \in Rows
      BY Edits DEF States, Fates
    <3> QED
      BY <1>15, <3>1 DEF MailFails
  <2> QED
    BY <1>15, <2>1 DEF MailFails, Counters
<1>16. ASSUME NEW q \in Questions, Resume(q) PROVE TypeOK'
  BY <1>16 DEF Resume, Rows, PostStates, Counters, Done, Resting
<1>17. ASSUME NEW q \in Questions, DeleteStep(q) PROVE TypeOK'
  <2>1. row' \in [Questions -> Rows]
    <3>1. [row[q] EXCEPT !.st = "gone"] \in Rows
      BY Edits DEF States, Fates
    <3> QED
      BY <1>17, <3>1 DEF DeleteStep
  <2> QED
    BY <1>17, <2>1 DEF DeleteStep, Counters
<1>18. ASSUME NEW q \in Questions, NEW n \in Requests, NEW r \in Reminders, Ask(q, n, r) PROVE TypeOK'
  BY <1>18, DeadlineBounds, Numbers DEF Ask, Rows, PostStates, Counters, Done, Resting
<1>19. CASE UNCHANGED vars
  BY <1>19 DEF vars, Rows, PostStates, Counters, Done, Resting
<1> QED
  BY <1>1, <1>2, <1>3, <1>4, <1>5, <1>6, <1>7, <1>8, <1>9, <1>10, <1>11, <1>12, <1>13, <1>14,
     <1>15, <1>16, <1>17, <1>18, <1>19 DEF Next, Job, Form, Step

\* The variables of WaitExpiry have their types in every reachable state.
THEOREM Types == Spec => []TypeOK
<1> QED
  BY InitTypes, TypesStep, PTL DEF Spec

-------------------------------------------------------------------------------
(* The rows after the three actions that touch them in bulk or through a post.  *)
LEMMA ExpireFields ==
    ASSUME TypeOK, Expire, NEW x \in Questions
    PROVE  /\ row'[x].ex = (IF x \in Overdue /\ row[x].ex = "waiting" THEN "over" ELSE row[x].ex)
           /\ row'[x].st = (IF x \in Overdue THEN "expired" ELSE row[x].st)
           /\ row'[x].file = row[x].file /\ row'[x].until = row[x].until /\ row'[x].born = row[x].born
           /\ row'[x].asked = row[x].asked /\ row'[x].remind = row[x].remind /\ row'[x].marked = row[x].marked
<1>1. row[x] \in Rows
  BY DEF TypeOK
<1>2. CASE x \in Overdue
  <2>1. row'[x] = [row[x] EXCEPT !.st = "expired", !.ex = IF @ = "waiting" THEN "over" ELSE @]
    BY <1>2 DEF Expire
  <2>2. CASE row[x].ex = "waiting"
    <3>1. row'[x] = [row[x] EXCEPT !.st = "expired", !.ex = "over"]
      BY <1>1, <2>1, <2>2 DEF Rows
    <3> QED
      BY <1>1, <1>2, <2>2, <3>1 DEF Rows
  <2>3. CASE row[x].ex # "waiting"
    <3>1. row'[x] = [row[x] EXCEPT !.st = "expired"]
      BY <1>1, <2>1, <2>3 DEF Rows
    <3> QED
      BY <1>1, <1>2, <2>3, <3>1 DEF Rows
  <2> QED
    BY <2>2, <2>3
<1>3. CASE x \notin Overdue
  BY <1>3 DEF Expire
<1> QED
  BY <1>2, <1>3

LEMMA CancelFields ==
    ASSUME TypeOK, Cancel, NEW x \in Questions
    PROVE  /\ row'[x].ex = (IF In(x, "waiting") THEN "over" ELSE row[x].ex)
           /\ row'[x].st = (IF In(x, "waiting") /\ Has(x, "pending") THEN "cancelled" ELSE row[x].st)
           /\ row'[x].file = row[x].file /\ row'[x].until = row[x].until /\ row'[x].born = row[x].born
           /\ row'[x].asked = row[x].asked /\ row'[x].remind = row[x].remind /\ row'[x].marked = row[x].marked
<1>1. row[x] \in Rows
  BY DEF TypeOK
<1>2. CASE In(x, "waiting")
  <2>1. row'[x] = [row[x] EXCEPT !.ex = "over", !.st = IF @ = "pending" THEN "cancelled" ELSE @]
    BY <1>2 DEF Cancel
  <2>2. CASE Has(x, "pending")
    <3>1. row'[x] = [row[x] EXCEPT !.ex = "over", !.st = "cancelled"]
      BY <1>1, <2>1, <2>2 DEF Rows, Has
    <3> QED
      BY <1>1, <1>2, <2>2, <3>1 DEF Rows
  <2>3. CASE ~Has(x, "pending")
    <3>1. row'[x] = [row[x] EXCEPT !.ex = "over"]
      BY <1>1, <2>1, <2>3 DEF Rows, Has
    <3> QED
      BY <1>1, <1>2, <2>3, <3>1 DEF Rows
  <2> QED
    BY <2>2, <2>3
<1>3. CASE ~In(x, "waiting")
  BY <1>3 DEF Cancel
<1> QED
  BY <1>2, <1>3

LEMMA AnswerFields ==
    ASSUME TypeOK, NEW p \in Posts, Answer(p), NEW x \in Questions
    PROVE  /\ post[p].of \in Questions
           /\ row'[x].st = (IF x = post[p].of THEN "resolved" ELSE row[x].st)
           /\ row'[x].file = (IF x = post[p].of THEN p ELSE row[x].file)
           /\ row'[x].ex = row[x].ex /\ row'[x].until = row[x].until /\ row'[x].born = row[x].born
           /\ row'[x].asked = row[x].asked /\ row'[x].remind = row[x].remind /\ row'[x].marked = row[x].marked
<1>1. row \in [Questions -> Rows] /\ post[p].of \in Questions
  BY DEF TypeOK, PostStates
<1> QED
  BY <1>1 DEF Answer, Rows

-------------------------------------------------------------------------------
(* What ties a question to its submissions.                                     *)
\* A question that no step has asked is blank; a submission that has begun was for a question
\* whose execution waits or waited, and the file of a row is one of a submission that is over.
Blank  == \A q \in Questions : In(q, "none") => Has(q, "free") /\ row[q].file = None
Begun  == \A p \in Posts : post[p].pc # "idle" => In(post[p].of, "waiting") \/ In(post[p].of, "over")
Filed  == \A q \in Questions : row[q].file # None =>
              row[q].file \in Posts /\ post[row[q].file].of = q /\ post[row[q].file].pc = "gone" /\ ~Has(q, "pending")
Dated  == \A q \in Questions : row[q].until <= row[q].born + MaxWait /\ row[q].born <= now
Ties   == Blank /\ Begun /\ Filed /\ Dated

LEMMA InitTies == Init => Ties
BY Numbers DEF Init, Ties, Blank, Begun, Filed, Dated, In, Has

LEMMA TiesStep ==
    TypeOK /\ Ties /\ [Next]_vars => Ties'
<1> SUFFICES ASSUME TypeOK, Ties, [Next]_vars PROVE Ties'
  OBVIOUS
<1>0. row \in [Questions -> Rows] /\ post \in [Posts -> PostStates] /\ now \in Nat /\ dates \in Schedules
  BY DEF TypeOK
<1> USE DEF Ties, Blank, Begun, Filed, Dated
<1>1. ASSUME Expire PROVE Ties'
  <2>1. UNCHANGED <<post, now>>
    BY <1>1 DEF Expire
  <2>2. \A p \in Posts : post[p].of \in Questions
    BY <1>0 DEF PostStates
  <2> QED
    BY <1>1, <1>0, <2>1, <2>2, ExpireFields DEF In, Has, Overdue
<1>2. ASSUME Remind PROVE Ties'
  BY <1>2, <1>0, NoneAssumption DEF Remind, Rows, PostStates, In, Has, Done, ToRemind, Close
<1>3. ASSUME Mail PROVE Ties'
  BY <1>3, <1>0, NoneAssumption DEF Mail, Rows, PostStates, In, Has, Done
<1>4. ASSUME Purge PROVE Ties'
  BY <1>4, <1>0, NoneAssumption DEF Purge, Rows, PostStates, In, Has, Done, Directories,
     Purgeable, Old
<1>5. ASSUME PurgeDirs PROVE Ties'
  BY <1>5, <1>0, NoneAssumption DEF PurgeDirs, Rows, PostStates, In, Has, Done, Resting
<1>6. ASSUME Cancel PROVE Ties'
  <2>1. UNCHANGED <<post, now>>
    BY <1>6 DEF Cancel
  <2>2. \A p \in Posts : post[p].of \in Questions
    BY <1>0 DEF PostStates
  <2> QED
    BY <1>6, <1>0, <2>1, <2>2, CancelFields DEF In, Has
<1>7. ASSUME EditSchedule PROVE Ties'
  BY <1>7, <1>0, NoneAssumption DEF EditSchedule, Rows, PostStates, In, Has, Done
<1>8. ASSUME Tick PROVE Ties'
  BY <1>8, <1>0, NoneAssumption DEF Tick, Rows, PostStates, In, Has, Done, Resting
<1>9. ASSUME Crash PROVE Ties'
  BY <1>9, <1>0, NoneAssumption DEF Crash, Rows, PostStates, In, Has, Done, Resting
<1>10. ASSUME NEW p \in Posts, Answer(p) PROVE Ties'
  <2> DEFINE q == post[p].of
  <2>1. q \in Questions /\ post[p].pc = "written" /\ Has(q, "pending")
    BY <1>10, <1>0 DEF Answer, Open, PostStates
  <2>2. \A x \in Questions :
          /\ row'[x].st = (IF x = q THEN "resolved" ELSE row[x].st)
          /\ row'[x].file = (IF x = q THEN p ELSE row[x].file)
          /\ row'[x].ex = row[x].ex /\ row'[x].until = row[x].until /\ row'[x].born = row[x].born
    BY <1>10, AnswerFields
  <2>3. /\ \A y \in Posts : post'[y].of = post[y].of /\ post'[y].pc = (IF y = p THEN "gone" ELSE post[y].pc)
        /\ now' = now
    BY <1>10, <1>0 DEF Answer, Over, PostStates
  <2>4. \A y \in Posts : post[y].of \in Questions
    BY <1>0 DEF PostStates
  <2> HIDE DEF q
  <2>5. Blank'
    BY <2>1, <2>2 DEF In, Has
  <2>6. Begun'
    BY <2>1, <2>2, <2>3, <2>4 DEF In, Has
  <2>7. Filed'
    BY <2>1, <2>2, <2>3 DEF In, Has, q
  <2>8. Dated'
    BY <2>2, <2>3
  <2> QED
    BY <2>5, <2>6, <2>7, <2>8
<1>11. ASSUME NEW p \in Posts, Lose(p) PROVE Ties'
  BY <1>11, <1>0, NoneAssumption DEF Lose, Rows, PostStates, In, Has, Done, Over, Without, Open
<1>12. ASSUME NEW p \in Posts, DbError(p) PROVE Ties'
  BY <1>12, <1>0, NoneAssumption DEF DbError, Rows, PostStates, In, Has, Done, Over
<1>13. ASSUME NEW p \in Posts, NEW q \in Questions, Submit(p, q) PROVE Ties'
  BY <1>13, <1>0, NoneAssumption DEF Submit, Rows, PostStates, In, Has, Done, Unused
<1>14. ASSUME NEW q \in Questions, Suspend(q) PROVE Ties'
  BY <1>14, <1>0, NoneAssumption DEF Suspend, Rows, PostStates, In, Has, Done
<1>15. ASSUME NEW q \in Questions, MailFails(q) PROVE Ties'
  BY <1>15, <1>0, NoneAssumption DEF MailFails, Rows, PostStates, In, Has, Done
<1>16. ASSUME NEW q \in Questions, Resume(q) PROVE Ties'
  BY <1>16, <1>0, NoneAssumption DEF Resume, Rows, PostStates, In, Has, Done
<1>17. ASSUME NEW q \in Questions, DeleteStep(q) PROVE Ties'
  BY <1>17, <1>0, NoneAssumption DEF DeleteStep, Rows, PostStates, In, Has, Done
<1>18. ASSUME NEW q \in Questions, NEW n \in Requests, NEW r \in Reminders, Ask(q, n, r) PROVE Ties'
  BY <1>18, <1>0, NoneAssumption, DeadlineBounds, Numbers DEF Ask, Rows, PostStates, In, Has,
     Done, Fresh
<1>19. CASE UNCHANGED vars
  BY <1>19 DEF vars, Rows, PostStates, In, Has, Done
<1> QED
  BY <1>1, <1>2, <1>3, <1>4, <1>5, <1>6, <1>7, <1>8, <1>9, <1>10, <1>11, <1>12, <1>13, <1>14,
     <1>15, <1>16, <1>17, <1>18, <1>19 DEF Next, Job, Form, Step

-------------------------------------------------------------------------------
(* Answers through the retention.                                               *)
\* The job has only rows in hand that are gone, and, unless a step was deleted, only after
\* their deadline: the retention counts from the question, and is no shorter than its life.
InHand   == job.pc = "dirs" => \A q \in job.of : Has(q, "gone") /\ Left(q) < 0
Uploaded == \A p \in Posts : post[p].pc = "written" /\ Has(post[p].of, "pending") => p \in disk
Kept     == InHand /\ Uploaded /\ AnswersSurvive
Safe     == "step" \notin weather => Kept

LEMMA InitSafe == Init => Safe
BY DEF Init, Safe, Kept, InHand, Uploaded, AnswersSurvive, Resting, Has, In

LEMMA SafeStep ==
    TypeOK /\ Ties /\ Safe /\ [Next]_vars => Safe'
<1> SUFFICES ASSUME TypeOK, Ties, Safe, "step" \notin weather, [Next]_vars PROVE Kept'
  BY DEF Safe, Next, vars, Job, Form, Step, Expire, Remind, Mail, Purge, PurgeDirs, Cancel,
     EditSchedule, Tick,
         Crash, Answer, Lose, DbError, Submit, Suspend, MailFails, Resume, DeleteStep, Ask
<1>0. /\ row \in [Questions -> Rows] /\ post \in [Posts -> PostStates] /\ disk \subseteq Posts
      /\ now \in Nat /\ dates \in Schedules /\ job.of \subseteq Questions
  BY DEF TypeOK
<1>00. Kept
  BY DEF Safe
<1> USE DEF Kept, InHand, Uploaded, AnswersSurvive
<1>1. ASSUME Expire PROVE Kept'
  <2>1. UNCHANGED <<post, now, disk, weather>> /\ job'.pc # "dirs"
    BY <1>1 DEF Expire
  <2>2. \A p \in Posts : post[p].of \in Questions
    BY <1>0 DEF PostStates
  <2>3. Uploaded'
    BY <1>1, <1>00, <2>1, <2>2, ExpireFields DEF Has
  <2>4. AnswersSurvive'
    BY <1>1, <1>00, <2>1, ExpireFields DEF Has, In, Left, Overdue, Ties, Filed
  <2> QED
    BY <2>1, <2>3, <2>4
<1>2. ASSUME Remind PROVE Kept'
  BY <1>2, <1>0, <1>00, NoneAssumption DEF Remind, Rows, PostStates, In, Has, Done, Left, Ties,
     Blank, Begun, Filed, ToRemind, Close
<1>3. ASSUME Mail PROVE Kept'
  BY <1>3, <1>0, <1>00, NoneAssumption DEF Mail, Rows, PostStates, In, Has, Done, Left, Ties,
     Blank, Begun, Filed
<1>4. ASSUME Purge PROVE Kept'
  BY <1>4, <1>0, <1>00, NoneAssumption, Numbers, RetentionAssumption DEF Purge, Rows,
     PostStates, In, Has, Done, Left, Ties, Blank, Begun, Filed, Directories, Purgeable, Old,
     Dated
<1>5. ASSUME PurgeDirs PROVE Kept'
  BY <1>5, <1>0, <1>00, NoneAssumption DEF PurgeDirs, Rows, PostStates, In, Has, Done, Left,
     Ties, Blank, Begun, Filed, Resting, JobAt
<1>6. ASSUME Cancel PROVE Kept'
  <2>1. UNCHANGED <<post, now, disk, weather, job>>
    BY <1>6 DEF Cancel
  <2>2. \A p \in Posts : post[p].of \in Questions
    BY <1>0 DEF PostStates
  <2>3. Uploaded'
    BY <1>6, <1>00, <2>1, <2>2, CancelFields DEF Has
  <2>4. AnswersSurvive'
    BY <1>6, <1>00, <2>1, CancelFields DEF Has, In, Left
  <2>5. InHand'
    BY <1>6, <1>0, <1>00, <2>1, CancelFields DEF Has, Left
  <2> QED
    BY <2>3, <2>4, <2>5
<1>7. ASSUME EditSchedule PROVE Kept'
  BY <1>7, <1>0, <1>00, NoneAssumption DEF EditSchedule, Rows, PostStates, In, Has, Done, Left,
     Ties, Blank, Begun, Filed
<1>8. ASSUME Tick PROVE Kept'
  BY <1>8, <1>0, <1>00, NoneAssumption DEF Tick, Rows, PostStates, In, Has, Done, Left, Ties,
     Blank, Begun, Filed, Resting, JobAt
<1>9. ASSUME Crash PROVE Kept'
  BY <1>9, <1>0, <1>00, NoneAssumption DEF Crash, Rows, PostStates, In, Has, Done, Left, Ties,
     Blank, Begun, Filed, Resting
<1>10. ASSUME NEW p \in Posts, Answer(p) PROVE Kept'
  BY <1>10, <1>0, <1>00, NoneAssumption, AnswerFields DEF Answer, Rows, PostStates, In, Has,
     Done, Left, Ties, Blank, Begun, Filed, Over, Open
<1>11. ASSUME NEW p \in Posts, Lose(p) PROVE Kept'
  BY <1>11, <1>0, <1>00, NoneAssumption DEF Lose, Rows, PostStates, In, Has, Done, Left, Ties,
     Blank, Begun, Filed, Over, Without, Open
<1>12. ASSUME NEW p \in Posts, DbError(p) PROVE Kept'
  BY <1>12, <1>0, <1>00, NoneAssumption DEF DbError, Rows, PostStates, In, Has, Done, Left,
     Ties, Blank, Begun, Filed, Over
<1>13. ASSUME NEW p \in Posts, NEW q \in Questions, Submit(p, q) PROVE Kept'
  BY <1>13, <1>0, <1>00, NoneAssumption DEF Submit, Rows, PostStates, In, Has, Done, Left,
     Ties, Blank, Begun, Filed, Unused
<1>14. ASSUME NEW q \in Questions, Suspend(q) PROVE Kept'
  BY <1>14, <1>0, <1>00, NoneAssumption DEF Suspend, Rows, PostStates, In, Has, Done, Left,
     Ties, Blank, Begun, Filed
<1>15. ASSUME NEW q \in Questions, MailFails(q) PROVE Kept'
  BY <1>15, <1>0, <1>00, NoneAssumption DEF MailFails, Rows, PostStates, In, Has, Done, Left,
     Ties, Blank, Begun, Filed
<1>16. ASSUME NEW q \in Questions, Resume(q) PROVE Kept'
  BY <1>16, <1>0, <1>00, NoneAssumption DEF Resume, Rows, PostStates, In, Has, Done, Left,
     Ties, Blank, Begun, Filed
<1>17. ASSUME NEW q \in Questions, DeleteStep(q) PROVE Kept'
  BY <1>17, <1>0, <1>00, NoneAssumption DEF DeleteStep, Rows, PostStates, In, Has, Done, Left,
     Ties, Blank, Begun, Filed, May
<1>18. ASSUME NEW q \in Questions, NEW n \in Requests, NEW r \in Reminders, Ask(q, n, r) PROVE Kept'
  BY <1>18, <1>0, <1>00, NoneAssumption, DeadlineBounds, Numbers DEF Ask, Rows, PostStates, In,
     Has, Done, Left, Ties, Blank, Begun, Filed, Fresh
<1>19. CASE UNCHANGED vars
  BY <1>19, <1>00 DEF vars, In, Has, Left
<1> QED
  BY <1>1, <1>2, <1>3, <1>4, <1>5, <1>6, <1>7, <1>8, <1>9, <1>10, <1>11, <1>12, <1>13, <1>14,
     <1>15, <1>16, <1>17, <1>18, <1>19 DEF Next, Job, Form, Step

\* No answer is taken from an execution that can still resume with it.
THEOREM AnswersKept == Spec => []AnswersSurvive
<1>1. TypeOK /\ Ties /\ Safe => AnswersSurvive
  BY DEF Safe, Kept, AnswersSurvive
<1> QED
  BY <1>1, InitTypes, TypesStep, InitTies, TiesStep, InitSafe, SafeStep, PTL DEF Spec


-------------------------------------------------------------------------------
(* Files.                                                                       *)
\* A file without its row is in the hands of the job; a file whose row is there and whose
\* submission is over is the row's, unless the database failed.
Owned ==
    \A p \in disk :
        /\ post[p].pc # "idle"
        /\ Has(post[p].of, "gone") => job.pc = "dirs" /\ post[p].of \in job.of
        /\ ~Has(post[p].of, "gone") /\ post[p].pc = "gone" => row[post[p].of].file = p \/ May("dberror")
NoOrphan == weather \cap {"crash", "step"} = {} => Owned

LEMMA InitNoOrphan == Init => NoOrphan
BY DEF Init, NoOrphan, Owned

LEMMA NoOrphanStep ==
    TypeOK /\ Ties /\ NoOrphan /\ [Next]_vars => NoOrphan'
<1> SUFFICES ASSUME TypeOK, Ties, NoOrphan, weather \cap {"crash", "step"} = {}, [Next]_vars PROVE Owned'
  BY DEF NoOrphan, Next, vars, Job, Form, Step, Expire, Remind, Mail, Purge, PurgeDirs, Cancel,
     EditSchedule, Tick,
         Crash, Answer, Lose, DbError, Submit, Suspend, MailFails, Resume, DeleteStep, Ask
<1>0. /\ row \in [Questions -> Rows] /\ post \in [Posts -> PostStates] /\ disk \subseteq Posts
      /\ now \in Nat /\ dates \in Schedules /\ job.of \subseteq Questions
  BY DEF TypeOK
<1>00. Owned
  BY DEF NoOrphan
<1> USE DEF Owned
<1>1. ASSUME Expire PROVE Owned'
  <2>1. UNCHANGED <<post, disk, weather>> /\ job.pc # "dirs"
    BY <1>1 DEF Expire, JobAt
  <2>2. \A y \in Posts : post[y].of \in Questions
    BY <1>0 DEF PostStates
  <2> QED
    BY <1>1, <1>0, <1>00, <2>1, <2>2, ExpireFields DEF Has, May, Overdue
<1>2. ASSUME Remind PROVE Owned'
  BY <1>2, <1>0, <1>00, NoneAssumption DEF Remind, Rows, PostStates, In, Has, Done, May, Ties,
     Blank, Begun, Filed, ToRemind, Close, JobAt
<1>3. ASSUME Mail PROVE Owned'
  BY <1>3, <1>0, <1>00, NoneAssumption DEF Mail, Rows, PostStates, In, Has, Done, May, Ties,
     Blank, Begun, Filed, JobAt
<1>4. ASSUME Purge PROVE Owned'
  BY <1>4, <1>0, <1>00, NoneAssumption DEF Purge, Rows, PostStates, In, Has, Done, May, Ties,
     Blank, Begun, Filed, Directories, Purgeable, Old, JobAt
<1>5. ASSUME PurgeDirs PROVE Owned'
  BY <1>5, <1>0, <1>00, NoneAssumption DEF PurgeDirs, Rows, PostStates, In, Has, Done, May,
     Ties, Blank, Begun, Filed, Resting
<1>6. ASSUME Cancel PROVE Owned'
  <2>1. UNCHANGED <<post, disk, weather, job>>
    BY <1>6 DEF Cancel
  <2>2. \A y \in Posts : post[y].of \in Questions
    BY <1>0 DEF PostStates
  <2> QED
    BY <1>6, <1>0, <1>00, <2>1, <2>2, CancelFields DEF Has, May
<1>7. ASSUME EditSchedule PROVE Owned'
  BY <1>7, <1>0, <1>00, NoneAssumption DEF EditSchedule, Rows, PostStates, In, Has, Done, May,
     Ties, Blank, Begun, Filed
<1>8. ASSUME Tick PROVE Owned'
  BY <1>8, <1>0, <1>00, NoneAssumption DEF Tick, Rows, PostStates, In, Has, Done, May, Ties,
     Blank, Begun, Filed, Resting, JobAt
<1>9. ASSUME Crash PROVE Owned'
  BY <1>9, <1>0, <1>00, NoneAssumption DEF Crash, Rows, PostStates, In, Has, Done, May, Ties,
     Blank, Begun, Filed, Resting
<1>10. ASSUME NEW p \in Posts, Answer(p) PROVE Owned'
  <2>1. UNCHANGED <<disk, weather, job>>
    BY <1>10 DEF Answer
  <2>2. \A y \in Posts : post[y].of \in Questions
    BY <1>0 DEF PostStates
  <2>3. post[p].pc = "written" /\ Has(post[p].of, "pending")
    BY <1>10 DEF Answer, Open
  <2>4. \A y \in Posts : post'[y].of = post[y].of /\ post'[y].pc = (IF y = p THEN "gone" ELSE post[y].pc)
    BY <1>10, <1>0 DEF Answer, Over, PostStates
  <2>5. row[post[p].of].file = None
    BY <2>2, <2>3 DEF Ties, Filed
  <2>6. \A x \in Questions : /\ row'[x].st = (IF x = post[p].of THEN "resolved" ELSE row[x].st)
                               /\ row'[x].file = (IF x = post[p].of THEN p ELSE row[x].file)
    BY <1>10, AnswerFields
  <2>7. ASSUME NEW y \in disk
        PROVE  /\ post'[y].pc # "idle"
               /\ (row'[post'[y].of].st = "gone") => job.pc = "dirs" /\ post'[y].of \in job.of
               /\ row'[post'[y].of].st # "gone" /\ post'[y].pc = "gone" => row'[post'[y].of].file = y \/ May("dberror")
    <3>1. y \in Posts /\ post[y].of \in Questions
      BY <1>0, <2>2
    <3>2. CASE y = p
      BY <2>2, <2>3, <2>4, <2>6, <3>1, <3>2 DEF Has
    <3>3. CASE y # p /\ post[y].of = post[p].of
      BY <1>00, <2>2, <2>3, <2>4, <2>5, <2>6, <3>1, <3>3, NoneAssumption DEF Has
    <3>4. CASE y # p /\ post[y].of # post[p].of
      BY <1>00, <2>4, <2>6, <3>1, <3>4 DEF Has
    <3> QED
      BY <3>2, <3>3, <3>4
  <2> QED
    BY <2>1, <2>7 DEF Has, May
<1>11. ASSUME NEW p \in Posts, Lose(p) PROVE Owned'
  BY <1>11, <1>0, <1>00, NoneAssumption DEF Lose, Rows, PostStates, In, Has, Done, May, Ties,
     Blank, Begun, Filed, Over, Without, Open
<1>12. ASSUME NEW p \in Posts, DbError(p) PROVE Owned'
  BY <1>12, <1>0, <1>00, NoneAssumption DEF DbError, Rows, PostStates, In, Has, Done, May,
     Ties, Blank, Begun, Filed, Over
<1>13. ASSUME NEW p \in Posts, NEW q \in Questions, Submit(p, q) PROVE Owned'
  BY <1>13, <1>0, <1>00, NoneAssumption DEF Submit, Rows, PostStates, In, Has, Done, May, Ties,
     Blank, Begun, Filed, Unused
<1>14. ASSUME NEW q \in Questions, Suspend(q) PROVE Owned'
  BY <1>14, <1>0, <1>00, NoneAssumption DEF Suspend, Rows, PostStates, In, Has, Done, May,
     Ties, Blank, Begun, Filed
<1>15. ASSUME NEW q \in Questions, MailFails(q) PROVE Owned'
  BY <1>15, <1>0, <1>00, NoneAssumption DEF MailFails, Rows, PostStates, In, Has, Done, May,
     Ties, Blank, Begun, Filed
<1>16. ASSUME NEW q \in Questions, Resume(q) PROVE Owned'
  BY <1>16, <1>0, <1>00, NoneAssumption DEF Resume, Rows, PostStates, In, Has, Done, May, Ties,
     Blank, Begun, Filed
<1>17. ASSUME NEW q \in Questions, DeleteStep(q) PROVE Owned'
  BY <1>17, <1>0, <1>00, NoneAssumption DEF DeleteStep, Rows, PostStates, In, Has, Done, May,
     Ties, Blank, Begun, Filed
<1>18. ASSUME NEW q \in Questions, NEW n \in Requests, NEW r \in Reminders, Ask(q, n, r) PROVE Owned'
  BY <1>18, <1>0, <1>00, NoneAssumption DEF Ask, Rows, PostStates, In, Has, Done, May, Ties,
     Blank, Begun, Filed, Fresh
<1>19. CASE UNCHANGED vars
  BY <1>19, <1>00 DEF vars, Has, May
<1> QED
  BY <1>1, <1>2, <1>3, <1>4, <1>5, <1>6, <1>7, <1>8, <1>9, <1>10, <1>11, <1>12, <1>13, <1>14,
     <1>15, <1>16, <1>17, <1>18, <1>19 DEF Next, Job, Form, Step

\* Every file is of a submission in progress, of an accepted answer, or about to be removed.
THEOREM FilesFollow == Spec => []FilesFollowRows
<1>1. TypeOK /\ NoOrphan => FilesFollowRows
  BY DEF TypeOK, NoOrphan, Owned, FilesFollowRows, PostStates
<1> QED
  BY <1>1, InitTypes, TypesStep, InitTies, TiesStep, InitNoOrphan, NoOrphanStep, PTL DEF Spec

-------------------------------------------------------------------------------
(* Links and the schedule.                                                      *)
\* What the wait step promised of the deadline when it wrote it still holds of the dates.
Spaced ==
    \A q \in Questions :
        ~In(q, "none") /\ row[q].asked = 0 =>
            \/ \A d \in dates : d > row[q].born => row[q].until < d
            \/ \E d \in dates : row[q].born < d /\ d <= row[q].born + Margin
Scheduled == weather \cap {"moved", "nojob"} = {} => Spaced

LEMMA InitScheduled == Init => Scheduled
BY DEF Init, Scheduled, Spaced, In

LEMMA ScheduledStep ==
    TypeOK /\ Ties /\ Scheduled /\ [Next]_vars => Scheduled'
<1> SUFFICES ASSUME TypeOK, Ties, Scheduled, weather \cap {"moved", "nojob"} = {}, [Next]_vars PROVE Spaced'
  BY DEF Scheduled, Next, vars, Job, Form, Step, Expire, Remind, Mail, Purge, PurgeDirs,
     Cancel, EditSchedule, Tick,
         Crash, Answer, Lose, DbError, Submit, Suspend, MailFails, Resume, DeleteStep, Ask
<1>0. /\ row \in [Questions -> Rows] /\ post \in [Posts -> PostStates] /\ disk \subseteq Posts
      /\ now \in Nat /\ dates \in Schedules /\ job.of \subseteq Questions
  BY DEF TypeOK
<1>00. Spaced /\ ~May("moved") /\ ~May("nojob")
  BY DEF Scheduled, May
<1> USE DEF Spaced
<1>1. ASSUME Expire PROVE Spaced'
  <2>1. UNCHANGED dates
    BY <1>1 DEF Expire
  <2> QED
    BY <1>1, <1>00, <2>1, ExpireFields DEF In, Overdue
<1>2. ASSUME Remind PROVE Spaced'
  BY <1>2, <1>0, <1>00 DEF Remind, Rows, In, ToRemind, Close
<1>3. ASSUME Mail PROVE Spaced'
  BY <1>3, <1>0, <1>00 DEF Mail, Rows, In
<1>4. ASSUME Purge PROVE Spaced'
  BY <1>4, <1>0, <1>00 DEF Purge, Rows, In, Directories, Purgeable, Old
<1>5. ASSUME PurgeDirs PROVE Spaced'
  BY <1>5, <1>0, <1>00 DEF PurgeDirs, Rows, In, Resting
<1>6. ASSUME Cancel PROVE Spaced'
  <2>1. UNCHANGED dates
    BY <1>6 DEF Cancel
  <2> QED
    BY <1>6, <1>00, <2>1, CancelFields DEF In
<1>7. ASSUME EditSchedule PROVE Spaced'
  BY <1>7, <1>0, <1>00 DEF EditSchedule, Rows, In
<1>8. ASSUME Tick PROVE Spaced'
  BY <1>8, <1>0, <1>00 DEF Tick, Rows, In, Resting
<1>9. ASSUME Crash PROVE Spaced'
  BY <1>9, <1>0, <1>00 DEF Crash, Rows, In, Resting
<1>10. ASSUME NEW p \in Posts, Answer(p) PROVE Spaced'
  <2>1. UNCHANGED dates
    BY <1>10 DEF Answer
  <2> QED
    BY <1>10, <1>00, <2>1, AnswerFields DEF In
<1>11. ASSUME NEW p \in Posts, Lose(p) PROVE Spaced'
  BY <1>11, <1>0, <1>00 DEF Lose, Rows, In, Over, Without, Open
<1>12. ASSUME NEW p \in Posts, DbError(p) PROVE Spaced'
  BY <1>12, <1>0, <1>00 DEF DbError, Rows, In, Over
<1>13. ASSUME NEW p \in Posts, NEW q \in Questions, Submit(p, q) PROVE Spaced'
  BY <1>13, <1>0, <1>00 DEF Submit, Rows, In, Unused
<1>14. ASSUME NEW q \in Questions, Suspend(q) PROVE Spaced'
  BY <1>14, <1>0, <1>00 DEF Suspend, Rows, In
<1>15. ASSUME NEW q \in Questions, MailFails(q) PROVE Spaced'
  BY <1>15, <1>0, <1>00 DEF MailFails, Rows, In
<1>16. ASSUME NEW q \in Questions, Resume(q) PROVE Spaced'
  BY <1>16, <1>0, <1>00 DEF Resume, Rows, In
<1>17. ASSUME NEW q \in Questions, DeleteStep(q) PROVE Spaced'
  BY <1>17, <1>0, <1>00 DEF DeleteStep, Rows, In
<1>18. ASSUME NEW q \in Questions, NEW n \in Requests, NEW r \in Reminders, Ask(q, n, r) PROVE Spaced'
  <2>1. n \in Nat
    BY Numbers
  <2>2. \/ n # 0
        \/ \A d \in dates : d > now => Deadline(n) < d
        \/ \E d \in dates : now < d /\ d <= now + Margin
    BY <1>0, <1>00, <2>1, DeadlineBounds
  <2> DEFINE new == [st |-> "pending", ex |-> "running", born |-> now, until |-> Deadline(n),
                     asked |-> n, remind |-> r, marked |-> FALSE, file |-> None]
  <2>3. dates' = dates /\ row' = [row EXCEPT ![q] = new]
    BY <1>18 DEF Ask
  <2>4. new.born = now /\ new.until = Deadline(n) /\ new.asked = n
    OBVIOUS
  <2> HIDE DEF new
  <2>5. \A x \in Questions : row'[x] = IF x = q THEN new ELSE row[x]
    BY <1>0, <2>3
  <2> QED
    BY <1>00, <2>2, <2>3, <2>4, <2>5 DEF In
<1>19. CASE UNCHANGED vars
  BY <1>19, <1>00 DEF vars, In
<1> QED
  BY <1>1, <1>2, <1>3, <1>4, <1>5, <1>6, <1>7, <1>8, <1>9, <1>10, <1>11, <1>12, <1>13, <1>14,
     <1>15, <1>16, <1>17, <1>18, <1>19 DEF Next, Job, Form, Step

\* At a date of the schedule the earlier links that were left to the schedule are closed,
\* unless the question came within the margin of a run.
THEOREM ClosedBeforeNextRun == Spec => []BeforeNextRun
<1>1. TypeOK /\ Ties /\ Scheduled => BeforeNextRun
  <2> SUFFICES ASSUME TypeOK, Ties, Scheduled, weather \cap {"moved", "nojob"} = {}, now \in dates,
                      NEW q \in Questions, Has(q, "pending"), row[q].asked = 0, row[q].born < now
               PROVE  Left(q) < 0 \/ \E d \in dates : row[q].born < d /\ d <= row[q].born + Margin
    BY DEF BeforeNextRun
  <2>1. ~In(q, "none") /\ row[q] \in Rows
    BY DEF Ties, Blank, Has, TypeOK
  <2>2. CASE \A d \in dates : d > row[q].born => row[q].until < d
    BY <2>1, <2>2 DEF Left, Rows, TypeOK
  <2> QED
    BY <2>1, <2>2 DEF Scheduled, Spaced
<1> QED
  BY <1>1, InitTypes, TypesStep, InitTies, TiesStep, InitScheduled, ScheduledStep, PTL DEF Spec


-------------------------------------------------------------------------------
(* Reminders.                                                                   *)
\* A question that is open is one its execution waits for, or is about to.
\* The pass of the job in the last quarter of a link marks its row, if no earlier pass did;
\* a mark is a mail that left or that the job has in hand.
Asking   == \A q \in Questions : Has(q, "pending") => In(q, "waiting") \/ (In(q, "running") /\ row[q].born = now)
Announced(q) == row[q].remind > 0 /\ row[q].until > row[q].born + 1
Reached(q)   == Left(q) <= 0 \/ (Left(q) = 1 /\ job.pc \notin {"expire", "remind"})
Marked   == \A q \in Questions : Has(q, "pending") /\ Announced(q) /\ Reached(q) => row[q].marked
Mailed   == \A q \in Questions : row[q].marked => q \in mailed \/ (job.pc = "mail" /\ q \in job.of)
Told     == \A q \in Questions : Has(q, "expired") /\ Announced(q) => q \in mailed
Courtesy == Asking /\ Marked /\ Mailed /\ Told
Polite   == weather \cap {"crash", "nosmtp"} = {} => Courtesy

LEMMA InitPolite == Init => Polite
BY DEF Init, Polite, Courtesy, Asking, Marked, Mailed, Told, Has, In, Announced

LEMMA PoliteStep ==
    TypeOK /\ Ties /\ Polite /\ [Next]_vars => Polite'
<1> SUFFICES ASSUME TypeOK, Ties, Polite, weather \cap {"crash", "nosmtp"} = {}, [Next]_vars PROVE Courtesy'
  BY DEF Polite, Next, vars, Job, Form, Step, Expire, Remind, Mail, Purge, PurgeDirs, Cancel,
     EditSchedule, Tick,
         Crash, Answer, Lose, DbError, Submit, Suspend, MailFails, Resume, DeleteStep, Ask
<1>0. /\ row \in [Questions -> Rows] /\ post \in [Posts -> PostStates] /\ disk \subseteq Posts
      /\ now \in Nat /\ dates \in Schedules /\ job.of \subseteq Questions
  BY DEF TypeOK
<1>00. Courtesy /\ ~May("crash") /\ ~May("nosmtp")
  BY DEF Polite, May
<1> USE DEF Courtesy, Asking, Marked, Mailed, Told, Announced, Reached
<1>1. ASSUME Expire PROVE Courtesy'
  <2>1. UNCHANGED <<now, mailed>> /\ job.pc = "expire" /\ job'.pc = "remind"
    BY <1>1 DEF Expire, JobAt
  <2>2. \A q \in Questions : row[q].until \in Nat
    BY <1>0 DEF Rows
  <2>5. Asking'
    BY <1>1, <1>00, <2>1, ExpireFields DEF Has, In
  <2>6. Marked'
    BY <1>1, <1>00, <2>1, ExpireFields DEF Has, Left
  <2>7. Mailed'
    BY <1>1, <1>00, <2>1, ExpireFields
  <2>4. Told'
    BY <1>1, <1>0, <1>00, <2>1, <2>2, ExpireFields DEF Has, Left, Overdue
  <2> QED
    BY <2>4, <2>5, <2>6, <2>7
<1>2. ASSUME Remind PROVE Courtesy'
  <2>1. UNCHANGED <<now, mailed>> /\ job.pc = "remind" /\ job'.pc = "mail" /\ job'.of = ToRemind
    BY <1>2 DEF Remind, JobAt
  <2>2. \A x \in Questions :
          /\ row'[x].marked <=> (x \in ToRemind \/ row[x].marked)
          /\ row'[x].st = row[x].st /\ row'[x].ex = row[x].ex /\ row'[x].born = row[x].born
          /\ row'[x].until = row[x].until /\ row'[x].remind = row[x].remind
    BY <1>2, <1>0 DEF Remind, Rows
  <2>3. \A x \in Questions : row[x] \in Rows
    BY <1>0
  <2>4. ASSUME NEW q \in Questions, Has(q, "pending"), Announced(q), Left(q) = 1, ~row[q].marked
        PROVE  q \in ToRemind
    BY <1>0, <1>00, <2>3, <2>4 DEF ToRemind, Close, Left, Rows, Has, In
  <2>5. Marked'
    <3> SUFFICES ASSUME NEW q \in Questions, Has(q, "pending"), Announced(q), Left(q) <= 0 \/ Left(q) = 1
                 PROVE  row'[q].marked
      BY <2>1, <2>2 DEF Has, Left
    <3>1. CASE Left(q) <= 0
      BY <1>00, <2>2, <3>1
    <3>2. CASE Left(q) = 1
      BY <2>2, <2>4, <3>2
    <3> QED
      BY <3>1, <3>2
  <2>6. Asking'
    BY <1>00, <2>1, <2>2 DEF Has, In
  <2>7. Mailed'
    BY <1>00, <2>1, <2>2
  <2>8. Told'
    BY <1>00, <2>1, <2>2 DEF Has
  <2> QED
    BY <2>5, <2>6, <2>7, <2>8
<1>3. ASSUME Mail PROVE Courtesy'
  <2>1. UNCHANGED <<now, row>> /\ job.pc = "mail" /\ job'.pc = "purge" /\ mailed' = mailed \cup job.of
    BY <1>3, <1>00 DEF Mail, JobAt
  <2>2. Asking' /\ Told'
    BY <1>00, <2>1 DEF Has, In
  <2>3. Marked'
    BY <1>00, <2>1 DEF Has, Left
  <2>4. Mailed'
    BY <1>00, <2>1
  <2> QED
    BY <2>2, <2>3, <2>4
<1>4. ASSUME Purge PROVE Courtesy'
  <2>1. UNCHANGED <<now, mailed>> /\ job.pc = "purge" /\ job'.pc = "dirs"
    BY <1>4 DEF Purge, JobAt
  <2>2. \A x \in Questions :
          /\ row'[x].st = (IF x \in Purgeable THEN "gone" ELSE row[x].st)
          /\ row'[x].ex = row[x].ex /\ row'[x].born = row[x].born /\ row'[x].marked = row[x].marked
          /\ row'[x].until = row[x].until /\ row'[x].remind = row[x].remind
    BY <1>4, <1>0 DEF Purge, Rows
  <2>3. Asking'
    BY <1>00, <2>1, <2>2 DEF Has, In
  <2>4. Told'
    BY <1>00, <2>1, <2>2 DEF Has
  <2>5. Marked'
    BY <1>00, <2>1, <2>2 DEF Has, Left
  <2>6. Mailed'
    BY <1>00, <2>1, <2>2
  <2> QED
    BY <2>3, <2>4, <2>5, <2>6
<1>5. ASSUME PurgeDirs PROVE Courtesy'
  <2>1. UNCHANGED <<now, row>> /\ job.pc = "dirs" /\ job'.pc = "idle" /\ mailed' = mailed
    BY <1>5, <1>00 DEF PurgeDirs, JobAt, Resting
  <2>2. Asking' /\ Told'
    BY <1>00, <2>1 DEF Has, In
  <2>3. Marked'
    BY <1>00, <2>1 DEF Has, Left
  <2>4. Mailed'
    BY <1>00, <2>1
  <2> QED
    BY <2>2, <2>3, <2>4
<1>6. ASSUME Cancel PROVE Courtesy'
  <2>1. UNCHANGED <<now, mailed, job>>
    BY <1>6 DEF Cancel
  <2> QED
    BY <1>6, <1>00, <2>1, CancelFields DEF Has, In, Left
<1>7. ASSUME EditSchedule PROVE Courtesy'
  BY <1>7, <1>0, <1>00 DEF EditSchedule, Rows, In, Has, Left, Done
<1>8. ASSUME Tick PROVE Courtesy'
  <2>1. UNCHANGED <<row, mailed>> /\ job.pc = "idle" /\ job'.pc = "expire" /\ now' = now + 1
    BY <1>8, <1>00 DEF Tick, JobAt
  <2>2. \A x \in Questions : row[x].until \in Nat /\ ~In(x, "running")
    BY <1>8, <1>0 DEF Rows, Tick
  <2>3. Asking'
    BY <1>00, <2>1, <2>2 DEF Has, In
  <2>4. Told'
    BY <1>00, <2>1 DEF Has
  <2>5. Marked'
    BY <1>0, <1>00, <2>1, <2>2 DEF Has, Left
  <2>6. Mailed'
    BY <1>00, <2>1
  <2> QED
    BY <2>3, <2>4, <2>5, <2>6
<1>9. ASSUME Crash PROVE Courtesy'
  BY <1>9, <1>0, <1>00 DEF Crash, Rows, In, Has, Left, Done, Resting
<1>10. ASSUME NEW p \in Posts, Answer(p) PROVE Courtesy'
  <2>1. UNCHANGED <<now, mailed, job>>
    BY <1>10 DEF Answer
  <2> QED
    BY <1>10, <1>00, <2>1, AnswerFields DEF Has, In, Left
<1>11. ASSUME NEW p \in Posts, Lose(p) PROVE Courtesy'
  BY <1>11, <1>0, <1>00 DEF Lose, Rows, In, Has, Left, Done, Over, Without, Open
<1>12. ASSUME NEW p \in Posts, DbError(p) PROVE Courtesy'
  BY <1>12, <1>0, <1>00 DEF DbError, Rows, In, Has, Left, Done, Over
<1>13. ASSUME NEW p \in Posts, NEW q \in Questions, Submit(p, q) PROVE Courtesy'
  BY <1>13, <1>0, <1>00 DEF Submit, Rows, In, Has, Left, Done, Unused
<1>14. ASSUME NEW q \in Questions, Suspend(q) PROVE Courtesy'
  BY <1>14, <1>0, <1>00 DEF Suspend, Rows, In, Has, Left, Done
<1>15. ASSUME NEW q \in Questions, MailFails(q) PROVE Courtesy'
  BY <1>15, <1>0, <1>00 DEF MailFails, Rows, In, Has, Left, Done
<1>16. ASSUME NEW q \in Questions, Resume(q) PROVE Courtesy'
  BY <1>16, <1>0, <1>00 DEF Resume, Rows, In, Has, Left, Done
<1>17. ASSUME NEW q \in Questions, DeleteStep(q) PROVE Courtesy'
  BY <1>17, <1>0, <1>00 DEF DeleteStep, Rows, In, Has, Left, Done
<1>18. ASSUME NEW q \in Questions, NEW n \in Requests, NEW r \in Reminders, Ask(q, n, r) PROVE Courtesy'
  <2>1. Deadline(n) \in Nat
    BY <1>0, Numbers, DeadlineBounds
  <2> DEFINE new == [st |-> "pending", ex |-> "running", born |-> now, until |-> Deadline(n),
                     asked |-> n, remind |-> r, marked |-> FALSE, file |-> None]
  <2>2. UNCHANGED <<now, mailed, job>> /\ row' = [row EXCEPT ![q] = new]
    BY <1>18 DEF Ask
  <2>3. new.st = "pending" /\ new.ex = "running" /\ new.born = now /\ new.until = Deadline(n) /\ new.marked = FALSE
    OBVIOUS
  <2> HIDE DEF new
  <2>4. \A x \in Questions : row'[x] = IF x = q THEN new ELSE row[x]
    BY <1>0, <2>2
  <2> QED
    BY <1>0, <1>00, <2>1, <2>2, <2>3, <2>4 DEF In, Has, Left
<1>19. CASE UNCHANGED vars
  BY <1>19, <1>00 DEF vars, In, Has, Left
<1> QED
  BY <1>1, <1>2, <1>3, <1>4, <1>5, <1>6, <1>7, <1>8, <1>9, <1>10, <1>11, <1>12, <1>13, <1>14,
     <1>15, <1>16, <1>17, <1>18, <1>19 DEF Next, Job, Form, Step

\* Nobody's question expires unannounced.
THEOREM RemindersLeave == Spec => []Reminded
<1>1. Polite => Reminded
  BY DEF Polite, Courtesy, Told, Announced, Reminded
<1> QED
  BY <1>1, InitTypes, TypesStep, InitTies, TiesStep, InitPolite, PoliteStep, PTL DEF Spec

===============================================================================
