---------------------------- MODULE DagRunProofs ----------------------------
(* For every workflow, whatever its graph, its policy, its wait steps and the   *)
(* risks it runs: types, no stall, order, containment of failures, a cause for  *)
(* every skip, an honest verdict and a whole journal; across a suspension, no   *)
(* step twice, no delivery denied and no input lost.                            *)
EXTENDS DagRun, FiniteSetTheorems, TLAPS

-------------------------------------------------------------------------------
(* Types.                                                                       *)
\* The names a policy or a step can add to the context are steps.
LEMMA StepSets ==
    /\ \A s : Descendants(s) \subseteq Steps
    /\ \A S : ReachOf(S) \subseteq Steps
    /\ Poisoned \subseteq Steps
    /\ \A recs, st : Of(recs, st) \subseteq Steps
    /\ Active \subseteq Steps
<1>1. \A s : Descendants(s) \subseteq Steps  BY DEF Descendants
<1>2. \A S : ReachOf(S) \subseteq Steps  BY <1>1 DEF ReachOf
<1>3. Poisoned \subseteq Steps  BY DEF Poisoned
<1>4. QED  BY <1>1, <1>2, <1>3 DEF Of, Active

LEMMA FreshType ==
    ASSUME NEW out \in SUBSET Steps, NEW skip \in SUBSET Steps
    PROVE  FreshContext(out, skip) \in Context
BY StepSets DEF FreshContext, Context

\* Journalling adds only rows it was given; an answer turns a row into a row.
LEMMA WriteType ==
    ASSUME journal \subseteq Records, NEW recs \in SUBSET Records, Write(recs)
    PROVE  journal' \subseteq Records
BY DEF Write, Journal

LEMMA AnsweredType ==
    ASSUME journal \subseteq Records, NEW w
    PROVE  Answered(w) \subseteq Records
BY DEF Answered, Records

LEMMA OutcomeType == Outcome \in {"waiting", "success", "partial", "failed"}
BY DEF Outcome

\* What a step returns is a record of its own.
LEMMA RecordType ==
    ASSUME NEW s \in Steps, NEW a \in Attempts,
           NEW st \in {"success", "failed", "skipped", "waiting"}
    PROVE  Record(s, st, a) \in Records
BY DEF Record, Records

LEMMA TryType == 1 \in Attempts /\ LastTry \in Attempts
BY RetriesAssumption DEF Attempts, LastTry

LEMMA TypedStep == TypeOK /\ [Next]_vars => TypeOK'
<1> SUFFICES ASSUME TypeOK, [Next]_vars PROVE TypeOK'  OBVIOUS
<1> USE DEF TypeOK
<1>f. flow' = flow
  BY DEF Next, Progress, StepNext, Start, Refuse, OpenLevel, SkipOver, RunFine, RunFails,
         RunWaits, FanInTooLarge, Report, CloseLevel, PipelineRaises, EndLevels, Persist,
         Verdict, Timeout, Exceed, Resume, vars
<1>1. CASE Start \/ Refuse
  BY <1>1, StepSets DEF Start, Refuse
<1>2. CASE OpenLevel
  <2>1. Frontier \subseteq Steps  BY DEF Frontier
  <2>2. ToRun(Frontier) \subseteq Steps /\ ToSkip(Frontier) \subseteq Steps
    BY <2>1 DEF ToRun, ToSkip
  <2>3. {Record(s, "skipped", 1) : s \in ToSkip(Frontier)} \subseteq Records
    BY <2>2, TryType, RecordType
  <2>4. QED  BY <1>2, <2>2, <2>3 DEF OpenLevel
<1>3. ASSUME NEW s \in Steps, StepNext(s) PROVE TypeOK'
  <2>1. CASE SkipOver(s)
    BY <2>1, TryType, RecordType DEF SkipOver, Report, Context
  <2>2. CASE RunFails(s)
    BY <2>2, TryType, RecordType DEF RunFails, Report
  <2>3. CASE FanInTooLarge(s)
    <3>1. [step |-> s, st |-> "raised", try |-> 1] \in Raised  BY DEF Raised
    <3>2. QED  BY <2>3, <3>1 DEF FanInTooLarge, Report
  <2>4. ASSUME NEW a \in Attempts, RunFine(s, a) PROVE TypeOK'
    BY <2>4, RecordType DEF RunFine, Report
  <2>5. ASSUME NEW a \in Attempts, RunWaits(s, a) PROVE TypeOK'
    BY <2>5, RecordType DEF RunWaits, Report, Context
  <2>6. QED  BY <1>3, <2>1, <2>2, <2>3, <2>4, <2>5 DEF StepNext
<1>4. CASE CloseLevel
  <2>1. results \subseteq Records
    <3>1. ASSUME NEW r \in results PROVE r \in Records
      <4>1. r.step \in Steps /\ r.st # "raised"
        <5>1. r.step \in Steps  BY DEF Records, Raised
        <5>2. QED  BY <1>4, <5>1 DEF CloseLevel, Of
      <4>2. QED  BY <4>1 DEF Raised
    <3>2. QED  BY <3>1
  <2>2. records' \subseteq Records  BY <1>4, <2>1 DEF CloseLevel
  <2>3. journal' \subseteq Records  BY <1>4, <2>2, WriteType DEF CloseLevel
  <2>4. \A out, through : Kept(out, through) \subseteq out  BY DEF Kept
  <2>5. ctx' \in Context
    BY <1>4, <2>4, StepSets DEF CloseLevel, Context, StopsAll
  <2>6. QED  BY <1>4, <2>2, <2>3, <2>5 DEF CloseLevel
<1>5. CASE PipelineRaises \/ EndLevels \/ Timeout \/ Exceed
  BY <1>5 DEF PipelineRaises, EndLevels, Timeout, Exceed
<1>6. CASE Persist
  BY <1>6, WriteType DEF Persist
<1>7. CASE Verdict
  BY <1>7, OutcomeType DEF Verdict
<1>8. ASSUME NEW w \in flow.waits, Resume(w) PROVE TypeOK'
  <2>1. w \in Steps  BY DEF FlowType
  <2>2. journal' \subseteq Records  BY <1>8, AnsweredType DEF Resume
  <2>3. SkipIds(w, journal') \subseteq Steps  BY <2>1, StepSets DEF SkipIds
  <2>4. ctx' \in Context
    BY <1>8, <2>1, <2>3, FreshType DEF Resume
  <2>5. QED  BY <1>8, <1>f, <2>1, <2>2, <2>4, StepSets DEF Resume
<1>9. CASE UNCHANGED vars  BY <1>9 DEF vars
<1>10. QED
  BY <1>1, <1>2, <1>3, <1>4, <1>5, <1>6, <1>7, <1>8, <1>9 DEF Next, Progress

\* Every variable keeps its type: statuses, records, the context of a pass.
THEOREM Typed == Spec => []TypeOK
<1>1. Init => TypeOK
  <2> SUFFICES ASSUME Init PROVE TypeOK  OBVIOUS
  <2>1. ctx \in Context  BY FreshType DEF Init
  <2>2. flow \in FlowType  BY FlowsAssumption DEF Init
  <2>3. QED  BY <2>1, <2>2 DEF Init, TypeOK
<1>2. QED  BY <1>1, TypedStep, PTL DEF Spec

-------------------------------------------------------------------------------
(* No stall: a graph with a cycle is refused, so the steps left always have one *)
(* without a parent among them.                                                 *)
Sorted ==
    /\ left \subseteq Active
    /\ Cyclic => pc \in {"new", "stopped"} /\ exec.st \in {"pending", "failed"}

LEMMA SortedStep == TypeOK /\ Sorted /\ [Next]_vars => Sorted'
<1> SUFFICES ASSUME TypeOK, Sorted, [Next]_vars PROVE Sorted'  OBVIOUS
<1>f. flow' = flow
  BY DEF Next, Progress, StepNext, Start, Refuse, OpenLevel, SkipOver, RunFine, RunFails,
         RunWaits, FanInTooLarge, Report, CloseLevel, PipelineRaises, EndLevels, Persist,
         Verdict, Timeout, Exceed, Resume, vars
<1>s. Active' = Active /\ Cyclic' = Cyclic
  BY <1>f DEF Active, Cyclic, Parents, Edges
<1>1. CASE Start \/ Refuse
  BY <1>1, <1>s DEF Start, Refuse, Sorted, TypeOK
<1>2. CASE OpenLevel \/ CloseLevel \/ EndLevels \/ Persist \/ Verdict \/ Exceed
  BY <1>2, <1>s DEF OpenLevel, CloseLevel, EndLevels, Persist, Verdict, Exceed, Sorted
<1>3. CASE PipelineRaises \/ Timeout
  BY <1>3, <1>s DEF PipelineRaises, Timeout, Sorted
<1>4. ASSUME NEW s \in Steps, StepNext(s) PROVE Sorted'
  BY <1>4, <1>s DEF StepNext, SkipOver, RunFine, RunFails, RunWaits, FanInTooLarge, Runs, Open,
                    Report, Sorted
<1>5. ASSUME NEW w \in flow.waits, Resume(w) PROVE Sorted'
  BY <1>5, <1>s DEF Resume, Sorted
<1>6. CASE UNCHANGED vars  BY <1>6, <1>s DEF vars, Sorted
<1>7. QED  BY <1>1, <1>2, <1>3, <1>4, <1>5, <1>6 DEF Next, Progress

LEMMA SortedAdvances == Sorted => NeverStalls
<1> SUFFICES ASSUME Sorted, pc = "levels", left # {} PROVE Frontier # {}
  BY DEF NeverStalls
<1>1. ~Cyclic /\ left \in SUBSET Active  BY DEF Sorted
<1>2. PICK s \in left : Parents(s) \cap left = {}  BY <1>1 DEF Cyclic
<1>3. QED  BY <1>2 DEF Frontier

\* While steps remain a level opens: the traversal of any accepted graph ends.
THEOREM Advances == Spec => []NeverStalls
<1>1. Init => Sorted  BY DEF Init, Sorted
<1>2. QED  BY <1>1, Typed, SortedStep, SortedAdvances, PTL DEF Spec

-------------------------------------------------------------------------------
(* Order: every step behind the frontier has its record.                        *)
Settled(p) == p \in ctx.skip \/ \E r \in records : r.step = p /\ r.st # "waiting"

Behind ==
    /\ pc \in {"new", "levels"} => level = {}
    /\ pc \in {"levels", "level"} => \A p \in Active \ left : p \in level \/ Settled(p)
    /\ pc = "level" => \A s \in level : Parents(s) \cap (left \cup level) = {}

LEMMA BehindStep == TypeOK /\ Behind /\ [Next]_vars => Behind'
<1> SUFFICES ASSUME TypeOK, Behind, [Next]_vars PROVE Behind'  OBVIOUS
<1>f. flow' = flow
  BY DEF Next, Progress, StepNext, Start, Refuse, OpenLevel, SkipOver, RunFine, RunFails,
         RunWaits, FanInTooLarge, Report, CloseLevel, PipelineRaises, EndLevels, Persist,
         Verdict, Timeout, Exceed, Resume, vars
<1>s. Active' = Active /\ \A s : Parents(s)' = Parents(s)
  BY <1>f DEF Active, Parents, Edges
<1>1. CASE Start \/ Refuse \/ Exceed \/ PipelineRaises \/ EndLevels \/ Persist \/ Verdict \/ Timeout
  <2>1. CASE Start  BY <2>1, <1>s DEF Start, Behind
  <2>2. CASE Exceed
    <3>1. UNCHANGED <<pc, left, level, records, ctx>>  BY <2>2 DEF Exceed
    <3>2. QED  BY <3>1, <1>s DEF Behind, Settled
  <2>3. CASE Refuse \/ PipelineRaises \/ EndLevels \/ Persist \/ Verdict \/ Timeout
    <3>1. pc' \in {"persist", "verdict", "stopped"}
      BY <2>3 DEF Refuse, PipelineRaises, EndLevels, Persist, Verdict, Timeout
    <3>2. QED  BY <3>1 DEF Behind
  <2>4. QED  BY <1>1, <2>1, <2>2, <2>3
<1>2. CASE OpenLevel
  <2>1. level' \subseteq Frontier  BY <1>2 DEF OpenLevel, ToRun
  <2>2. ASSUME NEW s \in level' PROVE Parents(s) \cap (left' \cup level') = {}
    BY <1>2, <2>1 DEF OpenLevel, Frontier
  <2>3. ASSUME NEW p \in Active, p \notin left' PROVE p \in level' \/ Settled(p)'
    <3>1. CASE p \notin left
      BY <1>2, <3>1 DEF OpenLevel, Behind, Settled
    <3>2. CASE p \in Frontier
      <4>1. CASE p \in ToSkip(Frontier)
        <5>1. Record(p, "skipped", 1) \in records'  BY <1>2, <4>1 DEF OpenLevel
        <5>2. QED  BY <5>1 DEF Settled, Record
      <4>2. CASE p \notin ToSkip(Frontier)
        BY <1>2, <3>2, <4>2 DEF OpenLevel, ToSkip, ToRun, Settled
      <4>3. QED  BY <4>1, <4>2
    <3>3. QED  BY <1>2, <2>3, <3>1, <3>2 DEF OpenLevel
  <2>4. pc' # "new" /\ (pc' = "levels" => level' = {})  BY <1>2 DEF OpenLevel
  <2>5. QED  BY <1>s, <2>2, <2>3, <2>4 DEF Behind
<1>3. CASE CloseLevel
  <2>1. ASSUME pc' = "levels", NEW p \in Active, p \notin left' PROVE Settled(p)'
    <3>1. CASE p \in level
      <4>1. PICK r \in results : r.step = p  BY <1>3, <3>1 DEF CloseLevel, Reported
      <4>2. r.st # "waiting"
        <5>1. p \in Steps  BY <2>1 DEF Active
        <5>2. QED  BY <1>3, <2>1, <4>1, <5>1 DEF CloseLevel, Of
      <4>3. QED  BY <1>3, <4>1, <4>2 DEF CloseLevel, Settled
    <3>2. CASE p \notin level
      <4>1. Settled(p)  BY <1>3, <2>1, <3>2 DEF CloseLevel, Behind
      <4>2. ctx'.skip = ctx.skip  BY <1>3 DEF CloseLevel, TypeOK, Context
      <4>3. QED  BY <1>3, <4>1, <4>2 DEF CloseLevel, Settled
    <3>3. QED  BY <3>1, <3>2
  <2>2. QED  BY <1>3, <1>s, <2>1 DEF CloseLevel, Behind
<1>4. ASSUME NEW s \in Steps, StepNext(s) PROVE Behind'
  <2>1. ctx'.skip = ctx.skip
    BY <1>4 DEF StepNext, SkipOver, RunFine, RunFails, RunWaits, FanInTooLarge, TypeOK, Context
  <2>2. UNCHANGED <<pc, left, level, records>>
    BY <1>4 DEF StepNext, SkipOver, RunFine, RunFails, RunWaits, FanInTooLarge, Report
  <2>3. QED  BY <1>s, <2>1, <2>2 DEF Behind, Settled
<1>5. ASSUME NEW w \in flow.waits, Resume(w) PROVE Behind'
  BY <1>5, <1>s DEF Resume, Behind
<1>6. CASE UNCHANGED vars  BY <1>6, <1>s DEF vars, Behind, Settled
<1>7. QED  BY <1>1, <1>2, <1>3, <1>4, <1>5, <1>6 DEF Next, Progress

\* No step starts before each of its active parents is settled, whatever the graph and
\* however often the run is suspended.
THEOREM Ordered == Spec => []SettledFirst
<1>1. Init => Behind  BY DEF Init, Behind
<1>2. Behind => SettledFirst
  <2> SUFFICES ASSUME Behind, pc = "level", NEW s \in level, NEW p \in Parents(s)
      PROVE p \in ctx.skip \/ \E r \in records : r.step = p /\ r.st # "waiting"
    BY DEF SettledFirst
  <2>1. p \in Active /\ p \notin left /\ p \notin level  BY DEF Behind, Parents
  <2>2. QED  BY <2>1 DEF Behind, Settled
<1>3. QED  BY <1>1, <1>2, Typed, BehindStep, PTL DEF Spec

-------------------------------------------------------------------------------
(* Failures: what a recorded failure stops is in the context before the next    *)
(* level opens.                                                                 *)
Stopped ==
    \A f \in Of(records, "failed") :
        /\ flow.policy = "abort" => Descendants(f) \subseteq ctx.doomed
        /\ flow.policy = "abort_all" => ctx.aborted

Cleared == pc = "level" => level \cap ctx.doomed = {} /\ ~ctx.aborted

LEMMA StoppedStep == TypeOK /\ Stopped /\ Cleared /\ [Next]_vars => Stopped' /\ Cleared'
<1> SUFFICES ASSUME TypeOK, Stopped, Cleared, [Next]_vars PROVE Stopped' /\ Cleared'  OBVIOUS
<1>f. flow' = flow
  BY DEF Next, Progress, StepNext, Start, Refuse, OpenLevel, SkipOver, RunFine, RunFails,
         RunWaits, FanInTooLarge, Report, CloseLevel, PipelineRaises, EndLevels, Persist,
         Verdict, Timeout, Exceed, Resume, vars
<1>d. \A s : Descendants(s)' = Descendants(s)
  BY <1>f DEF Descendants, Children, Edges
<1>1. CASE UNCHANGED <<records, ctx>> /\ (pc' = "level" => UNCHANGED <<pc, level>>)
  BY <1>1, <1>f, <1>d DEF Stopped, Cleared, Of
<1>2. CASE OpenLevel
  <2>1. Of(records', "failed") = Of(records, "failed")
    BY <1>2 DEF OpenLevel, Of, Record
  <2>2. Stopped'
    BY <1>2, <1>f, <1>d, <2>1 DEF OpenLevel, Stopped, Of
  <2>3. Cleared'
    BY <1>2 DEF OpenLevel, Cleared, ToRun, Halted
  <2>4. QED  BY <2>2, <2>3
<1>3. CASE CloseLevel
  <2> DEFINE new == Of(results, "failed")
  <2>1. Of(records', "failed") = Of(records, "failed") \cup new
    BY <1>3 DEF CloseLevel, Of
  <2>2. ctx'.doomed = ctx.doomed \cup ReachOf(new)
    BY <1>3 DEF CloseLevel, TypeOK, Context
  <2>3. ctx'.aborted = (ctx.aborted \/ StopsAll(new))
    BY <1>3 DEF CloseLevel, TypeOK, Context
  <2>4. ASSUME NEW f \in Of(records', "failed"), flow.policy = "abort"
        PROVE  Descendants(f) \subseteq ctx'.doomed
    BY <2>1, <2>2, <2>4 DEF Stopped, ReachOf
  <2>5. ASSUME NEW f \in Of(records', "failed"), flow.policy = "abort_all"
        PROVE  ctx'.aborted
    BY <2>1, <2>3, <2>5 DEF Stopped, StopsAll
  <2>6. Stopped'  BY <1>f, <1>d, <2>4, <2>5 DEF Stopped, Of
  <2>7. Cleared'  BY <1>3 DEF CloseLevel, Cleared
  <2>8. QED  BY <2>6, <2>7
<1>4. ASSUME NEW s \in Steps, StepNext(s) PROVE Stopped' /\ Cleared'
  <2>1. ctx'.doomed = ctx.doomed /\ ctx'.aborted = ctx.aborted
    BY <1>4 DEF StepNext, SkipOver, RunFine, RunFails, RunWaits, FanInTooLarge, TypeOK, Context
  <2>2. UNCHANGED <<pc, level, records>>
    BY <1>4 DEF StepNext, SkipOver, RunFine, RunFails, RunWaits, FanInTooLarge, Report
  <2>3. QED  BY <1>f, <1>d, <2>1, <2>2 DEF Stopped, Cleared, Of
<1>5. ASSUME NEW w \in flow.waits, Resume(w) PROVE Stopped' /\ Cleared'
  BY <1>5 DEF Resume, Stopped, Cleared, Of
<1>6. CASE Start \/ Refuse \/ PipelineRaises \/ EndLevels \/ Persist \/ Verdict \/ Timeout
           \/ Exceed \/ UNCHANGED vars
  BY <1>1, <1>6 DEF Start, Refuse, PipelineRaises, EndLevels, Persist, Verdict, Timeout, Exceed, vars
<1>7. QED  BY <1>2, <1>3, <1>4, <1>5, <1>6 DEF Next, Progress

\* fail_policy holds on every graph: downstream of a failure ("abort"), or after it
\* ("abort_all"), nothing runs.
THEOREM Contained == Spec => []FailureStops
<1>1. Init => Stopped /\ Cleared  BY DEF Init, Stopped, Cleared, Of
<1>2. Stopped /\ Cleared => FailureStops
  BY DEF Stopped, Cleared, FailureStops
<1>3. QED  BY <1>1, <1>2, Typed, StoppedStep, PTL DEF Spec

-------------------------------------------------------------------------------
(* Skips: what dooms a step is a disabled ancestor or a recorded failure, and   *)
(* what the breaker skips inside a level shows in the context.                  *)
Downstream == {s \in Steps : /\ flow.policy = "abort"
                             /\ \E f \in Of(records, "failed") : s \in Descendants(f)}
Caused ==
    /\ ctx.doomed \subseteq Poisoned \cup Downstream
    /\ Of(results, "skipped") # {} => ctx.tripped
    /\ Of(records, "skipped") # {} => Halted \/ Of(records, "skipped") \subseteq Poisoned \cup Downstream

LEMMA CausedStep == TypeOK /\ Caused /\ [Next]_vars => Caused'
<1> SUFFICES ASSUME TypeOK, Caused, [Next]_vars PROVE Caused'  OBVIOUS
<1>f. flow' = flow
  BY DEF Next, Progress, StepNext, Start, Refuse, OpenLevel, SkipOver, RunFine, RunFails,
         RunWaits, FanInTooLarge, Report, CloseLevel, PipelineRaises, EndLevels, Persist,
         Verdict, Timeout, Exceed, Resume, vars
<1>d. Poisoned' = Poisoned /\ \A s : Descendants(s)' = Descendants(s)
  BY <1>f DEF Poisoned, Descendants, Children, Edges
<1>1. ASSUME UNCHANGED <<records, ctx, results>> PROVE Caused'
  BY <1>1, <1>f, <1>d DEF Caused, Downstream, Of, Halted
<1>2. CASE OpenLevel
  <2>1. Of(records', "failed") = Of(records, "failed")
    BY <1>2 DEF OpenLevel, Of, Record
  <2>2. Downstream' = Downstream
    BY <1>f, <1>d, <2>1 DEF Downstream, Of
  <2>3. Of(records', "skipped") \subseteq Of(records, "skipped") \cup ToSkip(Frontier)
    BY <1>2 DEF OpenLevel, Of, Record
  <2>4. ~Halted => ToSkip(Frontier) \subseteq ctx.doomed  BY DEF ToSkip
  <2>5. UNCHANGED <<ctx, results>>  BY <1>2 DEF OpenLevel
  <2>6. QED  BY <1>d, <2>2, <2>3, <2>4, <2>5 DEF Caused, Halted, Of
<1>3. CASE CloseLevel
  <2> DEFINE new == Of(results, "failed")
  <2>1. \A st : Of(records', st) = Of(records, st) \cup Of(results, st)
    BY <1>3 DEF CloseLevel, Of
  <2>2. /\ ctx'.doomed = ctx.doomed \cup ReachOf(new)
        /\ ctx'.aborted = (ctx.aborted \/ StopsAll(new))
        /\ ctx'.tripped = (ctx.tripped \/ over)
    BY <1>3 DEF CloseLevel, TypeOK, Context
  <2>3. Downstream \cup ReachOf(new) \subseteq Downstream'
    BY <1>f, <1>d, <2>1, StepSets DEF Downstream, ReachOf, Of
  <2>4. ctx'.doomed \subseteq Poisoned' \cup Downstream'
    BY <1>d, <2>2, <2>3 DEF Caused
  <2>5. Halted => Halted'  BY <2>2 DEF Halted
  <2>6. Of(results, "skipped") # {} => Halted'  BY <2>2 DEF Caused, Halted
  <2>7. Of(results', "skipped") = {}  BY <1>3 DEF CloseLevel, Of
  <2>8. Of(records', "skipped") # {} =>
          Halted' \/ Of(records', "skipped") \subseteq Poisoned' \cup Downstream'
    BY <1>d, <2>1, <2>3, <2>5, <2>6 DEF Caused
  <2>9. QED  BY <2>4, <2>7, <2>8 DEF Caused, Of
<1>4. ASSUME NEW s \in Steps, StepNext(s) PROVE Caused'
  <2>1. records' = records  BY <1>4 DEF StepNext, SkipOver, RunFine, RunFails, RunWaits,
                                        FanInTooLarge, Report
  <2>2. Downstream' = Downstream /\ \A st : Of(records', st) = Of(records, st)
    BY <1>f, <1>d, <2>1 DEF Downstream, Of
  <2>3. CASE SkipOver(s)
    <3>1. ctx'.doomed = ctx.doomed /\ ctx'.tripped  BY <2>3 DEF SkipOver, TypeOK, Context
    <3>2. QED  BY <1>d, <2>2, <3>1 DEF Caused, Halted
  <2>4. CASE ~SkipOver(s)
    <3>1. ctx' = ctx /\ Of(results', "skipped") = Of(results, "skipped")
      BY <1>4, <2>4 DEF StepNext, RunFine, RunFails, RunWaits, FanInTooLarge, Report, Of, Record
    <3>2. QED  BY <1>d, <2>1, <2>2, <3>1 DEF Caused, Halted, Of
  <2>5. QED  BY <2>3, <2>4
<1>5. ASSUME NEW w \in flow.waits, Resume(w) PROVE Caused'
  <2>1. ctx'.doomed = Poisoned'  BY <1>5, <1>d DEF Resume, FreshContext
  <2>2. Of(records', "skipped") = {} /\ Of(results', "skipped") = {}  BY <1>5 DEF Resume, Of
  <2>3. QED  BY <2>1, <2>2 DEF Caused, Of
<1>6. CASE Start \/ Refuse \/ PipelineRaises \/ EndLevels \/ Persist \/ Verdict \/ Timeout
           \/ Exceed \/ UNCHANGED vars
  BY <1>1, <1>6 DEF Start, Refuse, PipelineRaises, EndLevels, Persist, Verdict, Timeout, Exceed, vars
<1>7. QED  BY <1>2, <1>3, <1>4, <1>5, <1>6 DEF Next, Progress

LEMMA CausedInit == Init => Caused
<1> SUFFICES ASSUME Init PROVE Caused  OBVIOUS
<1>1. ctx.doomed = Poisoned  BY DEF Init, FreshContext
<1>2. QED  BY <1>1 DEF Init, Caused, Of

\* On every graph a skipped step has a cause: the breaker, abort_all, a failure upstream
\* under "abort", or disabled ancestors.
THEOREM Justified == Spec => []SkippedForCause
<1>1. Caused => SkippedForCause  BY DEF Caused, SkippedForCause, Downstream, Of
<1>2. QED  BY <1>1, Typed, CausedInit, CausedStep, PTL DEF Spec

-------------------------------------------------------------------------------
(* Verdicts: rows and records of success are successes, a pass that ends has    *)
(* settled every active step or waits, and abort_all has a failure to show.     *)
Earned ==
    /\ Of(records, "success") \subseteq good /\ Of(results, "success") \subseteq good
    /\ Of(journal, "success") \subseteq good /\ ctx.skip \subseteq good
    /\ ctx.aborted => Of(records, "failed") # {}

LEMMA EarnedStep == TypeOK /\ Earned /\ [Next]_vars => Earned'
<1> SUFFICES ASSUME TypeOK, Earned, [Next]_vars PROVE Earned'  OBVIOUS
<1>1. ASSUME UNCHANGED <<records, results, journal, ctx, good>> PROVE Earned'
  BY <1>1 DEF Earned, Of
<1>2. CASE OpenLevel
  <2>1. /\ Of(records', "success") = Of(records, "success")
        /\ Of(records', "failed") = Of(records, "failed")
    BY <1>2 DEF OpenLevel, Of, Record
  <2>2. UNCHANGED <<results, journal, ctx, good>>  BY <1>2 DEF OpenLevel
  <2>3. QED  BY <2>1, <2>2 DEF Earned, Of
<1>w. ASSUME NEW recs \in SUBSET Records, Write(recs), Of(recs, "success") \subseteq good, good' = good
      PROVE  Of(journal', "success") \subseteq good'
  BY <1>w DEF Write, Journal, Earned, Of
<1>3. CASE CloseLevel
  <2>1. \A st : Of(records', st) = Of(records, st) \cup Of(results, st)
    BY <1>3 DEF CloseLevel, Of
  <2>2. /\ ctx'.skip = ctx.skip
        /\ ctx'.aborted = (ctx.aborted \/ StopsAll(Of(results, "failed")))
    BY <1>3 DEF CloseLevel, TypeOK, Context
  <2>3. Of(results', "success") = {} /\ good' = good  BY <1>3 DEF CloseLevel, Of
  <2>4. Of(journal', "success") \subseteq good'
    <3>1. records' \in SUBSET Records
      BY <1>3, TypedStep DEF TypeOK
    <3>2. Of(records', "success") \subseteq good  BY <2>1 DEF Earned
    <3>3. QED  BY <1>3, <1>w, <2>3, <3>1, <3>2 DEF CloseLevel, Earned
  <2>5. ctx'.aborted => Of(records', "failed") # {}
    BY <2>1, <2>2 DEF Earned, StopsAll
  <2>6. Of(records', "success") \subseteq good' /\ ctx'.skip \subseteq good'
    BY <2>1, <2>2, <2>3 DEF Earned
  <2>7. QED  BY <2>3, <2>4, <2>5, <2>6 DEF Earned, Of
<1>4. ASSUME NEW s \in Steps, StepNext(s) PROVE Earned'
  <2>1. records' = records /\ journal' = journal
    BY <1>4 DEF StepNext, SkipOver, RunFine, RunFails, RunWaits, FanInTooLarge, Report
  <2>2. ctx'.skip = ctx.skip /\ ctx'.aborted = ctx.aborted
    BY <1>4 DEF StepNext, SkipOver, RunFine, RunFails, RunWaits, FanInTooLarge, TypeOK, Context
  <2>3. good \subseteq good' /\ Of(results', "success") \subseteq good'
    BY <1>4 DEF StepNext, SkipOver, RunFine, RunFails, RunWaits, FanInTooLarge, Report, Of, Record,
                Earned
  <2>4. QED  BY <2>1, <2>2, <2>3 DEF Earned, Of
<1>5. CASE Persist
  <2>1. UNCHANGED <<records, results, ctx, good>>  BY <1>5 DEF Persist
  <2>2. Of(journal', "success") \subseteq good'
    BY <1>5, <1>w, <2>1 DEF Persist, Earned, TypeOK
  <2>3. QED  BY <2>1, <2>2 DEF Earned, Of
<1>6. ASSUME NEW w \in flow.waits, Resume(w) PROVE Earned'
  <2>1. Of(Answered(w), "success") \subseteq Of(journal, "success") \cup {w}
    BY DEF Answered, Of, TypeOK, Records
  <2>2. ctx'.skip = Of(journal', "success") \cup {w} /\ ~ctx'.aborted
    BY <1>6 DEF Resume, FreshContext, SkipIds
  <2>3. Of(records', "success") = {} /\ Of(results', "success") = {}  BY <1>6 DEF Resume, Of
  <2>4. journal' = Answered(w) /\ good' = good \cup {w}  BY <1>6 DEF Resume
  <2>5. Of(journal', "success") \subseteq good'  BY <2>1, <2>4 DEF Earned
  <2>6. QED  BY <2>2, <2>3, <2>4, <2>5 DEF Earned, Of
<1>7. CASE Start \/ Refuse \/ PipelineRaises \/ EndLevels \/ Verdict \/ Timeout
           \/ Exceed \/ UNCHANGED vars
  BY <1>1, <1>7 DEF Start, Refuse, PipelineRaises, EndLevels, Verdict, Timeout, Exceed, vars
<1>8. QED  BY <1>2, <1>3, <1>4, <1>5, <1>6, <1>7 DEF Next, Progress

Covered ==
    pc \in {"persist", "verdict"} =>
        Of(records, "waiting") # {} \/ \A p \in Active : Settled(p)

LEMMA CoveredStep == TypeOK /\ Behind /\ Covered /\ [Next]_vars => Covered'
<1> SUFFICES ASSUME TypeOK, Behind, Covered, [Next]_vars PROVE Covered'  OBVIOUS
<1>1. CASE EndLevels
  <2>1. \A p \in Active : Settled(p)  BY <1>1 DEF EndLevels, Behind
  <2>2. QED  BY <1>1, <2>1 DEF EndLevels, Covered, Settled, Active
<1>2. CASE CloseLevel
  <2>1. Of(records', "waiting") = Of(records, "waiting") \cup Of(results, "waiting")
    BY <1>2 DEF CloseLevel, Of
  <2>2. QED  BY <1>2, <2>1 DEF CloseLevel, Covered, Of
<1>3. CASE Persist
  BY <1>3 DEF Persist, Covered, Settled, Active, Of
<1>4. CASE UNCHANGED vars
  BY <1>4 DEF vars, Covered, Settled, Active, Of
<1>5. ASSUME NEW s \in Steps, StepNext(s) PROVE Covered'
  BY <1>5 DEF StepNext, SkipOver, RunFine, RunFails, RunWaits, FanInTooLarge, Runs, Open, Report,
              Covered
<1>6. CASE Start \/ Refuse \/ OpenLevel \/ PipelineRaises \/ Verdict \/ Timeout \/ Exceed
           \/ \E w \in flow.waits : Resume(w)
  <2>1. pc' \notin {"persist", "verdict"}
    BY <1>6 DEF Start, Refuse, OpenLevel, PipelineRaises, Verdict, Timeout, Exceed, Resume
  <2>2. QED  BY <2>1 DEF Covered
<1>7. QED  BY <1>1, <1>2, <1>3, <1>4, <1>5, <1>6 DEF Next, Progress

LEMMA VerdictStep ==
    TypeOK /\ Caused /\ Earned /\ Covered /\ HonestVerdict /\ [Next]_vars => HonestVerdict'
<1> SUFFICES ASSUME TypeOK, Caused, Earned, Covered, HonestVerdict, [Next]_vars
    PROVE HonestVerdict'
  OBVIOUS
<1>f. flow' = flow
  BY DEF Next, Progress, StepNext, Start, Refuse, OpenLevel, SkipOver, RunFine, RunFails,
         RunWaits, FanInTooLarge, Report, CloseLevel, PipelineRaises, EndLevels, Persist,
         Verdict, Timeout, Exceed, Resume, vars
<1>d. Poisoned' = Poisoned /\ Active' = Active
  BY <1>f DEF Poisoned, Active, Edges
<1>1. CASE Verdict
  <2>1. exec'.st = Outcome /\ UNCHANGED <<ctx, good>>  BY <1>1 DEF Verdict, TypeOK
  <2>2. Of(Evidence, "success") \subseteq good  BY DEF Evidence, Of, Earned
  <2>3. exec'.st = "partial" => good' \cap flow'.sinks # {}
    BY <1>f, <2>1, <2>2 DEF Outcome, Delivered
  <2>4. ASSUME exec'.st = "success", ~ctx.tripped, NEW p \in Active, p \notin Poisoned
        PROVE  p \in good
    <3>1. Of(Evidence, "waiting") = {} /\ Of(Evidence, "failed") = {}
      BY <2>1, <2>4 DEF Outcome
    <3>2. Of(records, "waiting") = {} /\ Of(records, "failed") = {}
      BY <3>1 DEF Evidence, Of
    <3>3. Settled(p)  BY <1>1, <2>4, <3>2 DEF Covered, Verdict
    <3>4. CASE p \in ctx.skip  BY <3>4 DEF Earned
    <3>5. ASSUME NEW r \in records, r.step = p PROVE p \in good
      <4>1. p \in Steps  BY DEF Active
      <4>2. r.st \in {"success", "skipped"}
        BY <3>2, <3>5, <4>1 DEF TypeOK, Records, Of
      <4>3. r.st # "skipped"
        <5>1. SUFFICES ASSUME r.st = "skipped" PROVE FALSE  OBVIOUS
        <5>2. p \in Of(records, "skipped")  BY <3>5, <4>1, <5>1 DEF Of
        <5>3. ~Halted  BY <2>4, <3>2 DEF Halted, Earned
        <5>4. Downstream = {}  BY <3>2 DEF Downstream
        <5>5. QED  BY <2>4, <5>2, <5>3, <5>4 DEF Caused
      <4>4. p \in Of(records, "success")  BY <3>5, <4>1, <4>2, <4>3 DEF Of
      <4>5. QED  BY <4>4 DEF Earned
    <3>6. QED  BY <3>3, <3>4, <3>5 DEF Settled
  <2>5. QED  BY <1>d, <2>1, <2>3, <2>4 DEF HonestVerdict
<1>2. CASE Refuse \/ PipelineRaises \/ Timeout
  <2>1. exec'.st = "failed"  BY <1>2 DEF Refuse, PipelineRaises, Timeout, TypeOK
  <2>2. QED  BY <2>1 DEF HonestVerdict
<1>3. CASE UNCHANGED vars
  BY <1>3, <1>d DEF vars, HonestVerdict
<1>4. CASE Start \/ OpenLevel \/ CloseLevel \/ EndLevels \/ Persist \/ Exceed
           \/ (\E s \in Steps : StepNext(s)) \/ \E w \in flow.waits : Resume(w)
  <2>1. pc' # "stopped"
    BY <1>4 DEF Start, OpenLevel, CloseLevel, EndLevels, Persist, Exceed, Resume, StepNext,
                SkipOver, RunFine, RunFails, RunWaits, FanInTooLarge, Runs, Open, Report
  <2>2. QED  BY <2>1 DEF HonestVerdict
<1>5. QED  BY <1>1, <1>2, <1>3, <1>4 DEF Next, Progress

\* For every workflow and every history of failures and resumptions: "success" means that
\* every step not cut off by a disabled one has succeeded, unless the breaker tripped, and
\* "partial" that a sink has delivered.
THEOREM Honest == Spec => []HonestVerdict
<1>1. Init => Earned /\ Behind /\ Covered /\ HonestVerdict
  <2> SUFFICES ASSUME Init PROVE Earned /\ Behind /\ Covered /\ HonestVerdict  OBVIOUS
  <2>1. ctx.skip = {} /\ ~ctx.aborted  BY DEF Init, FreshContext
  <2>2. QED  BY <2>1 DEF Init, Earned, Behind, Covered, HonestVerdict, Of
<1>2. QED
  BY <1>1, Typed, CausedInit, CausedStep, BehindStep, EarnedStep, CoveredStep, VerdictStep, PTL
     DEF Spec

-------------------------------------------------------------------------------
(* Bookkeeping: the workflow is fixed, a step of a level reports once, and a    *)
(* step has one record at most in a pass.                                       *)
LEMMA Fixed ==
    ASSUME [Next]_vars
    PROVE  /\ flow' = flow
           /\ Active' = Active /\ Poisoned' = Poisoned /\ Waits' = Waits
           /\ Journaled' = Journaled /\ OneWait' = OneWait
           /\ \A s : /\ Parents(s)' = Parents(s) /\ DataParents(s)' = DataParents(s)
                     /\ Children(s)' = Children(s)
<1>f. flow' = flow
  BY DEF Next, Progress, StepNext, Start, Refuse, OpenLevel, SkipOver, RunFine, RunFails,
         RunWaits, FanInTooLarge, Report, CloseLevel, PipelineRaises, EndLevels, Persist,
         Verdict, Timeout, Exceed, Resume, vars
<1>1. Active' = Active /\ Poisoned' = Poisoned
  BY <1>f DEF Active, Poisoned, Edges
<1>2. Waits' = Waits /\ Journaled' = Journaled  BY <1>f DEF Waits, Journaled
<1>3. OneWait' = OneWait  BY <1>2 DEF OneWait
<1>4. \A s : /\ Parents(s)' = Parents(s) /\ DataParents(s)' = DataParents(s)
             /\ Children(s)' = Children(s)
  BY <1>f DEF Parents, DataParents, Children, Active, Edges
<1>5. QED  BY <1>f, <1>1, <1>2, <1>3, <1>4

\* What a step of the open level does when it reports r.
Reports(s, r) ==
    /\ pc = "level" /\ s \in level /\ s \notin Reported /\ r.step = s
    /\ results' = results \cup {r}
    /\ UNCHANGED <<flow, pc, left, level, records, over, journal>>
    /\ r.try = 1 \/ s \in flow.flaky
    /\ exec'.resumed = exec.resumed
    /\ IF r.st = "success" THEN s \notin flow.waits /\ good' = good \cup {s} ELSE good' = good
    /\ IF r.st = "waiting"
       THEN s \in flow.waits /\ exec'.st = "waiting" /\ exec'.ckpt = ctx.out /\ asked' = asked \cup {s}
       ELSE exec' = exec /\ asked' = asked
    /\ IF r.st = "skipped" THEN over /\ ctx'.tripped ELSE ctx' = ctx /\ ~over
    /\ ctx' = [ctx EXCEPT !.tripped = ctx'.tripped]
    /\ r.st = "failed" => s \in flow.flaky
    /\ r.st = "raised" => "fanin" \in flow.risks

LEMMA StepReports ==
    ASSUME TypeOK, NEW s \in Steps, StepNext(s)
    PROVE  \E r \in Records \cup Raised : Reports(s, r)
<1> USE DEF Reports, Report, Open, Runs
<1>1. CASE SkipOver(s)
  <2>1. Record(s, "skipped", 1) \in Records  BY TryType, RecordType
  <2>2. ctx' = [ctx EXCEPT !.tripped = ctx'.tripped] /\ ctx'.tripped
    BY <1>1 DEF SkipOver, TypeOK, Context
  <2>3. Reports(s, Record(s, "skipped", 1))  BY <1>1, <2>2 DEF SkipOver, Record
  <2>4. QED  BY <2>1, <2>3
<1>2. CASE RunFails(s)
  <2>1. Record(s, "failed", LastTry) \in Records  BY TryType, RecordType
  <2>2. ctx' = ctx /\ ctx = [ctx EXCEPT !.tripped = ctx.tripped]
    BY <1>2 DEF RunFails, TypeOK, Context
  <2>3. Reports(s, Record(s, "failed", LastTry))  BY <1>2, <2>2 DEF RunFails, Record
  <2>4. QED  BY <2>1, <2>3
<1>3. CASE FanInTooLarge(s)
  <2> DEFINE r == [step |-> s, st |-> "raised", try |-> 1]
  <2>1. r \in Raised  BY DEF Raised
  <2>2. ctx' = ctx /\ ctx = [ctx EXCEPT !.tripped = ctx.tripped]
    BY <1>3 DEF FanInTooLarge, TypeOK, Context
  <2>3. Reports(s, r)  BY <1>3, <2>2 DEF FanInTooLarge
  <2>4. QED  BY <2>1, <2>3
<1>4. ASSUME NEW a \in Attempts, RunFine(s, a) PROVE \E r \in Records \cup Raised : Reports(s, r)
  <2>1. Record(s, "success", a) \in Records  BY RecordType
  <2>2. ctx' = ctx /\ ctx = [ctx EXCEPT !.tripped = ctx.tripped]
    BY <1>4 DEF RunFine, TypeOK, Context
  <2>3. a = 1 \/ s \in flow.flaky  BY <1>4, RetriesAssumption DEF RunFine, Attempts
  <2>4. Reports(s, Record(s, "success", a))  BY <1>4, <2>2, <2>3 DEF RunFine, Record
  <2>5. QED  BY <2>1, <2>4
<1>5. ASSUME NEW a \in Attempts, RunWaits(s, a) PROVE \E r \in Records \cup Raised : Reports(s, r)
  <2>1. Record(s, "waiting", a) \in Records  BY RecordType
  <2>2. ctx' = ctx /\ ctx = [ctx EXCEPT !.tripped = ctx.tripped]
    BY <1>5 DEF RunWaits, TypeOK, Context
  <2>3. a = 1 \/ s \in flow.flaky  BY <1>5, RetriesAssumption DEF RunWaits, Attempts
  <2>4. exec'.resumed = exec.resumed /\ exec'.st = "waiting" /\ exec'.ckpt = ctx.out
    BY <1>5 DEF RunWaits, TypeOK
  <2>5. Reports(s, Record(s, "waiting", a))  BY <1>5, <2>2, <2>3, <2>4 DEF RunWaits, Record
  <2>6. QED  BY <2>1, <2>5
<1>6. QED  BY <1>1, <1>2, <1>3, <1>4, <1>5 DEF StepNext

Single ==
    /\ pc = "new" => /\ records = {} /\ journal = {} /\ good = {} /\ asked = {}
                     /\ left = {} /\ ~exec.resumed /\ ctx.skip = {}
    /\ \/ pc \in {"new", "levels", "persist", "verdict"}
       \/ pc = "stopped" /\ exec.st # "failed"
       => level = {}
    /\ level \subseteq Active /\ level \cap left = {} /\ level \cap ctx.skip = {}
    /\ \A r \in results : r.step \in level
    /\ \A r \in records : r.step \notin left \cup level
    /\ \A q, r \in results : q.step = r.step => q = r
    /\ \A q, r \in records : q.step = r.step => q = r

LEMMA SingleStep == TypeOK /\ Sorted /\ Single /\ [Next]_vars => Single'
<1> SUFFICES ASSUME TypeOK, Sorted, Single, [Next]_vars PROVE Single'  OBVIOUS
<1>a. Active' = Active  BY Fixed
<1>1. CASE Start
  <2>1. UNCHANGED <<level, results, records, ctx>> /\ pc' = "levels" /\ left' = Active /\ pc = "new"
    BY <1>1 DEF Start
  <2>2. QED  BY <2>1, <1>a DEF Single
<1>2. CASE Refuse \/ EndLevels \/ Persist \/ Verdict \/ Timeout \/ PipelineRaises
  <2>1. UNCHANGED <<level, results, records, left, ctx>> /\ pc' # "new"
    BY <1>2 DEF Refuse, EndLevels, Persist, Verdict, Timeout, PipelineRaises
  <2>2. \/ pc' = "stopped" /\ exec'.st = "failed"
        \/ level = {}
    BY <1>2 DEF Refuse, EndLevels, Persist, Verdict, Timeout, PipelineRaises, TypeOK, Single
  <2>3. pc' \in {"persist", "verdict", "stopped"}
    BY <1>2 DEF Refuse, EndLevels, Persist, Verdict, Timeout, PipelineRaises
  <2>4. QED  BY <1>a, <2>1, <2>2, <2>3 DEF Single
<1>3. CASE Exceed \/ UNCHANGED vars
  BY <1>3, <1>a DEF Exceed, vars, Single
<1>4. CASE OpenLevel
  <2>1. /\ left' = left \ Frontier /\ level' = ToRun(Frontier)
        /\ records' = records \cup {Record(s, "skipped", 1) : s \in ToSkip(Frontier)}
        /\ pc = "levels" /\ pc' = (IF level' = {} THEN "levels" ELSE "level")
        /\ UNCHANGED <<exec, results, ctx>>
    BY <1>4 DEF OpenLevel
  <2>2. level' \subseteq Frontier \ ctx.skip /\ ToSkip(Frontier) \subseteq Frontier
    BY <2>1 DEF ToRun, ToSkip, Halted
  <2>3. Frontier \subseteq left /\ left \subseteq Active  BY DEF Frontier, Sorted
  <2>4. level' \cap ToSkip(Frontier) = {}  BY <2>1 DEF ToRun, ToSkip
  <2>5. results = {} /\ level = {}  BY <2>1 DEF Single
  <2>6. ASSUME NEW r \in records' PROVE r.step \notin left' \cup level'
    <3>1. CASE r \in records  BY <2>1, <2>2, <2>3, <3>1 DEF Single
    <3>2. CASE r \notin records
      <4>1. PICK s \in ToSkip(Frontier) : r = Record(s, "skipped", 1)  BY <2>1, <3>2
      <4>2. QED  BY <2>1, <2>2, <2>4, <4>1 DEF Record
    <3>3. QED  BY <3>1, <3>2
  <2>7. ASSUME NEW q \in records', NEW r \in records', q.step = r.step PROVE q = r
    <3>1. ASSUME NEW p \in records', p \notin records
          PROVE  p.step \in left /\ p = Record(p.step, "skipped", 1)
      <4>1. PICK s \in ToSkip(Frontier) : p = Record(s, "skipped", 1)  BY <2>1, <3>1
      <4>2. QED  BY <2>2, <2>3, <4>1 DEF Record
    <3>2. CASE q \in records /\ r \in records  BY <2>7, <3>2 DEF Single
    <3>3. CASE q \notin records \/ r \notin records
      BY <2>7, <3>1, <3>3 DEF Single
    <3>4. QED  BY <3>2, <3>3
  <2>8. QED  BY <1>a, <2>1, <2>2, <2>3, <2>5, <2>6, <2>7 DEF Single
<1>5. CASE CloseLevel
  <2>1. /\ records' = records \cup results /\ pc = "level" /\ pc' \in {"levels", "persist"}
        /\ level' = {} /\ results' = {} /\ UNCHANGED left
    BY <1>5 DEF CloseLevel
  <2>2. \A q \in results, r \in records : q.step # r.step  BY DEF Single
  <2>3. \A q, r \in records' : q.step = r.step => q = r
    BY <2>1, <2>2 DEF Single
  <2>4. QED  BY <1>a, <2>1, <2>3 DEF Single
<1>6. ASSUME NEW s \in Steps, StepNext(s) PROVE Single'
  <2>1. PICK r \in Records \cup Raised : Reports(s, r)  BY <1>6, StepReports
  <2>2. /\ pc = "level" /\ s \in level /\ r.step = s /\ results' = results \cup {r}
        /\ UNCHANGED <<pc, left, level, records>> /\ ctx'.skip = ctx.skip
    BY <2>1 DEF Reports, TypeOK, Context
  <2>3. \A q \in results : q.step # s  BY <2>1 DEF Reports, Reported
  <2>4. QED  BY <1>a, <2>2, <2>3 DEF Single
<1>7. ASSUME NEW w \in flow.waits, Resume(w) PROVE Single'
  <2>1. level' = {} /\ results' = {} /\ records' = {} /\ pc' = "levels"  BY <1>7 DEF Resume
  <2>2. QED  BY <2>1 DEF Single
<1>8. QED  BY <1>1, <1>2, <1>3, <1>4, <1>5, <1>6, <1>7 DEF Next, Progress

-------------------------------------------------------------------------------
(* Rows: the journal of a first pass is a part of its records, a key has one    *)
(* row, and only a flaky step has a try after the first.                        *)
HasRow(s) == \E q \in journal : q.step = s
Ended == pc = "verdict" \/ (pc = "stopped" /\ exec.st \in {"waiting", "success", "partial"})

Rows ==
    /\ \A q, r \in journal : q.step = r.step /\ q.try = r.try => q = r
    /\ \A r \in records \cup results \cup journal : r.try = 1 \/ r.step \in flow.flaky
    /\ ~exec.resumed => journal \subseteq records /\ ctx.skip = {}
    /\ asked \subseteq Active
    /\ Journaled => \A w \in asked : HasRow(w) \/ \E r \in records \cup results : r.step = w
    /\ Journaled /\ Ended => \A r \in records : \E q \in journal : q.step = r.step /\ q.try = r.try
    /\ Journaled => \A s \in ctx.skip : HasRow(s)

\* Writing keeps the rows there are, adds records only, and one row per key.
LEMMA WriteRows ==
    ASSUME TypeOK, Rows, NEW recs, Write(recs),
           \A q, r \in recs : q.step = r.step => q = r
    PROVE  /\ journal \subseteq journal' /\ journal' \subseteq journal \cup recs
           /\ \A q, r \in journal' : q.step = r.step /\ q.try = r.try => q = r
           /\ Journaled => \A r \in recs : \E q \in journal' : q.step = r.step /\ q.try = r.try
<1>1. CASE UNCHANGED journal /\ ~Journaled
  BY <1>1 DEF Rows
<1>2. CASE journal' = Journal(recs)
  <2>1. journal \subseteq journal' /\ journal' \subseteq journal \cup recs  BY <1>2 DEF Journal
  <2>2. ASSUME NEW q \in journal', NEW r \in journal', q.step = r.step, q.try = r.try PROVE q = r
    <3>1. CASE q \in journal /\ r \in journal  BY <2>2, <3>1 DEF Rows
    <3>2. CASE q \notin journal /\ r \in journal  BY <1>2, <2>2, <3>2 DEF Journal
    <3>3. CASE q \in journal /\ r \notin journal  BY <1>2, <2>2, <3>3 DEF Journal
    <3>4. CASE q \notin journal /\ r \notin journal  BY <2>1, <2>2, <3>4
    <3>5. QED  BY <3>1, <3>2, <3>3, <3>4
  <2>3. ASSUME NEW r \in recs PROVE \E q \in journal' : q.step = r.step /\ q.try = r.try
    <3>1. CASE \E q \in journal : <<q.step, q.try>> = <<r.step, r.try>>  BY <2>1, <3>1
    <3>2. CASE ~ \E q \in journal : <<q.step, q.try>> = <<r.step, r.try>>
      BY <1>2, <3>2 DEF Journal
    <3>3. QED  BY <3>1, <3>2
  <2>4. QED  BY <2>1, <2>2, <2>3
<1>3. QED  BY <1>1, <1>2 DEF Write, Journaled

LEMMA RowsStep == TypeOK /\ Single /\ Rows /\ [Next]_vars => Rows' 
<1> SUFFICES ASSUME TypeOK, Single, Rows, [Next]_vars PROVE Rows'  OBVIOUS
<1>a. flow' = flow /\ Active' = Active /\ Journaled' = Journaled  BY Fixed
<1>1. CASE Start \/ Refuse \/ EndLevels \/ Timeout \/ PipelineRaises \/ Exceed \/ UNCHANGED vars
  <2>1. UNCHANGED <<journal, records, results, ctx, asked>> /\ exec'.resumed = exec.resumed
    BY <1>1 DEF Start, Refuse, EndLevels, Timeout, PipelineRaises, Exceed, vars, TypeOK
  <2>2. Ended' => Ended /\ UNCHANGED <<records, journal>>
    BY <1>1 DEF Ended, Start, Refuse, EndLevels, Timeout, PipelineRaises, Exceed, vars, TypeOK
  <2>3. QED  BY <1>a, <2>1, <2>2 DEF Rows, HasRow
<1>2. CASE OpenLevel
  <2>1. /\ records \subseteq records' /\ UNCHANGED <<journal, results, ctx, asked, exec>> /\ ~Ended'
        /\ \A r \in records' : r \in records \/ r.try = 1
    BY <1>2 DEF OpenLevel, Ended, Record
  <2>2. QED  BY <1>a, <2>1 DEF Rows, HasRow
<1>3. CASE CloseLevel
  <2>1. /\ records' = records \cup results /\ results' = {} /\ UNCHANGED <<asked, exec>> /\ ~Ended'
        /\ ctx'.skip = ctx.skip
    BY <1>3 DEF CloseLevel, Ended, TypeOK, Context
  <2>2. \A q, r \in records' : q.step = r.step => q = r  BY <2>1 DEF Single
  <2>3. CASE UNCHANGED journal
    BY <1>a, <2>1, <2>3 DEF Rows, HasRow
  <2>4. CASE Write(records')
    <3>1. /\ journal \subseteq journal' /\ journal' \subseteq journal \cup records'
          /\ \A q, r \in journal' : q.step = r.step /\ q.try = r.try => q = r
      BY <2>2, <2>4, WriteRows
    <3>2. QED  BY <1>a, <2>1, <3>1 DEF Rows, HasRow
  <2>5. QED  BY <1>3, <2>3, <2>4 DEF CloseLevel
<1>4. CASE Persist
  <2>1. UNCHANGED <<records, results, ctx, asked, exec>>  BY <1>4 DEF Persist
  <2>2. \A q, r \in records : q.step = r.step => q = r  BY DEF Single
  <2>3. /\ journal \subseteq journal' /\ journal' \subseteq journal \cup records
        /\ \A q, r \in journal' : q.step = r.step /\ q.try = r.try => q = r
        /\ Journaled => \A r \in records : \E q \in journal' : q.step = r.step /\ q.try = r.try
    BY <1>4, <2>2, WriteRows DEF Persist
  <2>4. QED  BY <1>a, <2>1, <2>3 DEF Rows, HasRow
<1>5. CASE Verdict
  <2>1. UNCHANGED <<journal, records, results, ctx, asked>> /\ exec'.resumed = exec.resumed /\ Ended
    BY <1>5 DEF Verdict, TypeOK, Ended
  <2>2. QED  BY <1>a, <2>1 DEF Rows, HasRow
<1>6. ASSUME NEW s \in Steps, StepNext(s) PROVE Rows'
  <2>1. PICK r \in Records \cup Raised : Reports(s, r)  BY <1>6, StepReports
  <2>2. /\ results' = results \cup {r} /\ UNCHANGED <<records, journal>> /\ ctx'.skip = ctx.skip
        /\ exec'.resumed = exec.resumed /\ r.step = s /\ s \in level
        /\ asked' \subseteq asked \cup {s}
        /\ r.try = 1 \/ s \in flow.flaky
    BY <2>1 DEF Reports, TypeOK, Context
  <2>3. ~Ended'  BY <2>1 DEF Reports, Ended
  <2>4. s \in Active  BY <2>2 DEF Single
  <2>5. QED  BY <1>a, <2>2, <2>3, <2>4 DEF Rows, HasRow
<1>7. ASSUME NEW w \in flow.waits, Resume(w) PROVE Rows'
  <2>1. /\ w \in asked /\ asked' = asked \ {w} /\ journal' = Answered(w) /\ exec'.resumed
        /\ pc = "stopped" /\ exec.st = "waiting" /\ pc' = "levels" /\ records' = {} /\ results' = {}
        /\ ctx'.skip = Of(journal', "success") \cup {w}
    BY <1>7 DEF Resume, FreshContext, SkipIds, TypeOK
  <2>2. ASSUME NEW r \in journal' PROVE \E q \in journal : q.step = r.step /\ q.try = r.try
                                                /\ (q = r \/ (q.step = w /\ r = [q EXCEPT !.st = "success"]))
    BY <2>1 DEF Answered, TypeOK, Records
  <2>3. ASSUME NEW q \in journal PROVE \E r \in journal' : r.step = q.step /\ r.try = q.try
    <3> DEFINE r == IF q.step = w /\ q.st = "waiting" THEN [q EXCEPT !.st = "success"] ELSE q
    <3>1. r \in journal'  BY <2>1 DEF Answered
    <3>2. r.step = q.step /\ r.try = q.try  BY DEF TypeOK, Records
    <3>3. QED  BY <3>1, <3>2
  <2>4. \A q, r \in journal' : q.step = r.step /\ q.try = r.try => q = r
    BY <2>1 DEF Rows, Answered, TypeOK, Records
  <2>5. results = {} /\ Ended  BY <2>1 DEF Single, Ended
  <2>6. Journaled => \A x \in asked : HasRow(x)'
    BY <2>3, <2>5 DEF Rows, HasRow
  <2>7. ASSUME NEW r \in records' \cup results' \cup journal' PROVE r.try = 1 \/ r.step \in flow'.flaky
    BY <1>a, <2>1, <2>2, <2>7 DEF Rows, TypeOK, Records
  <2>8. Journaled => \A s \in ctx'.skip : HasRow(s)'
    BY <2>1, <2>6 DEF HasRow, Of
  <2>9. ~Ended'  BY <2>1 DEF Ended
  <2>10. QED  BY <1>a, <2>1, <2>4, <2>6, <2>7, <2>8, <2>9 DEF Rows
<1>8. QED  BY <1>1, <1>2, <1>3, <1>4, <1>5, <1>6, <1>7 DEF Next, Progress

LEMMA WholeStep == TypeOK /\ Single /\ Rows /\ Covered /\ JournalWhole /\ [Next]_vars => JournalWhole'
<1> SUFFICES ASSUME TypeOK, Single, Rows, Covered, JournalWhole, [Next]_vars PROVE JournalWhole'
  OBVIOUS
<1>a. flow' = flow /\ Active' = Active /\ Journaled' = Journaled  BY Fixed
<1>1. CASE Verdict
  <2>1. /\ UNCHANGED <<journal, records>> /\ exec'.st = Outcome /\ exec'.resumed = exec.resumed
        /\ pc = "verdict"
    BY <1>1 DEF Verdict, TypeOK
  <2> SUFFICES ASSUME Outcome \in {"success", "partial"}, Journaled, NEW s \in Active,
                      ~(Retries > 0 /\ s \in flow.flaky /\ exec.resumed)
      PROVE  Cardinality({r \in journal : r.step = s}) = 1
    BY <1>a, <2>1 DEF JournalWhole
  <2> DEFINE own == {r \in journal : r.step = s}
  <2>2. \E q \in journal : q.step = s
    <3>1. Of(records, "waiting") = {}  BY DEF Outcome, Evidence, Of
    <3>2. Settled(s)  BY <2>1, <3>1 DEF Covered
    <3>3. QED  BY <2>1, <3>2 DEF Settled, Rows, HasRow, Ended
  <2>3. ASSUME NEW q \in own, NEW r \in own PROVE q = r
    <3>1. CASE ~exec.resumed
      BY <2>3, <3>1 DEF Rows, Single
    <3>2. CASE exec.resumed
      <4>1. q.try = 1 /\ r.try = 1
        <5>1. CASE s \notin flow.flaky  BY <2>3, <5>1 DEF Rows
        <5>2. CASE ~(Retries > 0)
          BY <2>3, <5>2, RetriesAssumption DEF TypeOK, Records, Attempts
        <5>3. QED  BY <3>2, <5>1, <5>2
      <4>2. QED  BY <2>3, <4>1 DEF Rows
    <3>3. QED  BY <3>1, <3>2
  <2>4. PICK q \in journal : q.step = s  BY <2>2
  <2>5. own = {q}  BY <2>3, <2>4
  <2>6. QED  BY <2>5, FS_Singleton
<1>2. CASE Refuse \/ PipelineRaises \/ Timeout
  <2>1. exec'.st = "failed"  BY <1>2 DEF Refuse, PipelineRaises, Timeout, TypeOK
  <2>2. QED  BY <2>1 DEF JournalWhole
<1>3. CASE UNCHANGED vars
  BY <1>3, <1>a DEF vars, JournalWhole
<1>4. CASE Start \/ OpenLevel \/ CloseLevel \/ EndLevels \/ Persist \/ Exceed
           \/ (\E s \in Steps : StepNext(s)) \/ \E w \in flow.waits : Resume(w)
  <2>1. pc' # "stopped"
    BY <1>4 DEF Start, OpenLevel, CloseLevel, EndLevels, Persist, Exceed, Resume, StepNext,
                SkipOver, RunFine, RunFails, RunWaits, FanInTooLarge, Runs, Open, Report
  <2>2. QED  BY <2>1 DEF JournalWhole
<1>5. QED  BY <1>1, <1>2, <1>3, <1>4 DEF Next, Progress

LEMMA FirstState == Init => Sorted /\ Behind /\ Covered /\ Single /\ Rows
<1> SUFFICES ASSUME Init PROVE Sorted /\ Behind /\ Covered /\ Single /\ Rows  OBVIOUS
<1>1. ctx.skip = {}  BY DEF Init, FreshContext
<1>2. QED  BY <1>1 DEF Init, Sorted, Behind, Covered, Single, Rows

\* For every workflow, however often it is suspended and retried: once a verdict is given
\* each active step has exactly one row, a flaky one of a resumed run excepted.
THEOREM Accounted == Spec => []JournalWhole
<1>1. Init => JournalWhole  BY DEF Init, JournalWhole
<1>2. QED
  BY <1>1, FirstState, Typed, SortedStep, BehindStep, CoveredStep, SingleStep, RowsStep, WholeStep,
     PTL DEF Spec

-------------------------------------------------------------------------------
(* Nothing twice: with one suspension and written rows, what has succeeded is   *)
(* a record of this pass or a step that the pass does not run again.            *)
Once ==
    /\ Journaled /\ OneWait =>
        good \subseteq Of(records, "success") \cup Of(results, "success") \cup ctx.skip
    /\ OneWait /\ exec.resumed => asked = {} /\ Waits \subseteq ctx.skip

LEMMA OnlyWait ==
    ASSUME TypeOK, OneWait, NEW v \in Waits, NEW w \in Waits
    PROVE  v = w
<1>1. IsFiniteSet(Waits)
  <2>1. Waits \subseteq Steps  BY DEF TypeOK, FlowType, Waits
  <2>2. QED  BY <2>1, StepsAssumption, FS_Subset
<1>2. Cardinality(Waits) \in Nat /\ Cardinality(Waits) # 0
  BY <1>1, FS_CardinalityType, FS_EmptySet
<1>3. Cardinality(Waits) = 1  BY <1>2 DEF OneWait
<1>4. PICK x : Waits = {x}  BY <1>1, <1>3, FS_Singleton
<1>5. QED  BY <1>4

\* When an execution that has never been resumed waits, its rows are its records.
LEMMA FirstRows ==
    ASSUME TypeOK, Single, Rows, Journaled, Ended, ~exec.resumed
    PROVE  journal = records
<1>1. ASSUME NEW r \in records PROVE r \in journal
  <2>1. PICK q \in journal : q.step = r.step /\ q.try = r.try  BY DEF Rows
  <2>2. QED  BY <2>1 DEF Rows, Single
<1>2. QED  BY <1>1 DEF Rows

LEMMA OnceStep == TypeOK /\ Single /\ Rows /\ Once /\ [Next]_vars => Once'
<1> SUFFICES ASSUME TypeOK, Single, Rows, Once, [Next]_vars PROVE Once'  OBVIOUS
<1>a. Journaled' = Journaled /\ OneWait' = OneWait /\ Waits' = Waits  BY Fixed
<1>1. CASE Start \/ Refuse \/ EndLevels \/ Persist \/ Verdict \/ Timeout \/ PipelineRaises
           \/ Exceed \/ UNCHANGED vars
  <2>1. UNCHANGED <<records, results, ctx, asked, good>> /\ exec'.resumed = exec.resumed
    BY <1>1 DEF Start, Refuse, EndLevels, Persist, Verdict, Timeout, PipelineRaises, Exceed, vars,
                TypeOK
  <2>2. QED  BY <1>a, <2>1 DEF Once, Of
<1>2. CASE OpenLevel
  <2>1. records \subseteq records' /\ UNCHANGED <<results, ctx, asked, exec, good>>
    BY <1>2 DEF OpenLevel
  <2>2. QED  BY <1>a, <2>1 DEF Once, Of
<1>3. CASE CloseLevel
  <2>1. /\ records' = records \cup results /\ UNCHANGED <<asked, exec, good>>
        /\ ctx'.skip = ctx.skip
    BY <1>3 DEF CloseLevel, TypeOK, Context
  <2>2. QED  BY <1>a, <2>1 DEF Once, Of
<1>4. ASSUME NEW s \in Steps, StepNext(s) PROVE Once'
  <2>1. PICK r \in Records \cup Raised : Reports(s, r)  BY <1>4, StepReports
  <2>2. /\ results' = results \cup {r} /\ UNCHANGED records /\ ctx'.skip = ctx.skip
        /\ exec'.resumed = exec.resumed /\ r.step = s /\ s \in level
        /\ asked' = IF r.st = "waiting" THEN asked \cup {s} ELSE asked
        /\ r.st = "waiting" => s \in flow.waits
        /\ good' = IF r.st = "success" THEN good \cup {s} ELSE good
    BY <2>1 DEF Reports, TypeOK, Context
  <2>3. /\ Of(results, "success") \subseteq Of(results', "success")
        /\ Of(records', "success") = Of(records, "success")
        /\ (r.st = "success" => s \in Of(results', "success"))
    BY <2>2 DEF Of
  <2>4. OneWait /\ exec.resumed => r.st # "waiting"
    BY <2>2 DEF Once, Single, Waits, Active
  <2>5. QED  BY <1>a, <2>2, <2>3, <2>4 DEF Once
<1>5. ASSUME NEW w \in flow.waits, Resume(w) PROVE Once'
  <2>1. /\ w \in asked /\ asked' = asked \ {w} /\ journal' = Answered(w) /\ good' = good \cup {w}
        /\ pc = "stopped" /\ exec.st = "waiting"
        /\ ctx'.skip = Of(journal', "success") \cup {w}
    BY <1>5 DEF Resume, FreshContext, SkipIds
  <2>2. ASSUME OneWait PROVE asked = {w} /\ Waits = {w} /\ ~exec.resumed
    <3>1. w \in Waits /\ asked \subseteq Waits
      BY <2>1 DEF Rows, TypeOK, Waits, Active
    <3>2. Waits = {w}  BY <2>2, <3>1, OnlyWait
    <3>3. QED  BY <2>1, <2>2, <3>1, <3>2 DEF Once
  <2>3. ASSUME OneWait, Journaled, NEW s \in good PROVE s \in Of(journal', "success")
    <3>1. results = {} /\ ctx.skip = {} /\ journal = records
      BY <2>1, <2>2, <2>3, FirstRows DEF Single, Rows, Ended
    <3>2. PICK r \in journal : r.step = s /\ r.st = "success"
      BY <2>3, <3>1 DEF Once, Of
    <3>3. r \in journal'  BY <2>1, <3>2 DEF Answered
    <3>4. s \in Steps  BY <2>3 DEF TypeOK
    <3>5. QED  BY <3>2, <3>3, <3>4 DEF Of
  <2>4. QED  BY <1>a, <2>1, <2>2, <2>3 DEF Once
<1>6. QED  BY <1>1, <1>2, <1>3, <1>4, <1>5 DEF Next, Progress

\* For every workflow that suspends once and whose rows are written, whatever fails before
\* or after the suspension: a step that has succeeded never runs again.
THEOREM RunOnce == Spec => []NothingTwice
<1>1. Init => Once  BY DEF Init, Once
<1>2. TypeOK /\ Single /\ Once => NothingTwice
  <2> SUFFICES ASSUME Single, Once, Journaled, OneWait, NEW s \in level \ Reported, s \in good,
                      TypeOK
      PROVE FALSE
    BY DEF NothingTwice
  <2>1. s \in Of(records, "success") \cup Of(results, "success")  BY DEF Once, Single
  <2>2. QED  BY <2>1 DEF Of, Single, Reported
<1>3. QED
  BY <1>1, <1>2, FirstState, Typed, SortedStep, SingleStep, RowsStep, OnceStep, PTL DEF Spec

-------------------------------------------------------------------------------
(* Levels: what is left of the graph when a level opens, in this pass or in     *)
(* another, is one of a chain of sets, each without the frontier of the last.   *)
FrontierOf(L) == {s \in L : Parents(s) \cap L = {}}
Below(L)      == L \ FrontierOf(L)
Closed(C)     == Active \in C /\ \A L \in C : Below(L) \in C
Chain         == {L \in SUBSET Active : \A C \in SUBSET SUBSET Active : Closed(C) => L \in C}

LEMMA ChainClosed ==
    /\ Chain \in SUBSET SUBSET Active /\ Closed(Chain)
    /\ \A C \in SUBSET Chain : Closed(C) => Chain \subseteq C
<1>1. Active \in Chain  BY DEF Chain, Closed
<1>2. ASSUME NEW L \in Chain PROVE Below(L) \in Chain
  <2>1. Below(L) \in SUBSET Active  BY DEF Below, Chain
  <2>2. ASSUME NEW C \in SUBSET SUBSET Active, Closed(C) PROVE Below(L) \in C
    BY <2>2 DEF Chain, Closed
  <2>3. QED  BY <2>1, <2>2 DEF Chain
<1>3. Chain \in SUBSET SUBSET Active  BY DEF Chain
<1>4. ASSUME NEW C \in SUBSET Chain, Closed(C) PROVE Chain \subseteq C
  BY <1>3, <1>4 DEF Chain
<1>5. QED  BY <1>1, <1>2, <1>3, <1>4 DEF Closed

\* Of two sets of the chain, one is the other or comes after it.
Follows(M, L) == M \subseteq Below(L) \/ L \subseteq M
Early(L) == \A M \in Chain : L \subseteq M /\ L # M => L \subseteq Below(M)

LEMMA EarlyFollowed ==
    ASSUME NEW L \in Chain, Early(L)
    PROVE  \A M \in Chain : Follows(M, L)
<1> DEFINE C == {M \in Chain : Follows(M, L)}
<1>1. Active \in C  BY ChainClosed DEF Closed, Follows
<1>2. ASSUME NEW M \in C PROVE Below(M) \in C
  <2>1. Below(M) \in Chain  BY ChainClosed DEF Closed
  <2>2. CASE M \subseteq Below(L)  BY <2>1, <2>2 DEF Follows, Below
  <2>3. CASE L \subseteq M /\ L # M  BY <2>1, <2>3 DEF Follows, Early
  <2>4. CASE L = M  BY <2>1, <2>4 DEF Follows
  <2>5. QED  BY <2>2, <2>3, <2>4 DEF Follows
<1>3. Chain \subseteq C  BY <1>1, <1>2, ChainClosed DEF Closed
<1>4. QED  BY <1>3

LEMMA ChainOrdered == \A L, M \in Chain : Follows(M, L)
<1> DEFINE C == {L \in Chain : Early(L)}
<1>1. Active \in C
  <2>1. \A M \in Chain : M \subseteq Active  BY ChainClosed
  <2>2. QED  BY <2>1, ChainClosed DEF Early, Closed
<1>2. ASSUME NEW L \in C PROVE Below(L) \in C
  <2>1. Below(L) \in Chain  BY ChainClosed DEF Closed
  <2>2. ASSUME NEW M \in Chain, Below(L) \subseteq M, Below(L) # M PROVE Below(L) \subseteq Below(M)
    <3>1. Follows(M, L)  BY EarlyFollowed
    <3>2. CASE M \subseteq Below(L)  BY <2>2, <3>2
    <3>3. CASE L = M  BY <3>3
    <3>4. CASE L \subseteq M /\ L # M
      <4>1. L \subseteq Below(M)  BY <3>4 DEF Early
      <4>2. QED  BY <4>1 DEF Below
    <3>5. QED  BY <3>1, <3>2, <3>3, <3>4 DEF Follows
  <2>3. QED  BY <2>1, <2>2 DEF Early
<1>3. Chain \subseteq C  BY <1>1, <1>2, ChainClosed DEF Closed
<1>4. QED  BY <1>3, EarlyFollowed

\* The sets G that have been done and A that have not are told apart by a level: nothing
\* of G lies after it, nothing of A before it.
Split(G, A) == \E L \in Chain : G \cap Below(L) = {} /\ A \subseteq L

\* When a step of A runs, nothing of G is left to come.
LEMMA SplitPast ==
    ASSUME NEW G, NEW A, Split(G, A), NEW M \in Chain, NEW s \in A \cap FrontierOf(M)
    PROVE  G \cap Below(M) = {}
<1>1. PICK L \in Chain : G \cap Below(L) = {} /\ A \subseteq L  BY DEF Split
<1>2. s \in L /\ s \in M /\ s \notin Below(M)  BY <1>1 DEF FrontierOf, Below
<1>3. M \subseteq L  BY <1>2, ChainOrdered DEF Follows
<1>4. CASE M = L  BY <1>1, <1>4
<1>5. CASE M \subseteq Below(L)  BY <1>1, <1>5 DEF Below
<1>6. QED  BY <1>3, <1>4, <1>5, ChainOrdered DEF Follows

LEMMA ChainFixed ==
    ASSUME [Next]_vars
    PROVE  /\ Chain' = Chain
           /\ \A L : FrontierOf(L)' = FrontierOf(L) /\ Below(L)' = Below(L)
           /\ \A G, A : Split(G, A)' = Split(G, A)
<1>1. \A L : FrontierOf(L)' = FrontierOf(L)  BY Fixed DEF FrontierOf
<1>2. \A L : Below(L)' = Below(L)  BY <1>1 DEF Below
<1>3. \A C : Closed(C)' = Closed(C)  BY <1>2, Fixed DEF Closed
<1>4. Chain' = Chain  BY <1>3, Fixed DEF Chain
<1>5. \A G, A : Split(G, A)' = Split(G, A)  BY <1>2, <1>4 DEF Split
<1>6. QED  BY <1>1, <1>2, <1>4, <1>5

-------------------------------------------------------------------------------
(* abort_all around a suspension: a failure of the resumed pass comes at a      *)
(* level that nothing which has succeeded lies after.                           *)
Done      == good \cup asked
Undone(G) == Active \ (G \cup Poisoned)
AllStops  == Journaled /\ OneWait /\ flow.policy = "abort_all"

\* The open level of a first pass, M being what was left when it opened.
OpenFirst(M) == /\ left = Below(M) /\ FrontierOf(M) \ Poisoned = level
                /\ Undone(Done) \subseteq M
OpenAgain(M) == left = Below(M) /\ level \subseteq FrontierOf(M) \ Poisoned

Chained ==
    /\ pc \in {"levels", "level", "persist", "verdict"} => left \in Chain
    /\ flow.policy = "abort_all" => ctx.doomed = Poisoned
    /\ ctx.aborted => flow.policy = "abort_all"

FirstPass ==
    AllStops /\ ~exec.resumed =>
        /\ Done \cap left = {}
        /\ pc \in {"levels", "level", "persist", "verdict"} \/ (pc = "stopped" /\ exec.st = "waiting")
             => Split(Done, Undone(Done))
        /\ pc = "levels" /\ ~Halted => Undone(Done) \subseteq left
        /\ pc = "level" => \E M \in Chain : OpenFirst(M)

NextPass ==
    AllStops /\ exec.resumed =>
        /\ Split(ctx.skip, Undone(ctx.skip))
        /\ ctx.aborted => left \cap ctx.skip = {}
        /\ pc = "level" => \E M \in Chain : OpenAgain(M)

LEMMA ChainedStep == TypeOK /\ Chained /\ [Next]_vars => Chained'
<1> SUFFICES ASSUME TypeOK, Chained, [Next]_vars PROVE Chained'  OBVIOUS
<1>a. flow' = flow /\ Active' = Active /\ Poisoned' = Poisoned /\ Chain' = Chain
  BY Fixed, ChainFixed
<1>1. CASE Start
  BY <1>1, <1>a, ChainClosed DEF Start, Chained, Closed
<1>2. CASE Refuse \/ EndLevels \/ Persist \/ Verdict \/ Timeout \/ PipelineRaises \/ Exceed
           \/ UNCHANGED vars
  BY <1>2, <1>a DEF Refuse, EndLevels, Persist, Verdict, Timeout, PipelineRaises, Exceed, vars, Chained
<1>3. CASE OpenLevel
  <2>1. left' = Below(left)  BY <1>3 DEF OpenLevel, Below, FrontierOf, Frontier
  <2>2. UNCHANGED ctx /\ pc = "levels"  BY <1>3 DEF OpenLevel
  <2>3. left' \in Chain  BY <2>1, <2>2, ChainClosed DEF Closed, Chained
  <2>4. QED  BY <1>a, <2>2, <2>3 DEF Chained
<1>4. CASE CloseLevel
  <2>1. /\ ctx'.doomed = ctx.doomed \cup ReachOf(Of(results, "failed"))
        /\ ctx'.aborted = (ctx.aborted \/ StopsAll(Of(results, "failed")))
        /\ UNCHANGED left /\ pc = "level"
    BY <1>4 DEF CloseLevel, TypeOK, Context
  <2>2. QED  BY <1>a, <2>1 DEF Chained, ReachOf, StopsAll
<1>5. ASSUME NEW s \in Steps, StepNext(s) PROVE Chained'
  <2>1. PICK r \in Records \cup Raised : Reports(s, r)  BY <1>5, StepReports
  <2>2. UNCHANGED <<pc, left>> /\ ctx'.doomed = ctx.doomed /\ ctx'.aborted = ctx.aborted
    BY <2>1 DEF Reports, TypeOK, Context
  <2>3. QED  BY <1>a, <2>2 DEF Chained
<1>6. ASSUME NEW w \in flow.waits, Resume(w) PROVE Chained'
  <2>1. ctx'.doomed = Poisoned /\ ~ctx'.aborted /\ left' = Active
    BY <1>6 DEF Resume, FreshContext
  <2>2. QED  BY <1>a, <2>1, ChainClosed DEF Chained, Closed
<1>7. QED  BY <1>1, <1>2, <1>3, <1>4, <1>5, <1>6 DEF Next, Progress

LEMMA FirstPassStep ==
    TypeOK /\ Single /\ Rows /\ Caused /\ Earned /\ Chained /\ FirstPass /\ [Next]_vars => FirstPass'
<1> SUFFICES ASSUME TypeOK, Single, Rows, Caused, Earned, Chained, FirstPass, [Next]_vars,
                    AllStops, ~exec'.resumed
    PROVE FirstPass'
  BY Fixed DEF FirstPass, AllStops
<1>a. /\ Active' = Active /\ Poisoned' = Poisoned /\ Chain' = Chain /\ flow' = flow
      /\ \A L : FrontierOf(L)' = FrontierOf(L) /\ Below(L)' = Below(L)
      /\ \A G, A : Split(G, A)' = Split(G, A)
      /\ \A G : Undone(G)' = Undone(G)
  BY Fixed, ChainFixed DEF Undone
<1>1. CASE Start
  <2>1. /\ good' = {} /\ asked' = {} /\ left' = Active /\ pc' = "levels"
    BY <1>1 DEF Start, Single
  <2>2. Done' = {}  BY <2>1 DEF Done
  <2>3. Split({}, Undone({}))  BY ChainClosed DEF Split, Closed, Undone
  <2>4. QED  BY <1>a, <2>1, <2>2, <2>3 DEF FirstPass, Undone
<1>2. CASE Refuse \/ EndLevels \/ Persist \/ Verdict \/ Timeout \/ PipelineRaises
  <2>1. UNCHANGED <<left, good, asked, ctx>> /\ exec'.resumed = exec.resumed
    BY <1>2 DEF Refuse, EndLevels, Persist, Verdict, Timeout, PipelineRaises, TypeOK
  <2>2. pc' \in {"persist", "verdict", "stopped"}
    BY <1>2 DEF Refuse, EndLevels, Persist, Verdict, Timeout, PipelineRaises
  <2>3. pc' # "stopped" \/ exec'.st = "waiting" => pc \in {"levels", "level", "persist", "verdict"}
    BY <1>2 DEF Refuse, EndLevels, Persist, Verdict, Timeout, PipelineRaises, TypeOK
  <2>4. Done' = Done  BY <2>1 DEF Done
  <2>5. QED  BY <1>a, <2>1, <2>2, <2>3, <2>4 DEF FirstPass
<1>3. CASE Exceed \/ UNCHANGED vars
  <2>1. UNCHANGED <<left, level, good, asked, ctx, exec, pc>>  BY <1>3 DEF Exceed, vars
  <2>2. Done' = Done /\ Halted' = Halted /\ \A M : OpenFirst(M)' = OpenFirst(M)
    BY <1>a, <2>1 DEF Done, Halted, OpenFirst
  <2>3. QED  BY <1>a, <2>1, <2>2 DEF FirstPass
<1>4. CASE OpenLevel
  <2>1. /\ left' = Below(left) /\ level' = ToRun(FrontierOf(left)) /\ pc = "levels" 
        /\ pc' = (IF level' = {} THEN "levels" ELSE "level")
        /\ UNCHANGED <<exec, ctx, good, asked>>
    BY <1>4 DEF OpenLevel, Below, FrontierOf, Frontier
  <2>2. left \in Chain /\ left' \subseteq left /\ ctx.doomed = Poisoned
    BY <2>1 DEF Chained, Below, AllStops
  <2>3. Done' = Done /\ Halted' = Halted  BY <2>1 DEF Done, Halted
  <2>4. Done \cap left' = {} /\ Split(Done, Undone(Done))  BY <2>1, <2>2 DEF FirstPass
  <2>5. CASE Halted
    BY <1>a, <2>1, <2>3, <2>4, <2>5 DEF FirstPass, ToRun
  <2>6. CASE ~Halted
    <3>1. level' = FrontierOf(left) \ (ctx.skip \cup Poisoned)  BY <2>1, <2>2, <2>6 DEF ToRun
    <3>2. ctx.skip = {}  BY <2>1 DEF Rows
    <3>3. Undone(Done) \subseteq left  BY <2>1, <2>6 DEF FirstPass
    <3>4. \E M \in Chain : OpenFirst(M)'
      <4>1. PICK M \in Chain : M = left  BY <2>2
      <4>2. OpenFirst(M)'  BY <1>a, <2>1, <2>3, <3>1, <3>2, <3>3, <4>1 DEF OpenFirst
      <4>3. QED  BY <4>2
    <3>5. level' = {} => Undone(Done) \subseteq left'
      BY <2>1, <3>1, <3>2, <3>3 DEF Below, Undone
    <3>6. QED  BY <1>a, <2>1, <2>2, <2>3, <2>4, <3>4, <3>5 DEF FirstPass
  <2>7. QED  BY <2>5, <2>6
<1>5. CASE CloseLevel
  <2>1. /\ UNCHANGED <<left, good, asked, exec>> /\ pc = "level" /\ Reported = level
        /\ Of(results, "raised") = {}
        /\ pc' = IF Of(results, "waiting") = {} THEN "levels" ELSE "persist"
        /\ ctx'.aborted = (ctx.aborted \/ StopsAll(Of(results, "failed")))
        /\ ctx'.tripped = (ctx.tripped \/ over)
    BY <1>5 DEF CloseLevel, TypeOK, Context
  <2>2. PICK M \in Chain : OpenFirst(M)  BY <2>1 DEF FirstPass
  <2>3. Done' = Done  BY <2>1 DEF Done
  <2>4. ASSUME pc' = "levels", ~Halted', NEW n \in Undone(Done), n \notin left PROVE FALSE
    <3>1. n \in level  BY <2>2, <2>4 DEF OpenFirst, Below, Undone
    <3>2. PICK r \in results : r.step = n  BY <2>1, <3>1 DEF Reported
    <3>3. n \in Of(results, r.st)  BY <2>4, <3>2 DEF Of, Undone, Active
    <3>4. r.st \in {"success", "failed", "skipped", "waiting", "raised"}
      BY <3>2 DEF TypeOK, Records, Raised
    <3>5. r.st # "waiting" /\ r.st # "raised"  BY <2>1, <2>4, <3>3
    <3>6. r.st # "success"  BY <2>4, <3>3 DEF Earned, Undone, Done
    <3>7. r.st # "failed"  BY <2>1, <2>4, <3>3 DEF Halted, StopsAll, AllStops
    <3>8. r.st # "skipped"  BY <2>1, <2>4, <3>3 DEF Halted, Caused
    <3>9. QED  BY <3>4, <3>5, <3>6, <3>7, <3>8
  <2>5. QED  BY <1>a, <2>1, <2>3, <2>4 DEF FirstPass
<1>6. ASSUME NEW s \in Steps, StepNext(s) PROVE FirstPass'
  <2>1. PICK r \in Records \cup Raised : Reports(s, r)  BY <1>6, StepReports
  <2>2. /\ UNCHANGED <<pc, left, level>> /\ exec'.resumed = exec.resumed /\ pc = "level" /\ s \in level
        /\ good' \subseteq good \cup {s} /\ asked' \subseteq asked \cup {s}
        /\ good \subseteq good' /\ asked \subseteq asked'
    BY <2>1 DEF Reports
  <2>3. PICK M \in Chain : OpenFirst(M)  BY <2>2 DEF FirstPass
  <2>4. Done \subseteq Done' /\ Done' \cap left = {}
    BY <2>2 DEF Done, FirstPass, Single
  <2>5. Undone(Done') \subseteq Undone(Done)  BY <2>4 DEF Undone
  <2>6. OpenFirst(M)'  BY <1>a, <2>2, <2>3, <2>5 DEF OpenFirst
  <2>7. Split(Done', Undone(Done'))  BY <2>3, <2>4, <2>5 DEF OpenFirst, Split
  <2>8. QED  BY <1>a, <2>2, <2>3, <2>4, <2>6, <2>7 DEF FirstPass
<1>7. ASSUME NEW w \in flow.waits, Resume(w) PROVE FirstPass'
  BY <1>7 DEF Resume, TypeOK
<1>8. QED  BY <1>1, <1>2, <1>3, <1>4, <1>5, <1>6, <1>7 DEF Next, Progress

LEMMA NextPassStep ==
    TypeOK /\ Single /\ Rows /\ Earned /\ Once /\ Chained /\ FirstPass /\ NextPass
        /\ [Next]_vars => NextPass'
<1> SUFFICES ASSUME TypeOK, Single, Rows, Earned, Once, Chained, FirstPass, NextPass,
                    [Next]_vars, AllStops, exec'.resumed
    PROVE NextPass'
  BY Fixed DEF NextPass, AllStops
<1>a. /\ Active' = Active /\ Poisoned' = Poisoned /\ Chain' = Chain /\ flow' = flow
      /\ \A L : FrontierOf(L)' = FrontierOf(L) /\ Below(L)' = Below(L)
      /\ \A G, A : Split(G, A)' = Split(G, A)
      /\ \A G : Undone(G)' = Undone(G)
  BY Fixed, ChainFixed DEF Undone
<1>1. CASE Start
  BY <1>1 DEF Start, Single, TypeOK
<1>2. CASE Refuse \/ EndLevels \/ Persist \/ Verdict \/ Timeout \/ PipelineRaises
  <2>1. UNCHANGED <<left, ctx>> /\ exec'.resumed = exec.resumed /\ pc' # "level"
    BY <1>2 DEF Refuse, EndLevels, Persist, Verdict, Timeout, PipelineRaises, TypeOK
  <2>2. QED  BY <1>a, <2>1 DEF NextPass
<1>3. CASE Exceed \/ UNCHANGED vars
  <2>1. UNCHANGED <<left, level, ctx, exec, pc>>  BY <1>3 DEF Exceed, vars
  <2>2. \A M : OpenAgain(M)' = OpenAgain(M)  BY <1>a, <2>1 DEF OpenAgain
  <2>3. QED  BY <1>a, <2>1, <2>2 DEF NextPass
<1>4. CASE OpenLevel
  <2>1. /\ left' = Below(left) /\ level' = ToRun(FrontierOf(left)) /\ pc = "levels"
        /\ UNCHANGED <<exec, ctx>>
    BY <1>4 DEF OpenLevel, Below, FrontierOf, Frontier
  <2>2. left \in Chain /\ left' \subseteq left /\ level' \subseteq FrontierOf(left) \ Poisoned
    BY <2>1 DEF Chained, Below, AllStops, ToRun
  <2>3. PICK M \in Chain : M = left  BY <2>2
  <2>4. OpenAgain(M)'  BY <1>a, <2>1, <2>2, <2>3 DEF OpenAgain
  <2>5. QED  BY <1>a, <2>1, <2>2, <2>4 DEF NextPass
<1>5. CASE CloseLevel
  <2>1. /\ UNCHANGED <<left, exec>> /\ pc = "level" /\ Reported = level
        /\ ctx'.aborted = (ctx.aborted \/ StopsAll(Of(results, "failed"))) /\ ctx'.skip = ctx.skip
        /\ pc' # "level"
    BY <1>5 DEF CloseLevel, TypeOK, Context
  <2>2. ASSUME Of(results, "failed") # {} PROVE left \cap ctx.skip = {}
    <3>1. PICK M \in Chain : OpenAgain(M)  BY <2>1 DEF NextPass
    <3>2. PICK s \in level : TRUE  BY <2>1, <2>2 DEF Of, Single
    <3>3. s \in Undone(ctx.skip) \cap FrontierOf(M)
      BY <3>1, <3>2 DEF OpenAgain, Single, Undone
    <3>4. ctx.skip \cap Below(M) = {}  BY <2>1, <3>3, SplitPast DEF NextPass
    <3>5. QED  BY <3>1, <3>4 DEF OpenAgain
  <2>3. ctx'.aborted => left' \cap ctx'.skip = {}
    BY <2>1, <2>2 DEF NextPass, StopsAll
  <2>4. QED  BY <1>a, <2>1, <2>3 DEF NextPass
<1>6. ASSUME NEW s \in Steps, StepNext(s) PROVE NextPass'
  <2>1. PICK r \in Records \cup Raised : Reports(s, r)  BY <1>6, StepReports
  <2>2. /\ UNCHANGED <<pc, left, level>> /\ exec'.resumed = exec.resumed
        /\ ctx'.skip = ctx.skip /\ ctx'.aborted = ctx.aborted
    BY <2>1 DEF Reports, TypeOK, Context
  <2>3. \A M : OpenAgain(M)' = OpenAgain(M)  BY <1>a, <2>2 DEF OpenAgain
  <2>4. QED  BY <1>a, <2>2, <2>3 DEF NextPass
<1>7. ASSUME NEW w \in flow.waits, Resume(w) PROVE NextPass'
  <2>1. /\ w \in asked /\ good' = good \cup {w} /\ pc' = "levels" /\ pc = "stopped" /\ exec.st = "waiting"
        /\ journal' = Answered(w) /\ ~ctx'.aborted
        /\ ctx'.skip = Of(journal', "success") \cup {w} /\ results' = {} /\ records' = {}
    BY <1>7 DEF Resume, FreshContext, SkipIds
  <2>2. ~exec.resumed  BY <2>1 DEF Once, AllStops
  <2>3. Split(Done, Undone(Done))  BY <2>1, <2>2 DEF FirstPass
  <2>4. ctx'.skip \subseteq Done
    <3>1. Of(journal', "success") \subseteq Of(journal, "success") \cup {w}
      BY <2>1 DEF Answered, Of, TypeOK, Records
    <3>2. QED  BY <2>1, <3>1 DEF Earned, Done
  <2>5. Done \subseteq ctx'.skip
    <3>1. good' \subseteq ctx'.skip
      <4>1. Once' /\ AllStops'
        BY OnceStep, Fixed DEF AllStops
      <4>2. QED  BY <2>1, <4>1 DEF Once, AllStops, Of
    <3>2. asked \subseteq {w}
      <4>1. asked \subseteq Waits  BY DEF Rows, TypeOK, Waits, Active
      <4>2. QED  BY <2>1, <4>1, OnlyWait DEF AllStops
    <3>3. QED  BY <2>1, <3>1, <3>2 DEF Done
  <2>6. ctx'.skip = Done  BY <2>4, <2>5
  <2>7. QED  BY <1>a, <2>1, <2>3, <2>6 DEF NextPass
<1>8. QED  BY <1>1, <1>2, <1>3, <1>4, <1>5, <1>6, <1>7 DEF Next, Progress

-------------------------------------------------------------------------------
(* Deliveries: what a sink has delivered stays among the evidence of every      *)
(* later verdict.                                                               *)
Undisturbed == flow.risks \subseteq {"breaker"} /\ OneWait

Shown ==
    /\ \A r \in results : r.st = "raised" => "fanin" \in flow.risks
    /\ ~exec.resumed => \A w \in asked : \E r \in records \cup results : r.step = w /\ r.st = "waiting"
    /\ Undisturbed /\ exec.resumed =>
        /\ ctx.skip \subseteq Of(journal, "success")
        /\ ctx.tripped \/ \A r \in records : r.step \notin ctx.skip

LEMMA ShownStep ==
    TypeOK /\ Single /\ Rows /\ Once /\ Chained /\ NextPass /\ Shown /\ [Next]_vars => Shown'
<1> SUFFICES ASSUME TypeOK, Single, Rows, Once, Chained, NextPass, Shown, [Next]_vars PROVE Shown'
  OBVIOUS
<1>a. flow' = flow /\ OneWait' = OneWait /\ Undisturbed' = Undisturbed
  BY Fixed DEF Undisturbed
<1>1. CASE Start \/ Refuse \/ EndLevels \/ Verdict \/ Timeout \/ PipelineRaises \/ Exceed
           \/ UNCHANGED vars
  <2>1. UNCHANGED <<journal, records, results, ctx, asked>> /\ exec'.resumed = exec.resumed
    BY <1>1 DEF Start, Refuse, EndLevels, Verdict, Timeout, PipelineRaises, Exceed, vars, TypeOK
  <2>2. QED  BY <1>a, <2>1 DEF Shown, Of
<1>2. CASE OpenLevel
  <2>1. /\ records' = records \cup {Record(s, "skipped", 1) : s \in ToSkip(Frontier)}
        /\ UNCHANGED <<journal, results, ctx, asked, exec>>
    BY <1>2 DEF OpenLevel
  <2>2. ASSUME Undisturbed, exec.resumed, ~ctx.tripped PROVE ToSkip(Frontier) \cap ctx.skip = {}
    <3>1. CASE ctx.aborted
      <4>1. AllStops  BY <2>2, <3>1 DEF Undisturbed, AllStops, Chained, Journaled
      <4>2. left \cap ctx.skip = {}  BY <2>2, <3>1, <4>1 DEF NextPass
      <4>3. QED  BY <4>2 DEF ToSkip, Frontier
    <3>2. CASE ~ctx.aborted  BY <2>2, <3>2 DEF ToSkip, Halted
    <3>3. QED  BY <3>1, <3>2
  <2>3. \A r \in records' : r \in records \/ r.step \in ToSkip(Frontier)  BY <2>1 DEF Record
  <2>4. QED  BY <1>a, <2>1, <2>2, <2>3 DEF Shown, Of
<1>3. CASE CloseLevel
  <2>1. /\ records' = records \cup results /\ results' = {} /\ UNCHANGED <<asked, exec>>
        /\ ctx'.skip = ctx.skip /\ (ctx.tripped => ctx'.tripped)
        /\ exec.resumed => UNCHANGED journal
    BY <1>3 DEF CloseLevel, TypeOK, Context
  <2>2. \A r \in results : r.step \notin ctx.skip  BY DEF Single
  <2>3. Undisturbed /\ exec.resumed =>
            /\ ctx'.skip \subseteq Of(journal', "success")
            /\ ctx'.tripped \/ \A r \in records' : r.step \notin ctx'.skip
    BY <2>1, <2>2 DEF Shown
  <2>4. QED  BY <1>a, <2>1, <2>3 DEF Shown, Of
<1>4. CASE Persist
  <2>1. UNCHANGED <<records, results, ctx, asked, exec>> /\ journal \subseteq journal'
    BY <1>4 DEF Persist, Write, Journal
  <2>2. QED  BY <1>a, <2>1 DEF Shown, Of
<1>5. ASSUME NEW s \in Steps, StepNext(s) PROVE Shown'
  <2>1. PICK r \in Records \cup Raised : Reports(s, r)  BY <1>5, StepReports
  <2>2. /\ results' = results \cup {r} /\ UNCHANGED <<records, journal>> /\ ctx'.skip = ctx.skip
        /\ exec'.resumed = exec.resumed /\ r.step = s
        /\ asked' = IF r.st = "waiting" THEN asked \cup {s} ELSE asked
        /\ r.st = "raised" => "fanin" \in flow.risks
        /\ (ctx.tripped => ctx'.tripped)
    BY <2>1 DEF Reports, TypeOK, Context
  <2>3. QED  BY <1>a, <2>2 DEF Shown, Of
<1>6. ASSUME NEW w \in flow.waits, Resume(w) PROVE Shown'
  <2>1. /\ w \in asked /\ journal' = Answered(w) /\ exec'.resumed
        /\ pc = "stopped" /\ exec.st = "waiting" /\ records' = {} /\ results' = {}
        /\ ctx'.skip = Of(journal', "success") \cup {w}
    BY <1>6 DEF Resume, FreshContext, SkipIds, TypeOK
  <2>2. ASSUME Undisturbed PROVE w \in Of(journal', "success")
    <3>1. ~exec.resumed  BY <2>1, <2>2 DEF Once, Undisturbed
    <3>2. results = {} /\ journal = records
      BY <2>1, <2>2, <3>1, FirstRows DEF Single, Undisturbed, Journaled, Ended
    <3>3. PICK r \in journal : r.step = w /\ r.st = "waiting"  BY <2>1, <3>1, <3>2 DEF Shown
    <3>4. [r EXCEPT !.st = "success"] \in journal'  BY <2>1, <3>3 DEF Answered
    <3>5. w \in Steps /\ [r EXCEPT !.st = "success"].step = w /\ [r EXCEPT !.st = "success"].st = "success"
      BY <3>3 DEF TypeOK, Records
    <3>6. QED  BY <3>4, <3>5 DEF Of
  <2>3. QED  BY <1>a, <2>1, <2>2 DEF Shown
<1>7. QED  BY <1>1, <1>2, <1>3, <1>4, <1>5, <1>6 DEF Next, Progress

LEMMA DeliveredStep ==
    TypeOK /\ Single /\ Once /\ Rows /\ Shown /\ DeliveredStands /\ [Next]_vars => DeliveredStands'
<1> SUFFICES ASSUME TypeOK, Single, Once, Rows, Shown, DeliveredStands, [Next]_vars
    PROVE DeliveredStands'
  OBVIOUS
<1>a. flow' = flow /\ OneWait' = OneWait  BY Fixed
<1>1. CASE Verdict
  <2>1. /\ UNCHANGED <<ctx, good>> /\ exec'.st = Outcome /\ exec'.resumed = exec.resumed
        /\ pc = "verdict"
    BY <1>1 DEF Verdict, TypeOK
  <2> SUFFICES ASSUME Outcome = "failed", Undisturbed, ~(exec.resumed /\ ctx.tripped),
                      NEW g \in good \cap flow.sinks
      PROVE  FALSE
    BY <1>a, <2>1 DEF DeliveredStands, Undisturbed
  <2>2. results = {}  BY <2>1 DEF Single
  <2>3. g \in Of(records, "success") \cup ctx.skip
    BY <2>2 DEF Once, Undisturbed, Journaled, Of
  <2>4. g \in Of(Evidence, "success")
    <3>1. CASE g \in Of(records, "success")  BY <3>1 DEF Evidence, Of
    <3>2. CASE g \in ctx.skip
      <4>1. exec.resumed  BY <3>2 DEF Rows
      <4>2. g \in Of(journal, "success") /\ \A r \in records : r.step # g
        BY <3>2, <4>1 DEF Shown
      <4>3. PICK q \in journal : q.step = g /\ q.st = "success"  BY <4>2 DEF Of
      <4>4. q \in Evidence  BY <4>1, <4>2, <4>3 DEF Evidence
      <4>5. QED  BY <4>2, <4>3, <4>4 DEF Of
    <3>3. QED  BY <2>3, <3>1, <3>2
  <2>5. Delivered /\ ~NothingRan  BY <2>4 DEF Delivered, NothingRan, Of
  <2>6. QED  BY <2>5 DEF Outcome
<1>2. CASE Refuse
  BY <1>2 DEF Refuse, Single, DeliveredStands
<1>3. CASE PipelineRaises \/ Timeout
  <2>1. ~(flow.risks \subseteq {"breaker"})
    BY <1>3 DEF PipelineRaises, Timeout, Shown, Of
  <2>2. QED  BY <1>a, <2>1 DEF DeliveredStands
<1>4. CASE UNCHANGED vars
  BY <1>4, <1>a DEF vars, DeliveredStands
<1>5. CASE Start \/ OpenLevel \/ CloseLevel \/ EndLevels \/ Persist \/ Exceed
           \/ (\E s \in Steps : StepNext(s)) \/ \E w \in flow.waits : Resume(w)
  <2>1. pc' # "stopped"
    BY <1>5 DEF Start, OpenLevel, CloseLevel, EndLevels, Persist, Exceed, Resume, StepNext,
                SkipOver, RunFine, RunFails, RunWaits, FanInTooLarge, Runs, Open, Report
  <2>2. QED  BY <2>1 DEF DeliveredStands
<1>6. QED  BY <1>1, <1>2, <1>3, <1>4, <1>5 DEF Next, Progress

\* For every workflow that suspends once at most, under each policy and with any failures:
\* an execution is never declared failed once a sink has delivered.
THEOREM Delivers == Spec => []DeliveredStands
<1>1. Init => Once /\ Chained /\ FirstPass /\ NextPass /\ Shown /\ Earned /\ DeliveredStands
  <2> SUFFICES ASSUME Init
      PROVE Once /\ Chained /\ FirstPass /\ NextPass /\ Shown /\ Earned /\ DeliveredStands
    OBVIOUS
  <2>1. ctx.skip = {} /\ ~ctx.aborted /\ ctx.doomed = Poisoned  BY DEF Init, FreshContext
  <2>2. QED
    BY <2>1 DEF Init, Once, Chained, FirstPass, NextPass, Shown, Earned, DeliveredStands, Done, Of
<1>2. QED
  BY <1>1, FirstState, Typed, SortedStep, CausedInit, CausedStep, EarnedStep, SingleStep, RowsStep,
     OnceStep, ChainedStep, FirstPassStep, NextPassStep, ShownStep, DeliveredStep, PTL DEF Spec

-------------------------------------------------------------------------------
(* Inputs: what a step will read is held until it has run, across suspensions   *)
(* when a wait step has its level for itself and no step fails.                 *)
Smooth == Journaled /\ (Waits = {} \/ (flow.flaky = {} /\ \A w \in Waits : Alone(w)))

Passed ==
    /\ ctx.out \subseteq good /\ exec.ckpt \subseteq good
    /\ pc = "new" => ctx.past = {}
    /\ ctx.past \cap (left \cup level) \subseteq ctx.skip
    /\ Poisoned \subseteq ctx.doomed
    /\ pc \in {"levels", "level"} => \A c \in Active \ left : Parents(c) \cap (left \cup level) = {}
    /\ pc = "level" /\ ctx.tripped => results # {}
    /\ \A r \in records \cup results :
        /\ r.st \in {"success", "waiting"} => r.step \notin Poisoned
        /\ r.st = "success" => r.step \notin flow.waits
        /\ r.st = "failed" => r.step \in flow.flaky

LEMMA PassedStep ==
    TypeOK /\ Sorted /\ Single /\ Earned /\ Cleared /\ Passed /\ [Next]_vars => Passed'
<1> SUFFICES ASSUME TypeOK, Sorted, Single, Earned, Cleared, Passed, [Next]_vars PROVE Passed'
  OBVIOUS
<1>a. /\ flow' = flow /\ Active' = Active /\ Poisoned' = Poisoned
      /\ \A c : Parents(c)' = Parents(c)
  BY Fixed
<1>1. CASE Start
  <2>1. /\ UNCHANGED <<good, level, records, results, ctx>> /\ exec'.ckpt = exec.ckpt
        /\ pc' = "levels" /\ left' = Active /\ pc = "new"
    BY <1>1 DEF Start, TypeOK
  <2>2. QED  BY <1>a, <2>1 DEF Passed
<1>2. CASE Refuse \/ EndLevels \/ Persist \/ Verdict \/ Timeout \/ PipelineRaises
  <2>1. /\ UNCHANGED <<good, left, level, records, results, ctx>>
        /\ exec'.ckpt \subseteq exec.ckpt
    BY <1>2 DEF Refuse, EndLevels, Persist, Verdict, Timeout, PipelineRaises, TypeOK
  <2>2. pc' \in {"persist", "verdict", "stopped"}
    BY <1>2 DEF Refuse, EndLevels, Persist, Verdict, Timeout, PipelineRaises
  <2>3. QED  BY <1>a, <2>1, <2>2 DEF Passed
<1>3. CASE Exceed \/ UNCHANGED vars
  BY <1>3, <1>a DEF Exceed, vars, Passed
<1>4. CASE OpenLevel
  <2>1. /\ left' = left \ Frontier /\ level' = ToRun(Frontier)
        /\ records' = records \cup {Record(s, "skipped", 1) : s \in ToSkip(Frontier)}
        /\ pc = "levels" /\ pc' = (IF level' = {} THEN "levels" ELSE "level")
        /\ UNCHANGED <<exec, results, ctx, good>>
    BY <1>4 DEF OpenLevel
  <2>2. level' \subseteq Frontier /\ Frontier \subseteq left /\ level = {}
    BY <2>1 DEF ToRun, Frontier, Single
  <2>3. \A r \in records' : r \in records \/ r.st = "skipped"  BY <2>1 DEF Record
  <2>4. \A c \in Active \ left' : Parents(c) \cap (left' \cup level') = {}
    BY <2>1, <2>2 DEF Passed, Frontier
  <2>5. level' # {} => ~ctx.tripped  BY <2>1 DEF ToRun, Halted
  <2>6. ctx.past \cap (left' \cup level') \subseteq ctx.skip
    BY <2>1, <2>2 DEF Passed
  <2>7. QED  BY <1>a, <2>1, <2>3, <2>4, <2>5, <2>6 DEF Passed
<1>5. CASE CloseLevel
  <2>1. /\ records' = records \cup results /\ results' = {} /\ level' = {} /\ pc' # "level" /\ pc' # "new"
        /\ UNCHANGED <<left, good, exec>> /\ pc = "level"
        /\ ctx'.past = ctx.past \cup level /\ ctx'.skip = ctx.skip
        /\ ctx.doomed \subseteq ctx'.doomed
        /\ ctx'.out \subseteq ctx.out \cup Of(results, "success")
    BY <1>5 DEF CloseLevel, TypeOK, Context, Kept
  <2>2. ctx'.out \subseteq good /\ ctx'.past \cap left \subseteq ctx.skip
    BY <2>1 DEF Passed, Earned, Single
  <2>3. QED  BY <1>a, <2>1, <2>2 DEF Passed
<1>6. ASSUME NEW s \in Steps, StepNext(s) PROVE Passed'
  <2>1. PICK r \in Records \cup Raised : Reports(s, r)  BY <1>6, StepReports
  <2>2. /\ UNCHANGED <<pc, left, level, records>> /\ r.step = s /\ s \in level /\ pc = "level"
        /\ results' = results \cup {r} /\ good \subseteq good'
        /\ ctx'.out = ctx.out /\ ctx'.past = ctx.past /\ ctx'.skip = ctx.skip
        /\ ctx'.doomed = ctx.doomed
        /\ r.st = "success" => s \notin flow.waits
        /\ r.st = "failed" => s \in flow.flaky
    BY <2>1 DEF Reports, TypeOK, Context
  <2>3. exec'.ckpt \subseteq good
    <3>1. exec' = exec \/ exec'.ckpt = ctx.out  BY <2>1 DEF Reports
    <3>2. QED  BY <3>1 DEF Passed
  <2>4. s \notin Poisoned  BY <2>2 DEF Passed, Cleared
  <2>5. QED  BY <1>a, <2>2, <2>3, <2>4 DEF Passed
<1>7. ASSUME NEW w \in flow.waits, Resume(w) PROVE Passed'
  <2>1. /\ good' = good \cup {w} /\ pc' = "levels" /\ left' = Active
        /\ level' = {} /\ results' = {} /\ records' = {} /\ exec'.ckpt = exec.ckpt
        /\ ctx'.past = ctx'.skip /\ ctx'.doomed = Poisoned /\ ctx'.out = exec.ckpt \cup {w}
    BY <1>7 DEF Resume, FreshContext, TypeOK
  <2>2. QED  BY <1>a, <2>1 DEF Passed
<1>8. QED  BY <1>1, <1>2, <1>3, <1>4, <1>5, <1>6, <1>7 DEF Next, Progress

\* A wait step with no active step beside it on its paths has its level for itself.
LEMMA AloneLevel ==
    ASSUME Sorted, Single, Passed, pc = "level",
           NEW w \in level, NEW s \in level, Alone(w)
    PROVE  s = w
<1>1. ASSUME NEW v \in level PROVE After(v) \subseteq left
  <2>1. left \in SUBSET Active  BY DEF Sorted
  <2>2. \A c \in Active : Parents(c) \cap (left \cup {v}) # {} => c \in left
    BY <1>1 DEF Passed
  <2>3. QED  BY <2>1, <2>2 DEF After
<1>2. s \in Active /\ s \notin left /\ w \notin left  BY DEF Single
<1>3. QED  BY <1>1, <1>2 DEF Alone

Clean(q) == q.st \in {"success", "raised"} \/ q.step \in Poisoned \/ (q.st = "waiting" /\ q.step \in asked)

Lasting ==
    /\ good \subseteq Of(records, "success") \cup Of(results, "success") \cup ctx.skip
    /\ ctx.skip \subseteq Of(journal, "success")

Lone ==
    /\ pc \in {"new", "levels"} => asked = {}
    /\ \A v, w \in asked : v = w
    /\ pc = "level" /\ asked # {} => level = asked
    /\ \A w \in asked : \E r \in records \cup results : r.step = w /\ r.st = "waiting"

Unmarked == (~Halted \/ asked # {}) /\ Waits # {} => \A q \in records \cup results \cup journal : Clean(q)

Fed == pc \in {"levels", "level"} =>
    \A p \in good, c \in left \cup level :
        p \in DataParents(c) /\ c \notin ctx.skip \cup Poisoned => p \in ctx.out \cup level

Saved == asked # {} =>
    \A p \in good, c \in Active \ (good \cup asked \cup Poisoned) : p \in DataParents(c) => p \in exec.ckpt

\* When a question is mailed its step is alone in its level and nothing has stopped the pass.
LEMMA WaitsAlone ==
    ASSUME TypeOK, Sorted, Single, Earned, Passed, Smooth,
           NEW s \in Steps, NEW r, Reports(s, r), r.st = "waiting"
    PROVE  /\ level = {s} /\ results = {} /\ ~Halted
           /\ s \in Waits /\ flow.flaky = {}
<1>1. pc = "level" /\ s \in level /\ s \notin Reported /\ s \in flow.waits  BY DEF Reports
<1>2. s \in Waits  BY <1>1 DEF Single, Active, Waits
<1>3. flow.flaky = {} /\ Alone(s)  BY <1>2 DEF Smooth
<1>4. level = {s}  BY <1>1, <1>3, AloneLevel
<1>5. results = {}  BY <1>1, <1>4 DEF Single, Reported
<1>6. ~ctx.tripped  BY <1>1, <1>5 DEF Passed
<1>7. ~ctx.aborted  BY <1>3 DEF Earned, Passed, Of
<1>8. QED  BY <1>2, <1>3, <1>4, <1>5, <1>6, <1>7 DEF Halted

LEMMA SmoothFixed == ASSUME [Next]_vars PROVE Smooth' = Smooth
<1>1. \A s : After(s)' = After(s)  BY Fixed DEF After
<1>2. \A s : Alone(s)' = Alone(s)  BY <1>1, Fixed DEF Alone
<1>3. QED  BY <1>2, Fixed DEF Smooth

LEMMA LoneStep ==
    TypeOK /\ Sorted /\ Single /\ Rows /\ Earned /\ Passed /\ Lone /\ Smooth /\ [Next]_vars => Lone'
<1> SUFFICES ASSUME TypeOK, Sorted, Single, Rows, Earned, Passed, Lone, Smooth, [Next]_vars PROVE Lone'
  OBVIOUS
<1>1. CASE Start \/ Refuse \/ EndLevels \/ Persist \/ Verdict \/ Timeout \/ PipelineRaises \/ Exceed
           \/ UNCHANGED vars
  <2>1. /\ UNCHANGED <<asked, records, results, level>>
        /\ pc' = pc \/ pc' \in {"persist", "verdict", "stopped"} \/ pc = "new"
    BY <1>1 DEF Start, Refuse, EndLevels, Persist, Verdict, Timeout, PipelineRaises, Exceed, vars
  <2>2. QED  BY <2>1 DEF Lone
<1>2. CASE OpenLevel
  <2>1. records \subseteq records' /\ UNCHANGED <<asked, results>> /\ pc = "levels"
    BY <1>2 DEF OpenLevel
  <2>2. QED  BY <2>1 DEF Lone
<1>3. CASE CloseLevel
  <2>1. /\ records' = records \cup results /\ results' = {} /\ UNCHANGED asked /\ pc = "level"
        /\ pc' = IF Of(results, "waiting") = {} THEN "levels" ELSE "persist"
    BY <1>3 DEF CloseLevel
  <2>2. asked # {} => Of(results, "waiting") # {}
    <3>1. SUFFICES ASSUME NEW w \in asked PROVE Of(results, "waiting") # {}  OBVIOUS
    <3>2. PICK r \in records \cup results : r.step = w /\ r.st = "waiting"  BY DEF Lone
    <3>3. w \in level  BY <2>1 DEF Lone
    <3>4. r \in results /\ w \in Steps  BY <3>2, <3>3 DEF Single, Active
    <3>5. QED  BY <3>2, <3>4 DEF Of
  <2>3. QED  BY <2>1, <2>2 DEF Lone
<1>4. ASSUME NEW s \in Steps, StepNext(s) PROVE Lone'
  <2>1. PICK r \in Records \cup Raised : Reports(s, r)  BY <1>4, StepReports
  <2>2. results' = results \cup {r} /\ UNCHANGED <<pc, level, records>> /\ r.step = s
    BY <2>1 DEF Reports
  <2>3. CASE r.st = "waiting"
    <3>1. level = {s}  BY <2>1, <2>3, WaitsAlone
    <3>2. asked' = asked \cup {s} /\ pc = "level"  BY <2>1, <2>3 DEF Reports
    <3>3. asked' = {s}  BY <3>1, <3>2 DEF Lone
    <3>4. QED  BY <2>2, <2>3, <3>1, <3>2, <3>3 DEF Lone
  <2>4. CASE r.st # "waiting"
    <3>1. asked' = asked  BY <2>1, <2>4 DEF Reports
    <3>2. QED  BY <2>2, <3>1 DEF Lone
  <2>5. QED  BY <2>3, <2>4
<1>5. ASSUME NEW w \in flow.waits, Resume(w) PROVE Lone'
  <2>1. w \in asked /\ asked' = asked \ {w}  BY <1>5 DEF Resume
  <2>2. asked' = {}  BY <2>1 DEF Lone
  <2>3. QED  BY <2>2 DEF Lone
<1>6. QED  BY <1>1, <1>2, <1>3, <1>4, <1>5 DEF Next, Progress

LEMMA UnmarkedStep ==
    TypeOK /\ Sorted /\ Single /\ Rows /\ Caused /\ Earned /\ Cleared /\ Passed /\ Lone /\ Unmarked /\ Smooth
        /\ [Next]_vars => Unmarked'
<1> SUFFICES ASSUME TypeOK, Sorted, Single, Rows, Caused, Earned, Cleared, Passed, Lone, Unmarked, Smooth,
                    [Next]_vars, Waits # {}
    PROVE Unmarked'
  BY Fixed DEF Unmarked
<1>a. Poisoned' = Poisoned /\ Waits' = Waits /\ flow.flaky = {}  BY Fixed DEF Smooth
<1>b. Of(records, "failed") = {} /\ Of(results, "failed") = {} /\ ~ctx.aborted
  BY <1>a DEF Passed, Of, Earned
<1>1. CASE Refuse \/ EndLevels \/ Verdict \/ Timeout \/ PipelineRaises \/ Exceed \/ UNCHANGED vars
  <2>1. UNCHANGED <<records, results, journal, ctx, asked>>
    BY <1>1 DEF Refuse, EndLevels, Verdict, Timeout, PipelineRaises, Exceed, vars
  <2>2. QED  BY <1>a, <2>1 DEF Unmarked, Clean, Halted
<1>2. CASE Start
  <2>1. records' = {} /\ results' = {} /\ journal' = {}  BY <1>2 DEF Start, Single
  <2>2. QED  BY <2>1 DEF Unmarked
<1>3. CASE OpenLevel
  <2>1. /\ records' = records \cup {Record(s, "skipped", 1) : s \in ToSkip(Frontier)}
        /\ UNCHANGED <<results, journal, ctx, asked>> /\ asked = {}
    BY <1>3 DEF OpenLevel, Lone
  <2>2. ctx.doomed \subseteq Poisoned  BY <1>b DEF Caused, Downstream
  <2>3. ~Halted => ToSkip(Frontier) \subseteq Poisoned  BY <2>2 DEF ToSkip
  <2>4. \A q \in records' : q \in records \/ q.step \in ToSkip(Frontier)  BY <2>1 DEF Record
  <2>5. QED  BY <1>a, <2>1, <2>3, <2>4 DEF Unmarked, Clean, Halted
<1>4. CASE CloseLevel
  <2>1. /\ records' = records \cup results /\ results' = {} /\ UNCHANGED asked
        /\ (ctx.tripped => ctx'.tripped) 
        /\ journal' \subseteq journal \cup records'
    BY <1>4 DEF CloseLevel, TypeOK, Context, Write, Journal
  <2>2. QED  BY <1>a, <1>b, <2>1 DEF Unmarked, Clean, Halted
<1>5. CASE Persist
  <2>1. UNCHANGED <<records, results, ctx, asked>> /\ journal' \subseteq journal \cup records
    BY <1>5 DEF Persist, Write, Journal
  <2>2. QED  BY <1>a, <2>1 DEF Unmarked, Clean, Halted
<1>6. ASSUME NEW s \in Steps, StepNext(s) PROVE Unmarked'
  <2>1. PICK r \in Records \cup Raised : Reports(s, r)  BY <1>6, StepReports
  <2>2. /\ results' = results \cup {r} /\ UNCHANGED <<journal, records>> /\ r.step = s
        /\ asked \subseteq asked' /\ (ctx.tripped => ctx'.tripped) /\ ctx'.aborted = ctx.aborted
        /\ (asked' # asked => r.st = "waiting") /\ (r.st = "waiting" => s \in asked')
        /\ r.st = "skipped" => ctx'.tripped
        /\ pc = "level" /\ s \in level /\ s \notin Reported
    BY <2>1 DEF Reports, TypeOK, Context
  <2>3. asked # {} => FALSE
    <3>1. SUFFICES ASSUME asked # {} PROVE FALSE  OBVIOUS
    <3>2. PICK w \in asked : w = s  BY <2>2, <3>1 DEF Lone
    <3>3. \E q \in results : q.step = s  BY <2>2, <3>2 DEF Lone, Single
    <3>4. s \in Steps  BY <1>6
    <3>5. QED  BY <2>2, <3>3, <3>4 DEF Reported
  <2>4. r.st # "failed"  BY <1>a, <2>1 DEF Reports
  <2>5. r.st \in {"success", "skipped", "waiting", "raised"}
    BY <2>1, <2>4 DEF Records, Raised
  <2>6. CASE r.st = "waiting"
    <3>1. ~Halted  BY <2>1, <2>6, WaitsAlone
    <3>2. QED  BY <1>a, <2>2, <2>6, <3>1 DEF Unmarked, Clean
  <2>7. CASE r.st # "waiting"
    BY <1>a, <2>2, <2>3, <2>5, <2>7 DEF Unmarked, Clean, Halted
  <2>8. QED  BY <2>6, <2>7
<1>7. ASSUME NEW w \in flow.waits, Resume(w) PROVE Unmarked'
  <2>1. w \in asked /\ asked' = asked \ {w} /\ journal' = Answered(w) /\ records' = {} /\ results' = {}
    BY <1>7 DEF Resume
  <2>2. asked = {w} /\ \A q \in journal : Clean(q)  BY <2>1 DEF Lone, Unmarked
  <2>3. ASSUME NEW q \in journal' PROVE Clean(q)'
    <3>1. PICK p \in journal : q = IF p.step = w /\ p.st = "waiting" THEN [p EXCEPT !.st = "success"] ELSE p
      BY <2>1 DEF Answered
    <3>2. CASE p.step = w /\ p.st = "waiting"
      <4>1. q.st = "success"  BY <3>1, <3>2 DEF TypeOK, Records
      <4>2. QED  BY <4>1 DEF Clean
    <3>3. CASE ~(p.step = w /\ p.st = "waiting")
      BY <1>a, <2>2, <3>1, <3>3 DEF Clean
    <3>4. QED  BY <3>2, <3>3
  <2>4. QED  BY <2>1, <2>3 DEF Unmarked
<1>8. QED  BY <1>1, <1>2, <1>3, <1>4, <1>5, <1>6, <1>7 DEF Next, Progress

LEMMA LastingStep ==
    TypeOK /\ Single /\ Rows /\ Passed /\ Lone /\ Unmarked /\ Lasting /\ Smooth /\ [Next]_vars => Lasting'
<1> SUFFICES ASSUME TypeOK, Single, Rows, Passed, Lone, Unmarked, Lasting, Smooth, [Next]_vars
    PROVE Lasting'
  OBVIOUS
<1>1. CASE Start \/ Refuse \/ EndLevels \/ Verdict \/ Timeout \/ PipelineRaises \/ Exceed
           \/ UNCHANGED vars
  <2>1. UNCHANGED <<records, results, journal, ctx, good>>
    BY <1>1 DEF Start, Refuse, EndLevels, Verdict, Timeout, PipelineRaises, Exceed, vars
  <2>2. QED  BY <2>1 DEF Lasting, Of
<1>2. CASE OpenLevel
  <2>1. records \subseteq records' /\ UNCHANGED <<results, journal, ctx, good>>
    BY <1>2 DEF OpenLevel
  <2>2. QED  BY <2>1 DEF Lasting, Of
<1>3. CASE CloseLevel
  <2>1. /\ records' = records \cup results /\ UNCHANGED good /\ ctx'.skip = ctx.skip
        /\ journal \subseteq journal'
    BY <1>3 DEF CloseLevel, TypeOK, Context, Write, Journal
  <2>2. QED  BY <2>1 DEF Lasting, Of
<1>4. CASE Persist
  <2>1. UNCHANGED <<records, results, ctx, good>> /\ journal \subseteq journal'
    BY <1>4 DEF Persist, Write, Journal
  <2>2. QED  BY <2>1 DEF Lasting, Of
<1>5. ASSUME NEW s \in Steps, StepNext(s) PROVE Lasting'
  <2>1. PICK r \in Records \cup Raised : Reports(s, r)  BY <1>5, StepReports
  <2>2. /\ results' = results \cup {r} /\ UNCHANGED <<records, journal>> /\ ctx'.skip = ctx.skip
        /\ r.step = s /\ good' = IF r.st = "success" THEN good \cup {s} ELSE good
    BY <2>1 DEF Reports, TypeOK, Context
  <2>3. QED  BY <2>2 DEF Lasting, Of
<1>6. ASSUME NEW w \in flow.waits, Resume(w) PROVE Lasting'
  <2>1. /\ w \in asked /\ journal' = Answered(w) /\ good' = good \cup {w}
        /\ pc = "stopped" /\ exec.st = "waiting"
        /\ ctx'.skip = Of(journal', "success") \cup {w}
    BY <1>6 DEF Resume, FreshContext, SkipIds
  <2>2. results = {} /\ Ended /\ Journaled /\ asked = {w} /\ Waits # {} /\ w \in Steps
    BY <2>1 DEF Single, Ended, Smooth, Lone, Rows, TypeOK, Waits, Active
  <2>3. ASSUME NEW s \in Of(journal, "success") PROVE s \in Of(journal', "success")
    <3>1. PICK q \in journal : q.step = s /\ q.st = "success"  BY DEF Of
    <3>2. q \in journal'  BY <2>1, <3>1 DEF Answered
    <3>3. QED  BY <3>1, <3>2 DEF Of
  <2>4. w \in Of(journal', "success")
    <3>1. PICK r \in records : r.step = w /\ r.st = "waiting"  BY <2>1, <2>2 DEF Lone
    <3>2. PICK q \in journal : q.step = w  BY <2>2, <3>1 DEF Rows
    <3>3. w \notin Poisoned  BY <3>1 DEF Passed
    <3>4. q.st \in {"success", "waiting"}
      BY <2>2, <3>2, <3>3 DEF Unmarked, Clean, TypeOK, Records
    <3>5. CASE q.st = "success"  BY <2>2, <2>3, <3>2, <3>5 DEF Of
    <3>6. CASE q.st = "waiting"
      <4>1. [q EXCEPT !.st = "success"] \in journal'  BY <2>1, <3>2, <3>6 DEF Answered
      <4>2. [q EXCEPT !.st = "success"].step = w /\ [q EXCEPT !.st = "success"].st = "success"
        BY <3>2 DEF TypeOK, Records
      <4>3. QED  BY <2>2, <4>1, <4>2 DEF Of
    <3>7. QED  BY <3>4, <3>5, <3>6
  <2>5. ASSUME NEW s \in good PROVE s \in Of(journal', "success")
    <3>1. CASE s \in ctx.skip  BY <2>3, <3>1 DEF Lasting
    <3>2. CASE s \in Of(records, "success")
      <4>1. PICK r \in records : r.step = s /\ r.st = "success"  BY <3>2 DEF Of
      <4>2. PICK q \in journal : q.step = s  BY <2>2, <4>1 DEF Rows
      <4>3. s \notin Poisoned /\ s \notin flow.waits  BY <4>1 DEF Passed
      <4>4. q.st = "success"
        <5>1. s \notin asked  BY <4>3 DEF TypeOK
        <5>2. QED  BY <2>2, <4>2, <4>3, <5>1 DEF Unmarked, Clean, TypeOK, Records
      <4>5. QED  BY <2>3, <3>2, <4>2, <4>4 DEF Of
    <3>3. QED  BY <2>2, <3>1, <3>2 DEF Lasting, Of
  <2>6. QED  BY <2>1, <2>4, <2>5 DEF Lasting
<1>7. QED  BY <1>1, <1>2, <1>3, <1>4, <1>5, <1>6 DEF Next, Progress

LEMMA FedStep ==
    TypeOK /\ Single /\ Rows /\ Earned /\ Passed /\ Lone /\ Lasting /\ Lasting' /\ Saved /\ Fed /\ Smooth
        /\ [Next]_vars => Fed'
<1> SUFFICES ASSUME TypeOK, Single, Rows, Earned, Passed, Lone, Lasting, Lasting', Saved, Fed, Smooth,
                    [Next]_vars
    PROVE Fed'
  OBVIOUS
<1>a. Active' = Active /\ Poisoned' = Poisoned /\ \A c : DataParents(c)' = DataParents(c)
  BY Fixed
<1>1. CASE Start
  BY <1>1 DEF Start, Single, Fed
<1>2. CASE Refuse \/ EndLevels \/ Persist \/ Verdict \/ Timeout \/ PipelineRaises
  <2>1. pc' \in {"persist", "verdict", "stopped"}
    BY <1>2 DEF Refuse, EndLevels, Persist, Verdict, Timeout, PipelineRaises
  <2>2. QED  BY <2>1 DEF Fed
<1>3. CASE Exceed \/ UNCHANGED vars
  BY <1>3, <1>a DEF Exceed, vars, Fed
<1>4. CASE OpenLevel
  <2>1. /\ left' \cup level' \subseteq left /\ level = {} /\ UNCHANGED <<ctx, good>> /\ pc = "levels"
    BY <1>4 DEF OpenLevel, Single, ToRun, Frontier
  <2>2. QED  BY <1>a, <2>1 DEF Fed
<1>5. CASE CloseLevel
  <2>1. /\ level' = {} /\ UNCHANGED <<left, good>> /\ pc = "level" /\ Reported = level
        /\ ctx'.skip = ctx.skip
        /\ ctx'.out = Kept((ctx.out \cup Of(results, "success")) \ Of(results, "failed"), level \cup ctx.past)
    BY <1>5 DEF CloseLevel, TypeOK, Context
  <2>2. ASSUME NEW p \in good, NEW c \in left, p \in DataParents(c), c \notin ctx.skip \cup Poisoned
        PROVE  p \in ctx'.out
    <3>1. p \in Steps /\ c \in Steps  BY <2>2 DEF TypeOK
    <3>2. p \in Of(results, "success") \/ p \notin level
      BY <3>1 DEF Lasting, Single, Of
    <3>3. p \notin Of(results, "failed")
      BY <3>1, <3>2 DEF Single, Of
    <3>4. p \in ctx.out \cup Of(results, "success")
      BY <2>1, <2>2, <3>2 DEF Fed
    <3>5. c \in Children(p)  BY <2>2, <3>1 DEF DataParents, Children, Edges
    <3>6. c \notin level \cup ctx.past  BY <2>2 DEF Single, Passed
    <3>7. QED  BY <2>1, <3>3, <3>4, <3>5, <3>6 DEF Kept
  <2>3. QED  BY <1>a, <2>1, <2>2 DEF Fed
<1>6. ASSUME NEW s \in Steps, StepNext(s) PROVE Fed'
  <2>1. PICK r \in Records \cup Raised : Reports(s, r)  BY <1>6, StepReports
  <2>2. /\ UNCHANGED <<pc, left, level>> /\ ctx'.skip = ctx.skip /\ ctx'.out = ctx.out
        /\ good' \subseteq good \cup {s} /\ s \in level
    BY <2>1 DEF Reports, TypeOK, Context
  <2>3. QED  BY <1>a, <2>2 DEF Fed
<1>7. ASSUME NEW w \in flow.waits, Resume(w) PROVE Fed'
  <2>1. /\ w \in asked /\ good' = good \cup {w} /\ left' = Active /\ level' = {}
        /\ records' = {} /\ results' = {}
        /\ w \in ctx'.skip /\ ctx'.out = exec.ckpt \cup {w}
    BY <1>7 DEF Resume, FreshContext, SkipIds
  <2>2. asked = {w} /\ good' \subseteq ctx'.skip  BY <2>1 DEF Lone, Lasting, Of
  <2>3. QED  BY <1>a, <2>1, <2>2 DEF Fed, Saved
<1>8. QED  BY <1>1, <1>2, <1>3, <1>4, <1>5, <1>6, <1>7 DEF Next, Progress

LEMMA SavedStep ==
    TypeOK /\ Sorted /\ Behind /\ Single /\ Rows /\ Caused /\ Earned /\ Cleared /\ Passed /\ Lone
        /\ Lasting /\ Fed /\ Saved /\ Smooth /\ [Next]_vars => Saved'
<1> SUFFICES ASSUME TypeOK, Sorted, Behind, Single, Rows, Caused, Earned, Cleared, Passed, Lone, Lasting, Fed,
                    Saved, Smooth, [Next]_vars
    PROVE Saved'
  OBVIOUS
<1>a. Active' = Active /\ Poisoned' = Poisoned /\ \A c : DataParents(c)' = DataParents(c)
  BY Fixed
<1>1. CASE Start \/ Refuse \/ OpenLevel \/ CloseLevel \/ EndLevels \/ Persist \/ Timeout \/ PipelineRaises
           \/ Exceed \/ UNCHANGED vars
  <2>1. UNCHANGED <<good, asked>> /\ exec'.ckpt = exec.ckpt
    BY <1>1 DEF Start, Refuse, OpenLevel, CloseLevel, EndLevels, Persist, Timeout, PipelineRaises, Exceed,
                vars, TypeOK
  <2>2. QED  BY <1>a, <2>1 DEF Saved
<1>2. CASE Verdict
  <2>1. UNCHANGED <<good, asked>> /\ pc = "verdict" /\ (Outcome = "waiting" => exec'.ckpt = exec.ckpt)
    BY <1>2 DEF Verdict, TypeOK
  <2>2. asked # {} => Outcome = "waiting"
    <3>1. SUFFICES ASSUME NEW w \in asked PROVE Of(Evidence, "waiting") # {}  BY DEF Outcome
    <3>2. PICK r \in records : r.step = w /\ r.st = "waiting"  BY <2>1 DEF Lone, Single
    <3>3. w \in Steps  BY DEF Rows, Active
    <3>4. QED  BY <3>2, <3>3 DEF Of, Evidence
  <2>3. QED  BY <1>a, <2>1, <2>2 DEF Saved
<1>3. ASSUME NEW s \in Steps, StepNext(s) PROVE Saved'
  <2>1. PICK r \in Records \cup Raised : Reports(s, r)  BY <1>3, StepReports
  <2>2. pc = "level" /\ s \in level /\ s \notin Reported  BY <2>1 DEF Reports
  <2>3. CASE r.st = "waiting"
    <3>1. level = {s} /\ results = {} /\ ~Halted /\ flow.flaky = {}  BY <2>1, <2>3, WaitsAlone
    <3>2. good' = good /\ asked' = asked \cup {s} /\ exec'.ckpt = ctx.out  BY <2>1, <2>3 DEF Reports
    <3>3. ASSUME NEW p \in good, NEW c \in Active, c \notin good \cup {s} \cup Poisoned, p \in DataParents(c)
          PROVE  p \in ctx.out
      <4>1. c \notin ctx.skip  BY <3>3 DEF Earned
      <4>2. s \notin good
        BY <2>2, <3>1 DEF Lasting, Single, Of
      <4>3. CASE c \in left  BY <2>2, <3>1, <3>3, <4>1, <4>2, <4>3 DEF Fed
      <4>4. CASE c \notin left
        <5>1. PICK q \in records : q.step = c /\ q.st # "waiting"
          BY <2>2, <3>1, <3>3, <4>1, <4>4 DEF Behind, Settled
        <5>2. c \in Steps /\ q.st \in {"success", "failed", "skipped"}
          BY <5>1 DEF TypeOK, Records, Active
        <5>3. q.st # "success"  BY <3>3, <5>1, <5>2 DEF Earned, Of
        <5>4. q.st # "failed"  BY <3>1, <5>1 DEF Passed
        <5>5. q.st # "skipped"
          <6>1. Of(records, "failed") = {}  BY <3>1 DEF Passed, Of
          <6>2. Of(records, "skipped") \subseteq Poisoned
            BY <3>1, <6>1 DEF Caused, Downstream
          <6>3. QED  BY <3>3, <5>1, <5>2, <6>2 DEF Of
        <5>6. QED  BY <5>2, <5>3, <5>4, <5>5
      <4>5. QED  BY <4>3, <4>4
    <3>4. QED  BY <1>a, <3>2, <3>3 DEF Saved
  <2>4. CASE r.st # "waiting"
    <3>1. asked' = asked /\ exec' = exec  BY <2>1, <2>4 DEF Reports
    <3>2. asked = {}
      <4>1. SUFFICES ASSUME asked # {} PROVE FALSE  OBVIOUS
      <4>2. PICK q \in results : q.step = s  BY <2>2, <4>1 DEF Lone, Single
      <4>3. QED  BY <1>3, <2>2, <4>2 DEF Reported
    <3>3. QED  BY <3>1, <3>2 DEF Saved
  <2>5. QED  BY <2>3, <2>4
<1>4. ASSUME NEW w \in flow.waits, Resume(w) PROVE Saved'
  <2>1. w \in asked /\ asked' = asked \ {w}  BY <1>4 DEF Resume
  <2>2. asked' = {}  BY <2>1 DEF Lone
  <2>3. QED  BY <2>2 DEF Saved
<1>5. QED  BY <1>1, <1>2, <1>3, <1>4 DEF Next, Progress

Gentle == Smooth => Lone /\ Unmarked /\ Lasting /\ Fed /\ Saved

LEMMA GentleStep ==
    TypeOK /\ Sorted /\ Behind /\ Single /\ Rows /\ Caused /\ Earned /\ Cleared /\ Passed /\ Gentle
        /\ [Next]_vars => Gentle'
<1> SUFFICES ASSUME TypeOK, Sorted, Behind, Single, Rows, Caused, Earned, Cleared, Passed, Gentle,
                    [Next]_vars, Smooth'
    PROVE (Lone /\ Unmarked /\ Lasting /\ Fed /\ Saved)'
  BY DEF Gentle
<1>1. Smooth /\ Lone /\ Unmarked /\ Lasting /\ Fed /\ Saved  BY SmoothFixed DEF Gentle
<1>2. Lone' /\ Unmarked' /\ Lasting' /\ Saved'
  BY <1>1, LoneStep, UnmarkedStep, LastingStep, SavedStep
<1>3. Fed'  BY <1>1, <1>2, FedStep
<1>4. QED  BY <1>2, <1>3

LEMMA FedComplete ==
    TypeOK /\ Behind /\ Single /\ Cleared /\ Passed /\ Gentle => InputsUnlessShared
<1> SUFFICES ASSUME TypeOK, Behind, Single, Cleared, Passed, Gentle, Smooth, pc = "level",
                    NEW s \in level \ Reported
    PROVE Inputs(s) = DataParents(s) \cap good
  BY DEF InputsUnlessShared, InputsComplete, Smooth
<1>1. Inputs(s) \subseteq DataParents(s) \cap good  BY DEF Inputs, Passed
<1>2. ASSUME NEW p \in DataParents(s) \cap good PROVE p \in Inputs(s)
  <2>1. s \notin ctx.skip \cup Poisoned  BY DEF Single, Passed, Cleared
  <2>2. p \in ctx.out \cup level  BY <2>1 DEF Gentle, Fed
  <2>3. p \in Parents(s)  BY DEF DataParents, Parents, Edges
  <2>4. p \notin level  BY <2>3 DEF Behind
  <2>5. QED  BY <2>2, <2>4 DEF Inputs
<1>3. QED  BY <1>1, <1>2

\* On every graph, as long as the rows are written: a step about to run is given the workbook
\* of every data parent that has succeeded, when the workflow never waits, or waits alone in
\* a level and cannot fail.
THEOREM InputsKept == Spec => []InputsUnlessShared
<1>1. Init => Caused /\ Earned /\ Cleared /\ Stopped /\ Passed /\ Gentle
  <2> SUFFICES ASSUME Init PROVE Caused /\ Earned /\ Cleared /\ Stopped /\ Passed /\ Gentle  OBVIOUS
  <2>1. /\ ctx.skip = {} /\ ctx.past = {} /\ ctx.out = {} /\ ctx.doomed = Poisoned /\ ~ctx.aborted
        /\ ~ctx.tripped
    BY DEF Init, FreshContext
  <2>2. Earned /\ Cleared /\ Stopped /\ Passed
    BY <2>1 DEF Init, Earned, Cleared, Stopped, Passed, Of
  <2>3. Lone /\ Unmarked /\ Lasting /\ Fed /\ Saved
    BY <2>1 DEF Init, Lone, Unmarked, Lasting, Fed, Saved, Of
  <2>4. QED  BY <2>2, <2>3, CausedInit DEF Gentle
<1>2. QED
  BY <1>1, FirstState, Typed, SortedStep, BehindStep, SingleStep, RowsStep, CausedStep, EarnedStep,
     StoppedStep, PassedStep, GentleStep, FedComplete, PTL DEF Spec

=============================================================================
