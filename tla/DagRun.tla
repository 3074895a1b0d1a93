-------------------------------- MODULE DagRun --------------------------------
(* One execution of a workflow: dag_executor.run_dag_pipeline walks the graph  *)
(* level by level, AutomationExecutor journals the step records and gives the  *)
(* verdict, and executor._resume_automation_async walks the graph again after  *)
(* each answered wait step.  A workbook is the set of steps it comes from, so  *)
(* step_outputs is the set of steps whose workbook is held.  The tokens, locks *)
(* and sweeps around a suspension are the subject of WaitResume: here a wait   *)
(* step is answered once, after the execution has stopped.                     *)
EXTENDS Naturals, FiniteSets

CONSTANTS
    Steps,      \* ids of the steps of the automation
    Flows,      \* the workflows considered, see FlowType
    Retries     \* max_retries of the steps that may fail

Risks == {"breaker",  \* a limit of the automation (rows, cost, duration) may be exceeded
          "timeout",  \* the pipeline may hit the global execution timeout
          "fanin",    \* a fan-in may project more rows than max_total_rows
          "journal"}  \* writing step rows may fail

\* data and signal are the edges with and without data_type "trigger"; off holds the
\* disabled steps, waits the email_wait_response steps, sinks the terminal ones, flaky
\* those that may raise.
FlowType == [data : SUBSET (Steps \X Steps), signal : SUBSET (Steps \X Steps),
             off : SUBSET Steps, waits : SUBSET Steps, sinks : SUBSET Steps,
             flaky : SUBSET Steps, policy : {"abort", "abort_all", "best_effort"},
             risks : SUBSET Risks]

ASSUME StepsAssumption   == IsFiniteSet(Steps)
ASSUME FlowsAssumption   == Flows \subseteq FlowType
ASSUME RetriesAssumption == Retries \in Nat

VARIABLES
    flow,     \* the workflow: chosen at the start, never changed
    exec,     \* the Execution row: status, wait_checkpoint; resumed once restarted
    asked,    \* wait steps whose question has been mailed and not answered
    pc,       \* where the pipeline is
    left,     \* active steps of the levels not opened yet
    level,    \* steps of the open level that run
    results,  \* what the steps of the open level have returned
    records,  \* all_records of this pass over the graph
    ctx,      \* DAGRunContext
    over,     \* a limit of the circuit breaker is exceeded
    journal,  \* StepExecution rows
    good      \* history: steps that have succeeded

vars == <<flow, exec, asked, pc, left, level, results, records, ctx, over, journal, good>>

Attempts == 1..(Retries + 1)
Record(s, st, a) == [step |-> s, st |-> st, try |-> a]
Records == [step : Steps, st : {"success", "failed", "skipped", "waiting"}, try : Attempts]
\* A fan-in that is too large raises before the step runs and leaves no record.
Raised  == [step : Steps, st : {"raised"}, try : {1}]
Context == [out : SUBSET Steps, doomed : SUBSET Steps, aborted : BOOLEAN,
            tripped : BOOLEAN, past : SUBSET Steps, skip : SUBSET Steps]

TypeOK ==
    /\ flow \in FlowType
    /\ exec \in [st : {"pending", "running", "waiting", "success", "partial", "failed"},
                 ckpt : SUBSET Steps, resumed : BOOLEAN]
    /\ asked \subseteq flow.waits
    /\ pc \in {"new", "levels", "level", "persist", "verdict", "stopped"}
    /\ left \subseteq Steps /\ level \subseteq Steps
    /\ results \subseteq Records \cup Raised
    /\ records \subseteq Records
    /\ journal \subseteq Records
    /\ ctx \in Context
    /\ over \in BOOLEAN
    /\ good \subseteq Steps

-------------------------------------------------------------------------------
Of(recs, st) == {s \in Steps : \E r \in recs : r.step = s /\ r.st = st}
Reported     == {s \in Steps : \E r \in results : r.step = s}

Active  == Steps \ flow.off
Edges   == flow.data \cup flow.signal
Parents(s)     == {p \in Active : <<p, s>> \in Edges}
DataParents(s) == {p \in Active : <<p, s>> \in flow.data}
Children(s)    == {c \in Steps : <<s, c>> \in Edges}

NotCyclic == FALSE                                                       \* mutant
\* Steps that wait for each other: Kahn's traversal never reaches them.
Cyclic == \E S \in SUBSET Active : S # {} /\ \A s \in S : Parents(s) \cap S # {}

DataFrontier == {s \in left : DataParents(s) \cap left = {}}             \* mutant
\* The next level of Kahn's traversal: no parent left.
Frontier == {s \in left : Parents(s) \cap left = {}}

\* The steps reachable from s, breadth first.
Descendants(s) ==
    LET below[k \in 0..Cardinality(Steps)] ==
            IF k = 0 THEN Children(s)
            ELSE below[k - 1] \cup UNION {Children(c) : c \in below[k - 1]}
    IN  {d \in Steps : d \in below[Cardinality(Steps)]}

\* Steps cut off by disabled ones: the disabled steps, then every step all of whose
\* sources are cut off, up to the fixed point.
Poisoned ==
    LET Sources(s) == {p \in Steps : <<p, s>> \in Edges}
        cut[k \in 0..Cardinality(Steps)] ==
            IF k = 0 THEN flow.off
            ELSE cut[k - 1] \cup
                 {s \in Steps : Sources(s) # {} /\ Sources(s) \subseteq cut[k - 1]}
    IN  {s \in Steps : s \in cut[Cardinality(Steps)]}

\* The workbooks merged into the input of s.
Inputs(s) == DataParents(s) \cap ctx.out

SomeChild(out, through) ==                                               \* mutant
    {p \in out : Children(p) = {} \/ Children(p) \cap through = {}}
\* The outputs that survive the purge, once the steps of through have been processed.
Kept(out, through) == {p \in out : Children(p) = {} \/ ~(Children(p) \subseteq through)}

FreshContext(out, skip) ==
    [out |-> out, doomed |-> Poisoned, aborted |-> FALSE, tripped |-> FALSE,
     past |-> skip, skip |-> skip]

Init ==
    /\ flow \in Flows
    /\ exec = [st |-> "pending", ckpt |-> {}, resumed |-> FALSE]
    /\ asked = {} /\ pc = "new" /\ left = {} /\ level = {}
    /\ results = {} /\ records = {} /\ journal = {} /\ good = {}
    /\ ctx = FreshContext({}, {})
    /\ over = FALSE

-------------------------------------------------------------------------------
Start ==
    /\ pc = "new" /\ ~Cyclic
    /\ exec' = [exec EXCEPT !.st = "running"]
    /\ pc' = "levels" /\ left' = Active
    /\ UNCHANGED <<flow, asked, level, results, records, ctx, over, journal, good>>

\* topological_levels raises: the execution fails before any step runs.
Refuse ==
    /\ pc = "new" /\ Cyclic
    /\ exec' = [exec EXCEPT !.st = "failed"]
    /\ pc' = "stopped"
    /\ UNCHANGED <<flow, asked, left, level, results, records, ctx, over, journal, good>>

\* Nothing more runs in this pass.
Halted == ctx.tripped \/ ctx.aborted

\* The steps of a level that run.
ToRun(S) == IF Halted THEN {} ELSE S \ (ctx.skip \cup ctx.doomed)
\* The steps of a level that are recorded as skipped.
ToSkip(S) == IF Halted THEN S ELSE (S \cap ctx.doomed) \ ctx.skip

OpenLevel ==
    /\ pc = "levels" /\ left # {}
    /\ left' = left \ Frontier
    /\ level' = ToRun(Frontier)
    /\ records' = records \cup {Record(s, "skipped", 1) : s \in ToSkip(Frontier)}
    /\ pc' = IF level' = {} THEN "levels" ELSE "level"
    /\ UNCHANGED <<flow, exec, asked, results, ctx, over, journal, good>>

\* The steps of a level run in parallel; each reports once.
Open(s) == pc = "level" /\ s \in level \ Reported
Report(r) ==
    /\ results' = results \cup {r}
    /\ UNCHANGED <<flow, pc, left, level, records, over, journal>>

SkipOver(s) ==
    /\ Open(s) /\ over
    /\ ctx' = [ctx EXCEPT !.tripped = TRUE]
    /\ Report(Record(s, "skipped", 1))
    /\ UNCHANGED <<exec, asked, good>>

Runs(s) == Open(s) /\ ~over

RunFine(s, a) ==
    /\ Runs(s) /\ s \notin flow.waits
    /\ a > 1 => s \in flow.flaky
    /\ good' = good \cup {s}
    /\ Report(Record(s, "success", a))
    /\ UNCHANGED <<exec, asked, ctx>>

OneTooMany == Retries + 2                                                \* mutant
LastTry    == Retries + 1
\* Every attempt has raised.
RunFails(s) ==
    /\ Runs(s) /\ s \in flow.flaky
    /\ Report(Record(s, "failed", LastTry))
    /\ UNCHANGED <<exec, asked, ctx, good>>

\* The question is mailed, the outputs held so far are saved, the execution waits.
RunWaits(s, a) ==
    /\ Runs(s) /\ s \in flow.waits
    /\ a > 1 => s \in flow.flaky
    /\ asked' = asked \cup {s}
    /\ exec' = [exec EXCEPT !.st = "waiting", !.ckpt = ctx.out]
    /\ Report(Record(s, "waiting", a))
    /\ UNCHANGED <<ctx, good>>

FanInTooLarge(s) ==
    /\ Runs(s) /\ "fanin" \in flow.risks
    /\ Inputs(s) # {}
    /\ Cardinality(Inputs(s)) > 1 \/ Inputs(s) # DataParents(s)
    /\ Report([step |-> s, st |-> "raised", try |-> 1])
    /\ UNCHANGED <<exec, asked, ctx, good>>

\* Rows already in the table keep their first version.
Journal(recs) ==
    journal \cup {r \in recs : \A q \in journal : <<q.step, q.try>> # <<r.step, r.try>>}
Write(recs) ==
    \/ journal' = Journal(recs)
    \/ "journal" \in flow.risks /\ UNCHANGED journal

ChildrenReach(S) == UNION {Children(s) : s \in S}                        \* mutant
AlwaysReach(S) == UNION {Descendants(s) : s \in S}                       \* mutant
\* fail_policy: what the failures of a level stop.
ReachOf(S) == IF flow.policy = "abort" THEN UNION {Descendants(s) : s \in S} ELSE {}
StopsAll(S) == flow.policy = "abort_all" /\ S # {}

CloseLevel ==
    LET ok     == Of(results, "success")
        failed == Of(results, "failed")
    IN
    /\ pc = "level" /\ Reported = level /\ Of(results, "raised") = {}
    /\ records' = records \cup results
    /\ ctx' = [ctx EXCEPT
                !.out = Kept((@ \cup ok) \ failed, level \cup ctx.past),
                !.past = @ \cup level,
                !.doomed = @ \cup ReachOf(failed),
                !.aborted = @ \/ StopsAll(failed),
                !.tripped = @ \/ over]
    /\ IF exec.resumed THEN UNCHANGED journal ELSE Write(records')
    /\ pc' = IF Of(results, "waiting") = {} THEN "levels" ELSE "persist"
    /\ level' = {} /\ results' = {}
    /\ UNCHANGED <<flow, exec, asked, left, over, good>>

\* The exception of a fan-in crosses the pipeline: no record of its level survives.
PipelineRaises ==
    /\ pc = "level" /\ Reported = level /\ Of(results, "raised") # {}
    /\ exec' = [exec EXCEPT !.st = "failed"]
    /\ pc' = "stopped"
    /\ UNCHANGED <<flow, asked, left, level, results, records, ctx, over, journal, good>>

EndLevels ==
    /\ pc = "levels" /\ left = {}
    /\ pc' = "persist"
    /\ UNCHANGED <<flow, exec, asked, left, level, results, records, ctx, over, journal, good>>

Persist ==
    /\ pc = "persist"
    /\ Write(records)
    /\ pc' = "verdict"
    /\ UNCHANGED <<flow, exec, asked, left, level, results, records, ctx, over, good>>

MemoryOnly == records                                                    \* mutant
\* What the verdict is taken from: the records of this pass and, after a resume, the rows
\* of the earlier ones they do not replace.
Evidence ==
    records \cup
    IF exec.resumed
    THEN {q \in journal : \A r \in records : <<q.step, q.try>> # <<r.step, r.try>>}
    ELSE {}

DeliveredAnyway == TRUE                                                  \* mutant
Delivered == Of(Evidence, "success") \cap flow.sinks # {}
NothingRan == ~exec.resumed /\ Evidence # {} /\ \A r \in Evidence : r.st = "skipped"
\* mark_success / mark_partial / mark_failed, or still waiting.
Outcome ==
    LET failed == Of(Evidence, "failed") # {} IN
    IF Of(Evidence, "waiting") # {} THEN "waiting"
    ELSE IF failed /\ Delivered THEN "partial"
    ELSE IF failed \/ NothingRan THEN "failed" ELSE "success"

Verdict ==
    /\ pc = "verdict"
    /\ exec' = [exec EXCEPT !.st = Outcome,
                            !.ckpt = IF exec.resumed /\ Outcome # "waiting" THEN {} ELSE @]
    /\ pc' = "stopped"
    /\ UNCHANGED <<flow, asked, left, level, results, records, ctx, over, journal, good>>

\* asyncio.wait_for around the pipeline of the first run; a resume has no such limit.
Timeout ==
    /\ "timeout" \in flow.risks /\ ~exec.resumed
    /\ pc \in {"levels", "level", "persist"}
    /\ exec' = [exec EXCEPT !.st = "failed"]
    /\ pc' = "stopped"
    /\ UNCHANGED <<flow, asked, left, level, results, records, ctx, over, journal, good>>

Beside(w) ==                                                             \* mutant
    journal \cup {[r EXCEPT !.st = "success"] : r \in {q \in journal : q.step = w}}
\* The row of the answered step becomes a success.
Answered(w) ==
    {IF r.step = w /\ r.st = "waiting" THEN [r EXCEPT !.st = "success"] ELSE r : r \in journal}
SkipHeld(w, rows) == exec.ckpt \cup {w}                                  \* mutant
\* The steps a resumed pass does not run again.
SkipIds(w, rows) == Of(rows, "success") \cup {w}

Resume(w) ==
    /\ pc = "stopped" /\ exec.st = "waiting" /\ w \in asked
    /\ asked' = asked \ {w}
    /\ journal' = Answered(w)
    /\ exec' = [exec EXCEPT !.st = "running", !.resumed = TRUE]
    /\ ctx' = FreshContext(exec.ckpt \cup {w}, SkipIds(w, journal'))
    /\ good' = good \cup {w}
    /\ pc' = "levels" /\ left' = Active
    /\ level' = {} /\ results' = {} /\ records' = {} /\ over' = FALSE
    /\ UNCHANGED flow

\* Rows, cost or time go over a limit of the automation.
Exceed ==
    /\ "breaker" \in flow.risks /\ pc \in {"levels", "level"} /\ ~over
    /\ over' = TRUE
    /\ UNCHANGED <<flow, exec, asked, pc, left, level, results, records, ctx, journal, good>>

StepNext(s) ==
    \/ SkipOver(s) \/ RunFails(s) \/ FanInTooLarge(s)
    \/ \E a \in Attempts : RunFine(s, a) \/ RunWaits(s, a)

Progress ==
    \/ Start \/ Refuse \/ OpenLevel \/ CloseLevel \/ PipelineRaises \/ EndLevels
    \/ Persist \/ Verdict
    \/ \E s \in Steps : StepNext(s)

Next == Progress \/ Timeout \/ Exceed \/ \E w \in flow.waits : Resume(w)

Spec == Init /\ [][Next]_vars

-------------------------------------------------------------------------------
\* A pass never stalls: while steps remain, a level opens (topological_levels has refused
\* the graphs with a cycle, and edges from disabled steps hold nothing back).
NeverStalls == pc = "levels" /\ left # {} => Frontier # {}

\* A step starts only when each active parent, through a data or a trigger edge, has a
\* final record in this pass or succeeded before it: the levels of topological_levels.
SettledFirst ==
    pc = "level" => \A s \in level : \A p \in Parents(s) :
        p \in ctx.skip \/ \E r \in records : r.step = p /\ r.st # "waiting"

\* fail_policy: with "abort" no step downstream of a failure runs, with "abort_all" none
\* at all in a later level.
FailureStops ==
    pc = "level" => \A f \in Of(records, "failed") :
        /\ flow.policy = "abort" => Descendants(f) \cap level = {}
        /\ flow.policy = "abort_all" => level = {}

\* A step is skipped for a reason: a limit or abort_all has stopped the pass, a failure it
\* depends on under "abort", or no path from an enabled source.
SkippedForCause ==
    pc = "verdict" => \A s \in Of(records, "skipped") :
        \/ Halted \/ s \in Poisoned
        \/ flow.policy = "abort" /\ \E f \in Of(records, "failed") : s \in Descendants(f)

\* The active steps that a path of active steps leads to from s: disabled steps hold
\* nothing back, so a path through one orders nothing.
After(s) == {d \in Active : \A S \in SUBSET Active :
    (\A c \in Active : Parents(c) \cap (S \cup {s}) # {} => c \in S) => d \in S}
Alone(w)  == \A s \in Active \ {w} : s \in After(w) \/ w \in After(s)
Waits     == flow.waits \ flow.off
Journaled == "journal" \notin flow.risks
OneWait   == Cardinality(Waits) <= 1

\* A step about to run is given the workbook of every data parent that has succeeded: the
\* purge never frees, and a checkpoint never loses, an output still to be consumed.
InputsComplete == pc = "level" => \A s \in level \ Reported : Inputs(s) = DataParents(s) \cap good
\* So it is when a workflow that waits does so alone in its level and without failures.
InputsUnlessShared ==
    \/ InputsComplete
    \/ ~Journaled
    \/ Waits # {} /\ (flow.flaky # {} \/ \E w \in Waits : ~Alone(w))

\* A step that has succeeded never runs again (an email would leave twice), whatever fails
\* before or after the suspension, when there is one suspension and the rows are written.
NothingTwice == Journaled /\ OneWait /\ pc = "level" => (level \ Reported) \cap good = {}

\* Once a verdict is given the journal has exactly one row per active step.
JournalWhole ==
    pc = "stopped" /\ exec.st \in {"success", "partial"} /\ Journaled =>
        \A s \in Active : \/ Cardinality({r \in journal : r.step = s}) = 1
                          \/ Retries > 0 /\ s \in flow.flaky /\ exec.resumed

\* "partial" only after a delivery, and "success" only when every step not cut off by a
\* disabled one has succeeded, unless the circuit breaker stopped the pass.
HonestVerdict ==
    pc = "stopped" =>
        /\ exec.st = "partial" => good \cap flow.sinks # {}
        /\ exec.st = "success" => ctx.tripped \/ Active \ Poisoned \subseteq good

\* An execution is never declared failed once a sink has delivered, when the pipeline runs
\* to its end and the breaker does not stop the pass after a resume.
DeliveredStands ==
    pc = "stopped" /\ exec.st = "failed" /\ flow.risks \subseteq {"breaker"} /\ OneWait
        => (good \cap flow.sinks = {} \/ (exec.resumed /\ ctx.tripped))

===============================================================================
