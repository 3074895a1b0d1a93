----------------------------- MODULE WaitPromise -----------------------------
(* What suspension promises of an execution, without tokens, mails, jobs,       *)
(* journal or locks: it asks each question at most once, unless a pass missed   *)
(* it before it was answered, waits while a question is open, goes on from one  *)
(* accepted answer at a time, and ends once.                                    *)
CONSTANTS Execs, WaitSteps

VARIABLES
    phase,      \* none, running, waiting, then done, failed or cancelled
    open,       \* the questions asked and not answered
    answered,   \* the questions answered
    missed      \* the questions whose step failed or was skipped in some pass

pvars == <<phase, open, answered, missed>>

PromiseInit ==
    /\ phase = [e \in Execs |-> "none"]
    /\ open = [e \in Execs |-> {}]
    /\ answered = [e \in Execs |-> {}]
    /\ missed = [e \in Execs |-> {}]

Begin(e) ==
    /\ phase[e] = "none"
    /\ \A d \in Execs : phase[d] # "waiting"
    /\ phase' = [phase EXCEPT ![e] = "running"]
    /\ UNCHANGED <<open, answered, missed>>

Ask(e, s) ==
    /\ phase[e] = "running" /\ s \notin open[e] \cup (answered[e] \ missed[e])
    /\ open' = [open EXCEPT ![e] = @ \cup {s}]
    /\ UNCHANGED <<phase, answered, missed>>

Withdraw(e, s) ==
    /\ phase[e] = "running" /\ s \in open[e]
    /\ open' = [open EXCEPT ![e] = @ \ {s}]
    /\ UNCHANGED <<phase, answered, missed>>

\* Only what has not been answered yet is missed.
Miss(e) ==
    /\ phase[e] \in {"running", "waiting"}
    /\ \E S \in SUBSET (WaitSteps \ answered[e]) : missed' = [missed EXCEPT ![e] = @ \cup S]
    /\ UNCHANGED <<phase, open, answered>>

Wait(e) ==
    /\ phase[e] = "running" /\ open[e] # {}
    /\ phase' = [phase EXCEPT ![e] = "waiting"]
    /\ UNCHANGED <<open, answered, missed>>

Accept(e, s) ==
    /\ phase[e] = "waiting" /\ s \in open[e]
    /\ open' = [open EXCEPT ![e] = @ \ {s}]
    /\ answered' = [answered EXCEPT ![e] = @ \cup {s}]
    /\ UNCHANGED <<phase, missed>>

Continue(e) ==
    /\ phase[e] = "waiting" /\ open[e] = {} /\ answered[e] # {}
    /\ phase' = [phase EXCEPT ![e] = "running"]
    /\ UNCHANGED <<open, answered, missed>>

Finish(e) ==
    /\ phase[e] = "running" /\ open[e] = {}
    /\ \E v \in {"done", "failed"} : phase' = [phase EXCEPT ![e] = v]
    /\ UNCHANGED <<open, answered, missed>>

\* Cancelled, or its deadline passed: its questions are closed with it.
GiveUp(e) ==
    /\ phase[e] = "waiting"
    /\ \E v \in {"cancelled", "failed"} : phase' = [phase EXCEPT ![e] = v]
    /\ open' = [open EXCEPT ![e] = {}]
    /\ UNCHANGED <<answered, missed>>

PromiseNext ==
    \E e \in Execs :
        \/ Begin(e) \/ Miss(e) \/ Wait(e) \/ Continue(e) \/ Finish(e) \/ GiveUp(e)
        \/ \E s \in WaitSteps : Ask(e, s) \/ Withdraw(e, s) \/ Accept(e, s)

PromiseSpec == PromiseInit /\ [][PromiseNext]_pvars
===============================================================================
