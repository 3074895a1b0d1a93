----------------------------- MODULE WriteSession -----------------------------
(* Writes on the source database that an administrator asks of the assistant   *)
(* and a DBA approves by clicking a link: iris_write_session.py, over the one  *)
(* connection of sage_connector.py that every thread of its pool uses.         *)
EXTENDS FiniteSets

CONSTANTS
    Demands,    \* calls of propose_sql_write that pass the checks of its caller
    Clicks,     \* posts on the link of a demand
    Weathers    \* the sets of hazards considered, one per behaviour

Hazards == {"shared",     \* several threads write on the connection at once
            "crash",      \* the process stops and starts again
            "slow",       \* a write takes more than half an hour
            "line",       \* the line breaks during a commit
            "rollback",   \* a rollback fails, or going back to autocommit
            "dberror",    \* the local database refuses the row of the audit
            "error",      \* the source database or the validator refuses a statement
            "drift",      \* _row_estimate_drifted: more rows than the DBA approved
            "nomail",     \* the mail is not sent
            "misreport"}  \* ... or it is, and SMTP says it was not

ASSUME DemandsAssumption == Demands # {}
ASSUME DisjointAssumption == Demands \cap Clicks = {}
ASSUME WeathersAssumption == Weathers \subseteq SUBSET Hazards

VARIABLES
    weather,  \* this behaviour's
    row,      \* sql_write_audit: status, deadline passed, age of the status, link sent
    call,     \* proposals and clicks: program counter, the demand they are about
    tx,       \* the thread that works for a call
    conn,     \* the connection: its autocommit, the statements of its open transaction
    kept      \* history: statements the source database has committed

vars == <<weather, row, call, tx, conn, kept>>

Calls    == Demands \cup Clicks
Final    == {"rejected", "executed", "failed", "aborted", "expired"}
Statuses == {"none", "awaiting", "executing"} \cup Final
Rows     == [st : Statuses, late : BOOLEAN, old : BOOLEAN, link : BOOLEAN]
CallStates == [pc : {"idle", "estimate", "mail", "unsent", "recheck", "write", "verdict", "gone"},
               of : Demands]
Phases   == {"dry", "real"}
Outcomes == {"none", "ok", "raised"}
TxStates == [pc : {"none", "read", "set", "execute", "end", "restore"}, prev : BOOLEAN, ph : Phases, out : Outcomes]
Statements == [by : Calls, ph : Phases]

TypeOK ==
    /\ weather \in Weathers
    /\ row \in [Demands -> Rows]
    /\ call \in [Calls -> CallStates]
    /\ tx \in [Calls -> TxStates]
    /\ conn \in [auto : BOOLEAN, open : SUBSET Statements]
    /\ kept \subseteq Statements

Idle == [pc |-> "none", prev |-> TRUE, ph |-> "dry", out |-> "none"]
Init ==
    /\ weather \in Weathers
    /\ row = [d \in Demands |-> [st |-> "none", late |-> FALSE, old |-> FALSE, link |-> FALSE]]
    /\ call = [p \in Calls |-> [pc |-> "idle", of |-> IF p \in Demands THEN p ELSE CHOOSE d \in Demands : TRUE]]
    /\ tx = [p \in Calls |-> Idle]
    /\ conn = [auto |-> TRUE, open |-> {}]
    /\ kept = {}

-------------------------------------------------------------------------------
Of(p)      == call[p].of
At(p, l)   == call[p].pc = l
\* Calls that have not happened are interchangeable: they are taken in one order.
Idlers(P)  == {p \in P : call[p].pc = "idle"}
Comes(p, P) == Idlers(P) # {} /\ p = CHOOSE q \in Idlers(P) : TRUE
Goto(p, l) == call' = [call EXCEPT ![p].pc = l]
Status(d, st) == row' = [row EXCEPT ![d].st = st, ![d].old = FALSE]
Working(p) == tx[p].pc # "none"
Begin(p, ph) == tx' = [tx EXCEPT ![p] = [pc |-> "read", prev |-> TRUE, ph |-> ph, out |-> "none"]]
Ended(p)   == tx[p].pc = "none" /\ tx[p].out # "none"
May(h)     == h \in weather

(* execute_write: five moves of a thread of the pool on the connection they all share.    *)
Stmt(p) == [by |-> p, ph |-> tx[p].ph]
Move(p, l) == tx' = [tx EXCEPT ![p].pc = l]

ReadMode(p) ==
    /\ tx[p].pc = "read" /\ (May("shared") \/ \A q \in Calls \ {p} : tx[q].pc \in {"none", "read"})
    /\ tx' = [tx EXCEPT ![p].pc = "set", ![p].prev = conn.auto]
    /\ UNCHANGED <<weather, row, call, conn, kept>>

SetMode(p) ==
    /\ tx[p].pc = "set" /\ Move(p, "execute")
    /\ conn' = [conn EXCEPT !.auto = FALSE]
    /\ UNCHANGED <<weather, row, call, kept>>

Execute(p) ==
    /\ tx[p].pc = "execute"
    /\ IF conn.auto THEN kept' = kept \cup {Stmt(p)} /\ UNCHANGED conn
       ELSE conn' = [conn EXCEPT !.open = @ \cup {Stmt(p)}] /\ UNCHANGED kept
    /\ Move(p, "end")
    /\ UNCHANGED <<weather, row, call>>

\* The statement fails: the transaction of the connection is rolled back, if it can be: a
\* rollback that fails is only logged.
RolledBack == {[conn EXCEPT !.open = {}]} \cup IF May("rollback") THEN {conn} ELSE {}
Refused(p) ==
    /\ May("error")
    /\ tx[p].pc = "execute"
    /\ conn' \in RolledBack
    /\ tx' = [tx EXCEPT ![p].pc = "restore", ![p].out = "raised"]
    /\ UNCHANGED <<weather, row, call, kept>>

AlwaysCommit(p) == TRUE                                                         \* mutant
NeverCommits(p) == FALSE                                                        \* mutant
Commits(p) == tx[p].ph = "real"
EndTx(p) ==
    /\ tx[p].pc = "end"
    /\ conn' = [conn EXCEPT !.open = {}]
    /\ kept' = IF Commits(p) THEN kept \cup conn.open ELSE kept
    /\ tx' = [tx EXCEPT ![p].pc = "restore", ![p].out = "ok"]
    /\ UNCHANGED <<weather, row, call>>

\* The commit reaches the server or not; its caller sees an error.
LineBreaks(p) ==
    /\ May("line")
    /\ tx[p].pc = "end" /\ Commits(p)
    /\ conn' \in RolledBack
    /\ kept' \in {kept, kept \cup conn.open}
    /\ tx' = [tx EXCEPT ![p].pc = "restore", ![p].out = "raised"]
    /\ UNCHANGED <<weather, row, call>>

\* The rollback of an estimate raises; it is tried once more, and may fail again.
RollbackFails(p) ==
    /\ May("rollback")
    /\ tx[p].pc = "end" /\ ~Commits(p)
    /\ conn' \in RolledBack
    /\ tx' = [tx EXCEPT ![p].pc = "restore", ![p].out = "raised"]
    /\ UNCHANGED <<weather, row, call, kept>>

\* Going back to autocommit commits what is open on the connection.
Restore(p) ==
    /\ tx[p].pc = "restore" /\ Move(p, "none")
    /\ conn' = [auto |-> tx[p].prev, open |-> IF tx[p].prev THEN {} ELSE conn.open]
    /\ kept' = IF tx[p].prev THEN kept \cup conn.open ELSE kept
    /\ UNCHANGED <<weather, row, call>>

\* It fails: the connection is left for another, and the server drops its transaction.
RestoreFails(p) ==
    /\ May("rollback")
    /\ tx[p].pc = "restore" /\ Move(p, "none")
    /\ conn' = [auto |-> TRUE, open |-> {}]
    /\ UNCHANGED <<weather, row, call, kept>>

(* propose_sql_write: estimate, row, mail.                                                *)
Propose(d) ==
    /\ Comes(d, Demands)
    /\ \/ Goto(d, "estimate") /\ Begin(d, "dry") /\ UNCHANGED row
       \/ May("error") /\ Goto(d, "gone") /\ Status(d, "rejected") /\ UNCHANGED tx
    /\ UNCHANGED <<weather, conn, kept>>

Insert(d) ==
    /\ At(d, "estimate") /\ Ended(d)
    /\ IF tx[d].out = "ok" THEN Status(d, "awaiting") /\ Goto(d, "mail")
       ELSE Status(d, "rejected") /\ Goto(d, "gone")
    /\ tx' = [tx EXCEPT ![d] = Idle]
    /\ UNCHANGED <<weather, conn, kept>>

Mail(d) ==
    /\ At(d, "mail")
    /\ \/ row' = [row EXCEPT ![d].link = TRUE] /\ Goto(d, "gone")
       \/ May("nomail") /\ UNCHANGED row /\ Goto(d, "unsent")
       \/ May("misreport") /\ row' = [row EXCEPT ![d].link = TRUE] /\ Goto(d, "unsent")
    /\ UNCHANGED <<weather, tx, conn, kept>>

\* The link is of no use any more, whatever the row has become.
Unsent(d) ==
    /\ At(d, "unsent") /\ Goto(d, "gone")
    /\ Status(d, "failed")
    /\ UNCHANGED <<weather, tx, conn, kept>>

(* dba_confirm: reserve, validate and estimate again, write, verdict.                     *)
AnyAwaited(d) == row[d].st \in {"awaiting", "executing"}                        \* mutant
Awaited(d)    == row[d].st = "awaiting"
Clicked(c, d) == Comes(c, Clicks) /\ row[d].link
Answers(c, d, l) == call' = [call EXCEPT ![c] = [pc |-> l, of |-> d]]
Reserve(c, d) ==
    /\ Clicked(c, d)
    /\ Awaited(d) /\ ~row[d].late
    /\ Status(d, "executing")
    /\ Answers(c, d, "recheck") /\ Begin(c, "dry")
    /\ UNCHANGED <<weather, conn, kept>>

\* A click that comes too late marks the row, one on a demand already handled does nothing.
TooLate(c, d) ==
    /\ Clicked(c, d) /\ Answers(c, d, "gone")
    /\ IF Awaited(d) THEN row[d].late /\ Status(d, "expired") ELSE UNCHANGED row
    /\ UNCHANGED <<weather, tx, conn, kept>>

Gives(c, st) == Status(Of(c), st) /\ Goto(c, "gone") /\ tx' = [tx EXCEPT ![c] = Idle]
Recheck(c) ==
    /\ At(c, "recheck") /\ Ended(c)
    /\ \/ tx[c].out = "ok" /\ Goto(c, "write") /\ Begin(c, "real") /\ UNCHANGED row
       \/ (tx[c].out = "raised" \/ May("error") \/ May("drift")) /\ Gives(c, "failed")
    /\ UNCHANGED <<weather, conn, kept>>

\* Without a look at the status the row has by then.
Finish(c) ==
    /\ At(c, "write") /\ Ended(c)
    /\ Gives(c, IF tx[c].out = "raised" THEN "failed" ELSE "executed")
    /\ UNCHANGED <<weather, conn, kept>>

\* The status a call has come to give, or to write again, cannot be written: nobody catches
\* the exception, the call ends and the row stays as it is.
WriteFails(p) ==
    /\ May("dberror")
    /\ At(p, "unsent") \/ (call[p].pc \in {"estimate", "recheck", "write"} /\ Ended(p))
    /\ Goto(p, "gone") /\ tx' = [tx EXCEPT ![p] = Idle]
    /\ UNCHANGED <<weather, row, conn, kept>>

\* dba_reject, which does not look at the deadline.
Reject(c, d) ==
    /\ Clicked(c, d) /\ Answers(c, d, "gone")
    /\ IF Awaited(d) THEN Status(d, "aborted") ELSE UNCHANGED row
    /\ UNCHANGED <<weather, tx, conn, kept>>

(* Time, the sweep, and the process.                                                      *)
Elapse(d) ==
    /\ row[d].st = "awaiting" /\ ~row[d].late
    /\ row' = [row EXCEPT ![d].late = TRUE]
    /\ UNCHANGED <<weather, call, tx, conn, kept>>

Held(d) == \E c \in Clicks : Of(c) = d /\ call[c].pc \in {"recheck", "write"}
Age(d) ==
    /\ row[d].st = "executing" /\ ~row[d].old /\ (May("slow") \/ ~Held(d))
    /\ row' = [row EXCEPT ![d].old = TRUE]
    /\ UNCHANGED <<weather, call, tx, conn, kept>>

NoZombie(d) == FALSE                                                            \* mutant
Zombie(d)   == row[d].st = "executing" /\ row[d].old
\* cleanup_expired_and_zombie
Sweep ==
    /\ \E d \in Demands : (row[d].st = "awaiting" /\ row[d].late) \/ Zombie(d)
    /\ row' = [d \in Demands |->
                 CASE row[d].st = "awaiting" /\ row[d].late -> [row[d] EXCEPT !.st = "expired"]
                   [] Zombie(d) -> [row[d] EXCEPT !.st = "failed", !.old = FALSE]
                   [] OTHER -> row[d]]
    /\ UNCHANGED <<weather, call, tx, conn, kept>>

\* The server rolls back what a lost connection had open.
Crash ==
    /\ May("crash") /\ \E p \in Calls : call[p].pc \notin {"idle", "gone"}
    /\ call' = [p \in Calls |-> IF At(p, "idle") THEN call[p] ELSE [call[p] EXCEPT !.pc = "gone"]]
    /\ tx' = [p \in Calls |-> Idle]
    /\ conn' = [auto |-> TRUE, open |-> {}]
    /\ UNCHANGED <<weather, row, kept>>

Thread(p) ==
    \/ ReadMode(p) \/ SetMode(p) \/ Execute(p) \/ Refused(p)
    \/ EndTx(p) \/ LineBreaks(p) \/ RollbackFails(p) \/ Restore(p) \/ RestoreFails(p)
Proposal(d) == Propose(d) \/ Insert(d) \/ Mail(d) \/ Unsent(d)
Confirm(c)  == Recheck(c) \/ Finish(c)
Click(c)    == \E d \in Demands : Reserve(c, d) \/ TooLate(c, d) \/ Reject(c, d)

Next ==
    \/ Sweep \/ Crash
    \/ \E p \in Calls : Thread(p) \/ WriteFails(p)
    \/ \E d \in Demands : Proposal(d) \/ Elapse(d) \/ Age(d)
    \/ \E c \in Clicks : Confirm(c) \/ Click(c)

Spec == Init /\ [][Next]_vars

\* Threads and coroutines go on, time passes, and the sweep runs every quarter of an hour.
Fairness ==
    /\ WF_vars(Sweep)
    /\ \A p \in Calls : WF_vars(Thread(p))
    /\ \A d \in Demands : WF_vars(Elapse(d)) /\ WF_vars(Age(d))
    /\ \A c \in Clicks : WF_vars(Confirm(c))
FairSpec == Spec /\ Fairness

-------------------------------------------------------------------------------
Real(d) == {x \in kept : x.ph = "real" /\ x.by \in Clicks /\ Of(x.by) = d}
Settled(d) == row[d].st \in Final /\ ~Held(d) /\ ~At(d, "unsent")

\* "Garantie BDD-level : exactly-once" (dba_confirm): however often the link is clicked, and
\* whatever the sweep, the mails and the process do, a demand is written at most once, and
\* not at all once it has been refused or has expired.
Once ==
    \A d \in Demands :
        /\ \A x, y \in Real(d) : x = y
        /\ row[d].st \in {"rejected", "aborted", "expired"} => Real(d) = {}

\* The audit tells the truth once nobody works on a demand: what it says executed has been
\* committed, and what it says failed has not, unless the process, the line, SMTP, the half
\* hour of the sweep or the local database that refuses the verdict cut between the two;
\* threads that share a transaction may do both.
Cuts == {"crash", "line", "misreport", "slow", "dberror"}
VerdictTrue ==
    "shared" \notin weather =>
        \A d \in Demands : Settled(d) =>
            /\ row[d].st = "executed" => Real(d) # {}
            /\ row[d].st = "failed" /\ weather \cap Cuts = {} => Real(d) = {}

\* "exécute en transaction puis ROLLBACK (rapporte rows_affected sans persistance)"
\* (execute_write): the source database never keeps an estimate,
EstimatesLeaveNothing == \A x \in kept : x.ph = "real"

\* ... as long as one thread at a time writes on the connection and rollbacks succeed, through
\* refusals, broken lines and crashes: one that fails is committed by the return to autocommit.
EstimatesRollBack == weather \cap {"shared", "rollback"} = {} => EstimatesLeaveNothing

\* No demand awaits its DBA, or its execution, for ever.
Settles == \A d \in Demands : row[d].st \in {"awaiting", "executing"} ~> row[d].st \in Final
===============================================================================
