----------------------------- MODULE SinkDelivery -----------------------------
(* The sinks of a workflow (email, report, export) and the log that keeps them  *)
(* from delivering twice in a day: the sink branches of the node adapter of     *)
(* executor.py, idempotency_service.py and the hourly purge of the scheduler.   *)
(* A send is one execution of a sink step in one pass; its retries are those of *)
(* _execute_node_with_output.  Two sends with the same configuration, inputs    *)
(* and automation have the same sink, and on the same day the same key.         *)
EXTENDS Naturals, FiniteSets

CONSTANTS
    Sends,      \* executions of sink steps
    Sinks,      \* what a key is computed from, except the date
    Plans,      \* assignments of sinks to the sends considered
    Kind,       \* "email", or "file" for a report or an export
    Batch,      \* what it delivers: the tickets of a mail, the file of a report
    Items,      \* all of them
    Retries,    \* max_retries of the steps
    Horizon,    \* last instant considered
    DayOf,      \* the UTC date of an instant
    Ttl,        \* lifetime of a row of the log
    Weathers    \* sets of hazards considered, see Hazards

Hazards == {"smtp",      \* SMTP is not configured, or switched off by the administrator
            "broken",    \* its configuration is incomplete: building the client raises
            "cancel",    \* the timeout of the run cancels the step
            "crash",     \* the process stops
            "dberror",   \* a claim or a release meets a database error
            "twins",     \* sends of the same sink overlap
            "lost",      \* a mail leaves though the client reports a failure
            "inactive"}  \* the owner of the automation is deactivated

Instants == 0..Horizon

ASSUME SinksAssumption ==
    /\ Plans \subseteq [Sends -> Sinks]
    /\ Kind \in [Sinks -> {"email", "file"}]
    /\ Batch \in [Sinks -> SUBSET Items]
    /\ \A k \in Sinks : Kind[k] = "file" => \E i \in Items : Batch[k] = {i}
ASSUME NumbersAssumption == Retries \in Nat /\ Horizon \in Nat /\ Ttl \in Nat \ {0}
\* Time moves forward, and a day is never longer than the lifetime of a row.
ASSUME DaysAssumption ==
    /\ DayOf \in [Instants -> Nat]
    /\ \A i, j \in Instants : i <= j => DayOf[i] <= DayOf[j]
    /\ \A i, j \in Instants : DayOf[i] = DayOf[j] => j < i + Ttl
ASSUME WeathersAssumption == Weathers \subseteq SUBSET Hazards

VARIABLES
    weather,  \* the hazards of this behaviour
    sink,     \* the sink of each send
    now,      \* clock.now()
    log,      \* F_IDEMPOTENCY_LOG: expires_at of the row of each key, 0 when there is none
    send,     \* where each send is; day of its key, attempt, tickets tried and sent
    out       \* history: what has really been delivered, by whom

vars == <<weather, sink, now, log, send, out>>

Days == {DayOf[i] : i \in Instants}
Keys == Sinks \X Days
Ends == {"delivered", "skipped", "unsent", "failed", "cancelled"}
SendStates == [pc : {"idle", "claim", "insert", "send", "release"} \cup Ends, day : Days,
               try : 1..(Retries + 1), tried : SUBSET Items, sent : SUBSET Items]
Deliveries == [send : Sends, day : Days, try : 1..(Retries + 1), item : Items]

TypeOK ==
    /\ weather \in SUBSET Hazards
    /\ sink \in [Sends -> Sinks]
    /\ now \in Instants
    /\ log \in [Keys -> 0..(Horizon + Ttl)]
    /\ send \in [Sends -> SendStates]
    /\ out \subseteq Deliveries

Init ==
    /\ weather \in Weathers
    /\ sink \in Plans
    /\ now = 0
    /\ log = [k \in Keys |-> 0]
    /\ send = [a \in Sends |-> [pc |-> "idle", day |-> DayOf[0], try |-> 1, tried |-> {}, sent |-> {}]]
    /\ out = {}

-------------------------------------------------------------------------------
Today == DayOf[now]
Key(a) == <<sink[a], send[a].day>>
Todo(a) == Batch[sink[a]]
IsMail(a) == Kind[sink[a]] = "email"
At(a, pc) == send[a].pc = pc
Goto(a, pc) == send' = [send EXCEPT ![a].pc = pc]
Active(a)   == send[a].pc \in {"claim", "insert", "send", "release"}
May(h)      == h \in weather

Begin(a) ==
    /\ At(a, "idle")
    /\ May("twins") \/ \A b \in Sends : sink[b] = sink[a] => ~Active(b)
    /\ Goto(a, "claim")
    /\ UNCHANGED <<weather, sink, now, log, out>>

\* Fail-closed: no mail for a deactivated owner.
OwnerInactive(a) ==
    /\ May("inactive") /\ IsMail(a)
    /\ At(a, "claim")
    /\ Goto(a, "unsent")
    /\ UNCHANGED <<weather, sink, now, log, out>>

\* A row that is_expired() does not count.
Live(k) == log[k] > now

\* claim_idempotency_key: the key of today is looked up, then inserted.
Lookup(a) ==
    /\ At(a, "claim")
    /\ send' = [send EXCEPT ![a].day = Today,
                            ![a].pc = IF Live(<<sink[a], Today>>) THEN "skipped" ELSE "insert"]
    /\ UNCHANGED <<weather, sink, now, log, out>>

ShortLife == now + Ttl - 1                                              \* mutant
Expiry == now + Ttl
Claimed(k) == [log EXCEPT ![k] = Expiry]
\* The unique constraint decides between two claims that both found nothing.
Insert(a) ==
    /\ At(a, "insert")
    /\ IF Live(Key(a)) THEN Goto(a, "skipped") /\ UNCHANGED log
       ELSE Goto(a, "send") /\ log' = Claimed(Key(a))
    /\ UNCHANGED <<weather, sink, now, out>>

\* _claim_in_dedicated_session fails open: the sink executes without a claim.
ClaimFails(a) ==
    /\ May("dberror")
    /\ At(a, "claim") \/ At(a, "insert")
    /\ send' = [send EXCEPT ![a].day = Today, ![a].pc = "send"]
    /\ UNCHANGED <<weather, sink, now, log, out>>

KeepRow(k) == log                                                      \* mutant
Released(k) == [log EXCEPT ![k] = 0]

\* No ticket to send: the claim is released, the step succeeds.
NoTickets(a) ==
    /\ At(a, "send") /\ Todo(a) = {}
    /\ log' = Released(Key(a))
    /\ Goto(a, "unsent")
    /\ UNCHANGED <<weather, sink, now, out>>

\* No SMTP configuration: the step succeeds with a warning, and the claim stays.
NoSmtp(a) ==
    /\ May("smtp") /\ IsMail(a)
    /\ At(a, "send") /\ Todo(a) # {} /\ send[a].tried = {}
    /\ Goto(a, "unsent")
    /\ UNCHANGED <<weather, sink, now, log, out>>

Delivery(a, i) == [send |-> a, day |-> send[a].day, try |-> send[a].try, item |-> i]
InHand(a, i)   == At(a, "send") /\ i \in Todo(a) \ send[a].tried

Deliver(a, i) ==
    /\ InHand(a, i)
    /\ send' = [send EXCEPT ![a].tried = @ \cup {i}, ![a].sent = @ \cup {i}]
    /\ out' = out \cup {Delivery(a, i)}
    /\ UNCHANGED <<weather, sink, now, log>>

Bounce(a, i) ==
    /\ InHand(a, i)
    /\ send' = [send EXCEPT ![a].tried = @ \cup {i}]
    /\ \/ UNCHANGED out
       \/ May("lost") /\ IsMail(a) /\ out' = out \cup {Delivery(a, i)}
    /\ UNCHANGED <<weather, sink, now, log>>

SomeFailed(a)  == send[a].sent # Todo(a)                                \* mutant
NothingSent(a) == send[a].sent = {}
\* Every ticket has been tried: the step succeeds if one has left.
EndSend(a) ==
    /\ At(a, "send") /\ Todo(a) # {} /\ send[a].tried = Todo(a)
    /\ Goto(a, IF NothingSent(a) THEN "release" ELSE "delivered")
    /\ UNCHANGED <<weather, sink, now, log, out>>

OneTooMany(a) == send[a].try <= Retries + 1                             \* mutant
Another(a)    == send[a].try <= Retries
\* The step raises: retry, or failed.
Raise(a) ==
    IF Another(a)
    THEN send' = [send EXCEPT ![a].pc = "claim", ![a].try = @ + 1, ![a].tried = {}, ![a].sent = {}]
    ELSE Goto(a, "failed")

Release(a) ==
    /\ At(a, "release")
    /\ \/ log' = Released(Key(a))
       \/ May("dberror") /\ UNCHANGED log
    /\ Raise(a)
    /\ UNCHANGED <<weather, sink, now, out>>

\* Building the SMTP client raises after the claim, which stays.
BrokenSmtp(a) ==
    /\ May("broken") /\ IsMail(a)
    /\ At(a, "send") /\ Todo(a) # {} /\ send[a].tried = {}
    /\ Raise(a)
    /\ UNCHANGED <<weather, sink, now, log, out>>

\* CancelledError: a report or an export releases its claim, but not before it works with
\* it; a mail keeps it, and the ticket in the hands of the SMTP thread may still leave; a
\* release that is interrupted is rolled back.
Cancel(a) ==
    /\ May("cancel") /\ Active(a)
    /\ \/ UNCHANGED <<log, out>> /\ (At(a, "send") => IsMail(a))
       \/ At(a, "insert") /\ ~Live(Key(a)) /\ log' = Claimed(Key(a)) /\ UNCHANGED out
       \/ At(a, "send") /\ ~IsMail(a) /\ send[a].tried = {} /\ log' = Released(Key(a)) /\ UNCHANGED out
       \/ \E i \in Items : InHand(a, i) /\ IsMail(a) /\ out' = out \cup {Delivery(a, i)} /\ UNCHANGED log
    /\ Goto(a, "cancelled")
    /\ UNCHANGED <<weather, sink, now>>

Crash ==
    /\ May("crash") /\ \E a \in Sends : Active(a)
    /\ send' = [a \in Sends |-> IF Active(a) THEN [send[a] EXCEPT !.pc = "cancelled"] ELSE send[a]]
    /\ UNCHANGED <<weather, sink, now, log, out>>

\* _purge_idempotency_logs_sync
Purge ==
    /\ log' = [k \in Keys |-> IF log[k] <= now THEN 0 ELSE log[k]]
    /\ log' # log
    /\ UNCHANGED <<weather, sink, now, send, out>>

\* A claim takes less than an instant.
Tick ==
    /\ now < Horizon /\ \A a \in Sends : ~At(a, "insert")
    /\ now' = now + 1
    /\ UNCHANGED <<weather, sink, log, send, out>>

SendNext(a) ==
    \/ Begin(a) \/ OwnerInactive(a) \/ Lookup(a) \/ Insert(a) \/ ClaimFails(a)
    \/ NoTickets(a) \/ NoSmtp(a) \/ BrokenSmtp(a) \/ EndSend(a) \/ Release(a) \/ Cancel(a)
    \/ \E i \in Items : Deliver(a, i) \/ Bounce(a, i)

Next == Crash \/ Purge \/ Tick \/ \E a \in Sends : SendNext(a)

Spec == Init /\ [][Next]_vars

-------------------------------------------------------------------------------
Gone(k)  == {d \in out : sink[d.send] = k[1] /\ d.day = k[2]}

\* Nothing is delivered twice under a key, by whatever sends, retries, cancellations and
\* crashes, unless a claim fails open or SMTP misreports (idempotency_service.py).
OncePerDay ==
    weather \cap {"dberror", "lost"} = {} =>
        \A d, e \in out : sink[d.send] = sink[e.send] /\ d.day = e.day /\ d.item = e.item
                            => d = e

\* A step delivers in one of its attempts only, even when midnight falls between them: it
\* fails, and is tried again, only if nothing has left.
OneAttempt == ~May("lost") => \A d, e \in out : d.send = e.send => d.try = e.try

\* A retry is never taken for a duplicate of the attempt that failed: the claim is released
\* on the failure that causes the retry (dag_executor.py, the retry loop).
RetryRuns ==
    weather \cap {"broken", "dberror", "twins"} = {} =>
        \A a \in Sends : At(a, "skipped") => send[a].try = 1

\* A step skipped as a duplicate stands for a delivery that took place under the same key.
SkippedForDelivery ==
    weather \subseteq {"lost", "inactive"} =>
        \A a \in Sends : At(a, "skipped") => Gone(Key(a)) # {}

===============================================================================
