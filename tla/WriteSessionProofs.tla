-------------------------- MODULE WriteSessionProofs --------------------------
(* For every set of demands, clicks and weathers: types, one write per demand    *)
(* even when threads share their transaction, and, when they do not, estimates   *)
(* that leave nothing behind and an audit that tells the truth.                  *)
EXTENDS WriteSession, TLAPS

(* The inductive invariant.                                                    *)
\* A thread is busy from the moment it has read the mode of the connection to the moment it
\* has set it back; a statement is open or kept once it has been executed.
Busy(p) == tx[p].pc \in {"set", "execute", "end", "restore"}
Open == kept \cup conn.open
\* A click is involved in its demand once it has reserved it.
Involved(c) == call[c].pc \in {"recheck", "write"} \/ \E x \in Open : x.by = c

\* A thread works only for a call that waits for it; a demand whose estimate is not done has
\* no row; a demand that a click was involved in never awaits again, so no second click gets
\* hold of it: this is what keeps writes unique, even when threads share a transaction.
InCall ==
    \A p \in Calls : Working(p)
        => call[p].pc \in IF p \in Demands THEN {"estimate"} ELSE {"recheck", "write"}
Unasked == \A d \in Demands : call[d].pc \in {"idle", "estimate"} => row[d].st = "none"
Tried ==
    \A c \in Clicks : Involved(c)
        => call[c].pc # "idle" /\ row[Of(c)].st \in {"executing", "failed", "executed"}
OneTry == \A c, e \in Clicks : Involved(c) /\ Involved(e) /\ Of(c) = Of(e) => c = e
Reserved == InCall /\ Unasked /\ Tried /\ OneTry

\* Each call runs the kind of statement its program counter tells, with no outcome before the end.
InPhase ==
    \A p \in Calls : /\ call[p].pc = "write" => tx[p].ph = "real"
                     /\ call[p].pc \in {"estimate", "recheck"} => tx[p].ph = "dry"
                     /\ tx[p].pc \in {"read", "set", "execute", "end"} => tx[p].out = "none"
\* Threads that do not share the connection use it one at a time: between two of them it is
\* in autocommit with nothing open, and a busy thread finds open its own statement only, which
\* it leaves open after a rollback that failed: of an estimate, or after a broken line.
Unrolled(p) == "rollback" \in weather /\ (tx[p].ph = "dry" \/ "line" \in weather)
OneBusy == \A p, q \in Calls : Busy(p) /\ Busy(q) => p = q
Transaction ==
    /\ (\A p \in Calls : ~Busy(p)) => conn.auto /\ conn.open = {}
    /\ \A p \in Calls : Busy(p) =>
          /\ tx[p].prev
          /\ (conn.auto <=> tx[p].pc = "set")
          /\ tx[p].pc \in {"set", "execute"} => conn.open = {}
          /\ tx[p].pc = "end" => conn.open = {Stmt(p)}
          /\ tx[p].pc = "restore" => conn.open = {} \/ (conn.open = {Stmt(p)} /\ Unrolled(p))
\* So estimates are rolled back, and a write that has succeeded has been committed,
KeptReal == "rollback" \notin weather => \A x \in kept : x.ph = "real"
Written == \A c \in Clicks : At(c, "write") /\ tx[c].out = "ok" => [by |-> c, ph |-> "real"] \in kept
\* ... before its demand is marked executed.
ExecutedKept == \A d \in Demands : row[d].st = "executed" => Real(d) # {}
Orderly == OneBusy /\ Transaction /\ KeptReal /\ Written /\ ExecutedKept

\* Without the hazards that cut a write from its verdict, a demand is executing exactly while
\* a click holds it, no sweep takes it away, no link is sent for a demand that is marked
\* failed, and what was committed for a click is what its demand ends with.
Sheltered == "shared" \notin weather /\ weather \cap Cuts = {}
HeldExecuting == \A d \in Demands : row[d].st = "executing" <=> Held(d)
NeverOld == \A d \in Demands : ~row[d].old
Linked ==
    /\ \A d \in Demands : call[d].pc \in {"idle", "estimate", "mail", "unsent"} => ~row[d].link
    /\ \A c \in Clicks : Involved(c) => row[Of(c)].link
KeptOk == \A x \in kept : x.ph = "real" /\ x.by \in Clicks =>
             call[x.by].pc # "recheck" /\ (call[x.by].pc = "write" => tx[x.by].out = "ok")
FailedNothing == \A d \in Demands : row[d].st = "failed" => Real(d) = {}
Uncut == HeldExecuting /\ NeverOld /\ Linked /\ KeptOk /\ FailedNothing

IInv == /\ TypeOK /\ Reserved /\ InPhase
        /\ "shared" \notin weather => Orderly
        /\ Sheltered => Uncut

-------------------------------------------------------------------------------
\* What the small writes do.
LEMMA GotoFields ==
    ASSUME TypeOK, NEW p \in Calls, NEW l, Goto(p, l)
    PROVE  /\ call'[p].pc = l /\ call'[p].of = call[p].of
           /\ \A q \in Calls \ {p} : call'[q] = call[q]
           /\ l \in {"idle", "estimate", "mail", "unsent", "recheck", "write", "verdict", "gone"}
                => call' \in [Calls -> CallStates]
BY DEF Goto, TypeOK, CallStates

LEMMA AnswersFields ==
    ASSUME TypeOK, NEW p \in Calls, NEW d \in Demands, NEW l, Answers(p, d, l)
    PROVE  /\ call'[p].pc = l /\ call'[p].of = d
           /\ \A q \in Calls \ {p} : call'[q] = call[q]
           /\ l \in {"recheck", "gone"} => call' \in [Calls -> CallStates]
BY DEF Answers, TypeOK, CallStates

LEMMA StatusFields ==
    ASSUME TypeOK, NEW d \in Demands, NEW st \in Statuses, Status(d, st)
    PROVE  /\ row'[d].st = st /\ ~row'[d].old /\ row'[d].link = row[d].link
           /\ \A e \in Demands \ {d} : row'[e] = row[e]
           /\ row' \in [Demands -> Rows]
BY DEF Status, TypeOK, Rows

LEMMA BeginFields ==
    ASSUME TypeOK, NEW p \in Calls, NEW ph \in Phases, Begin(p, ph)
    PROVE  /\ tx'[p].pc = "read" /\ tx'[p].ph = ph /\ tx'[p].out = "none"
           /\ \A q \in Calls \ {p} : tx'[q] = tx[q]
           /\ tx' \in [Calls -> TxStates]
BY DEF Begin, TypeOK, TxStates, Outcomes

LEMMA IdleFields ==
    ASSUME TypeOK, NEW p \in Calls, tx' = [tx EXCEPT ![p] = Idle]
    PROVE  /\ tx'[p].pc = "none" /\ tx'[p].ph = "dry" /\ tx'[p].out = "none"
           /\ \A q \in Calls \ {p} : tx'[q] = tx[q]
           /\ tx' \in [Calls -> TxStates]
BY DEF Idle, TypeOK, TxStates, Phases, Outcomes

LEMMA ComesIdle ==
    ASSUME NEW P, NEW p, Comes(p, P)
    PROVE  p \in P /\ call[p].pc = "idle"
<1>1. Idlers(P) # {} => (CHOOSE q \in Idlers(P) : TRUE) \in Idlers(P)
  OBVIOUS
<1> QED
  BY <1>1 DEF Comes, Idlers

LEMMA StatusNames ==
    {"none", "awaiting", "executing", "rejected", "executed", "failed", "aborted", "expired"} = Statuses
BY DEF Statuses, Final

\* What has been written for a demand stays so when nothing is written: a click that has
\* statements is not idle, and keeps its demand.
LEMMA RealSame ==
    ASSUME Tried, kept' = kept,
           \A c \in Clicks : call[c].pc # "idle" => call'[c].of = call[c].of
    PROVE  \A d \in Demands : Real(d)' = Real(d)
BY DEF Tried, Involved, Open, Real, Of

LEMMA GivesFields ==
    ASSUME TypeOK, NEW c \in Calls, Of(c) \in Demands, NEW st \in Statuses, Gives(c, st)
    PROVE  /\ call'[c].pc = "gone" /\ call'[c].of = call[c].of
           /\ tx'[c].pc = "none" /\ tx'[c].ph = "dry" /\ tx'[c].out = "none"
           /\ \A q \in Calls \ {c} : call'[q] = call[q] /\ tx'[q] = tx[q]
           /\ row'[Of(c)].st = st /\ ~row'[Of(c)].old /\ row'[Of(c)].link = row[Of(c)].link
           /\ \A e \in Demands \ {Of(c)} : row'[e] = row[e]
<1>1. Goto(c, "gone") /\ tx' = [tx EXCEPT ![c] = Idle] /\ Status(Of(c), st)
  BY DEF Gives
<1>2. /\ row'[Of(c)].st = st /\ ~row'[Of(c)].old /\ row'[Of(c)].link = row[Of(c)].link
      /\ \A e \in Demands \ {Of(c)} : row'[e] = row[e]
  BY <1>1, StatusFields
<1>3. call'[c].pc = "gone" /\ call'[c].of = call[c].of /\ \A q \in Calls \ {c} : call'[q] = call[q]
  BY <1>1, GotoFields
<1> QED
  BY <1>1, <1>2, <1>3, IdleFields

\* Threads that are not on the connection do not disturb it.
LEMMA OffConnection ==
    ASSUME Orderly, UNCHANGED <<weather, conn, kept>>,
           \A p \in Calls : \/ tx'[p] = tx[p]
                            \/ tx[p].pc = "none" /\ tx'[p].pc \in {"none", "read"}
    PROVE  OneBusy' /\ Transaction' /\ KeptReal'
BY DEF Orderly, OneBusy, Busy, Transaction, Unrolled, Stmt, KeptReal

-------------------------------------------------------------------------------
(* Proposals and clicks.                                                        *)
LEMMA ProposeInv ==
    ASSUME IInv, NEW d \in Demands, Propose(d)
    PROVE  IInv'
<1>1. TypeOK /\ Reserved /\ InPhase /\ (\A p \in Calls : call[p].of \in Demands)
  BY DEF IInv, TypeOK, CallStates
<1>2. /\ call[d].pc = "idle" /\ row[d].st = "none" /\ d \in Calls /\ tx[d].pc = "none"
      /\ call'[d].pc \in {"estimate", "gone"} /\ call'[d].of = call[d].of
      /\ \A q \in Calls \ {d} : call'[q] = call[q] /\ tx'[q] = tx[q]
      /\ tx'[d].pc \in {"none", "read"} /\ (call'[d].pc = "estimate" => tx'[d].ph = "dry" /\ row'[d].st = "none")
      /\ row'[d].st \in {"none", "rejected"} /\ row'[d].link = row[d].link /\ (row[d].old \/ ~row'[d].old)
      /\ \A e \in Demands \ {d} : row'[e] = row[e]
      /\ tx'[d].pc = "read" => call'[d].pc = "estimate" /\ tx'[d].out = "none"
      /\ UNCHANGED <<weather, conn, kept>>
  BY <1>1, DisjointAssumption, ComesIdle, GotoFields, BeginFields, StatusFields, StatusNames DEF
       Propose, Phases, Calls, Reserved, Unasked, InCall, Working
<1>3. TypeOK'
  BY <1>1, ComesIdle, GotoFields, BeginFields, StatusFields, StatusNames DEF Propose, Phases,
       Calls, TypeOK
<1>4. Reserved'
  BY <1>1, <1>2, DisjointAssumption DEF Calls, Reserved, InCall, Unasked, Tried, OneTry, Involved,
       Open, Working, Of
<1>5. InPhase'
  BY <1>1, <1>2 DEF InPhase, Calls
<1>6. \A e \in Demands : Real(e)' = Real(e)
  BY <1>1, <1>2, RealSame DEF Reserved, Calls
<1>7. ASSUME Orderly PROVE Orderly'
  <2>1. OneBusy' /\ Transaction' /\ KeptReal'
    BY <1>1, <1>2, <1>7, OffConnection DEF Reserved, InCall, Working, Calls
  <2>2. Written'
    BY <1>1, <1>2, <1>7, DisjointAssumption DEF Orderly, Written, At, Calls
  <2>3. ExecutedKept'
    BY <1>1, <1>2, <1>6, <1>7 DEF Orderly, ExecutedKept
  <2> QED
    BY <2>1, <2>2, <2>3 DEF Orderly
<1>8. ASSUME Sheltered, Uncut PROVE Uncut'
  BY <1>1, <1>2, <1>6, <1>8, DisjointAssumption DEF Uncut, Sheltered, Cuts, HeldExecuting, Held, NeverOld,
       Linked, KeptOk, FailedNothing, Reserved, Tried, OneTry, Involved, Open, Of, Calls
<1> QED
  BY <1>2, <1>3, <1>4, <1>5, <1>7, <1>8 DEF IInv, Sheltered

LEMMA InsertInv ==
    ASSUME IInv, NEW d \in Demands, Insert(d)
    PROVE  IInv'
<1>1. TypeOK /\ Reserved /\ InPhase /\ (\A p \in Calls : call[p].of \in Demands)
  BY DEF IInv, TypeOK, CallStates
<1>2. /\ call[d].pc = "estimate" /\ row[d].st = "none" /\ d \in Calls /\ tx[d].pc = "none"
      /\ call'[d].pc \in {"mail", "gone"} /\ call'[d].of = call[d].of
      /\ \A q \in Calls \ {d} : call'[q] = call[q] /\ tx'[q] = tx[q]
      /\ tx'[d].pc = "none" /\ tx'[d].ph = "dry" /\ tx'[d].out = "none"
      /\ row'[d].st \in {"awaiting", "rejected"} /\ row'[d].link = row[d].link /\ ~row'[d].old
      /\ \A e \in Demands \ {d} : row'[e] = row[e]
      /\ UNCHANGED <<weather, conn, kept>>
  <2>1. d \in Calls /\ call[d].pc = "estimate" /\ row[d].st = "none" /\ tx[d].pc = "none"
    BY <1>1 DEF Insert, At, Ended, Calls, Reserved, Unasked
  <2>2. PICK st \in {"awaiting", "rejected"}, l \in {"mail", "gone"} : Status(d, st) /\ Goto(d, l)
    BY DEF Insert
  <2>3. /\ row'[d].st = st /\ ~row'[d].old /\ row'[d].link = row[d].link
        /\ \A e \in Demands \ {d} : row'[e] = row[e]
    BY <1>1, <2>2, StatusFields, StatusNames
  <2>4. call'[d].pc = l /\ call'[d].of = call[d].of /\ \A q \in Calls \ {d} : call'[q] = call[q]
    BY <1>1, <2>1, <2>2, GotoFields
  <2> QED
    BY <1>1, <2>1, <2>3, <2>4, IdleFields DEF Insert
<1>3. TypeOK'
  BY <1>1, GotoFields, IdleFields, StatusFields, StatusNames DEF Insert, Calls, TypeOK
<1>4. Reserved'
  BY <1>1, <1>2, DisjointAssumption DEF Calls, Reserved, InCall, Unasked, Tried, OneTry, Involved,
       Open, Working, Of
<1>5. InPhase'
  BY <1>1, <1>2 DEF InPhase, Calls
<1>6. \A e \in Demands : Real(e)' = Real(e)
  BY <1>1, <1>2, RealSame DEF Reserved, Calls
<1>7. ASSUME Orderly PROVE Orderly'
  <2>1. OneBusy' /\ Transaction' /\ KeptReal'
    BY <1>1, <1>2, <1>7, OffConnection DEF Reserved, InCall, Working, Calls
  <2>2. Written'
    BY <1>1, <1>2, <1>7, DisjointAssumption DEF Orderly, Written, At, Calls
  <2>3. ExecutedKept'
    BY <1>1, <1>2, <1>6, <1>7 DEF Orderly, ExecutedKept
  <2> QED
    BY <2>1, <2>2, <2>3 DEF Orderly
<1>8. ASSUME Sheltered, Uncut PROVE Uncut'
  BY <1>1, <1>2, <1>6, <1>8, DisjointAssumption DEF Uncut, Sheltered, Cuts, HeldExecuting, Held, NeverOld,
       Linked, KeptOk, FailedNothing, Reserved, Tried, OneTry, Involved, Open, Of, Calls
<1> QED
  BY <1>2, <1>3, <1>4, <1>5, <1>7, <1>8 DEF IInv, Sheltered

LEMMA MailInv ==
    ASSUME IInv, NEW d \in Demands, Mail(d)
    PROVE  IInv'
<1>1. TypeOK /\ Reserved /\ InPhase /\ (\A p \in Calls : call[p].of \in Demands)
  BY DEF IInv, TypeOK, CallStates
<1>2. /\ call[d].pc = "mail" /\ d \in Calls
      /\ call'[d].pc \in {"gone", "unsent"} /\ call'[d].of = call[d].of
      /\ \A q \in Calls \ {d} : call'[q] = call[q]
      /\ row'[d].st = row[d].st /\ row'[d].old = row[d].old /\ (row[d].link => row'[d].link)
      /\ row'[d].link /\ "misreport" \notin weather => row[d].link \/ call'[d].pc = "gone"
      /\ \A e \in Demands \ {d} : row'[e] = row[e]
      /\ UNCHANGED <<weather, tx, conn, kept>>
  BY <1>1, GotoFields DEF Mail, At, Calls, TypeOK, Rows, May
<1>3. TypeOK'
  BY <1>1, GotoFields DEF Mail, Calls, TypeOK, Rows
<1>4. Reserved'
  BY <1>1, <1>2, DisjointAssumption DEF Calls, Reserved, InCall, Unasked, Tried, OneTry, Involved,
       Open, Working, Of
<1>5. InPhase'
  BY <1>1, <1>2 DEF InPhase, Calls
<1>6. \A e \in Demands : Real(e)' = Real(e)
  BY <1>1, <1>2, RealSame DEF Reserved, Calls
<1>7. ASSUME Orderly PROVE Orderly'
  <2>1. OneBusy' /\ Transaction' /\ KeptReal'
    BY <1>1, <1>2, <1>7, OffConnection DEF Reserved, InCall, Working, Calls
  <2>2. Written'
    BY <1>1, <1>2, <1>7, DisjointAssumption DEF Orderly, Written, At, Calls
  <2>3. ExecutedKept'
    BY <1>1, <1>2, <1>6, <1>7 DEF Orderly, ExecutedKept
  <2> QED
    BY <2>1, <2>2, <2>3 DEF Orderly
<1>8. ASSUME Sheltered, Uncut PROVE Uncut'
  BY <1>1, <1>2, <1>6, <1>8, DisjointAssumption DEF Uncut, Sheltered, Cuts, HeldExecuting, Held, NeverOld,
       Linked, KeptOk, FailedNothing, Reserved, Tried, OneTry, Involved, Open, Of, Calls
<1> QED
  BY <1>2, <1>3, <1>4, <1>5, <1>7, <1>8 DEF IInv, Sheltered

LEMMA UnsentInv ==
    ASSUME IInv, NEW d \in Demands, Unsent(d)
    PROVE  IInv'
<1>1. TypeOK /\ Reserved /\ InPhase /\ (\A p \in Calls : call[p].of \in Demands)
  BY DEF IInv, TypeOK, CallStates
<1>2. /\ call[d].pc = "unsent" /\ d \in Calls
      /\ call'[d].pc = "gone" /\ call'[d].of = call[d].of
      /\ \A q \in Calls \ {d} : call'[q] = call[q]
      /\ row'[d].st = "failed" /\ ~row'[d].old /\ row'[d].link = row[d].link
      /\ \A e \in Demands \ {d} : row'[e] = row[e]
      /\ UNCHANGED <<weather, tx, conn, kept>>
  BY <1>1, GotoFields, StatusFields, StatusNames DEF Unsent, At, Calls
<1>3. TypeOK'
  BY <1>1, GotoFields, StatusFields, StatusNames DEF Unsent, Calls, TypeOK
<1>4. Reserved'
  BY <1>1, <1>2, DisjointAssumption DEF Calls, Reserved, InCall, Unasked, Tried, OneTry, Involved,
       Open, Working, Of
<1>5. InPhase'
  BY <1>1, <1>2 DEF InPhase, Calls
<1>6. \A e \in Demands : Real(e)' = Real(e)
  BY <1>1, <1>2, RealSame DEF Reserved, Calls
<1>7. ASSUME Orderly PROVE Orderly'
  <2>1. OneBusy' /\ Transaction' /\ KeptReal'
    BY <1>1, <1>2, <1>7, OffConnection DEF Reserved, InCall, Working, Calls
  <2>2. Written'
    BY <1>1, <1>2, <1>7, DisjointAssumption DEF Orderly, Written, At, Calls
  <2>3. ExecutedKept'
    BY <1>1, <1>2, <1>6, <1>7 DEF Orderly, ExecutedKept
  <2> QED
    BY <2>1, <2>2, <2>3 DEF Orderly
<1>8. ASSUME Sheltered, Uncut PROVE Uncut'
  <2>1. \A c \in Clicks : Of(c) = d => ~Involved(c)
    BY <1>2, <1>8 DEF Uncut, Linked
  <2>2. Real(d) = {}
    BY <2>1 DEF Real, Involved, Open
  <2> QED
    BY <1>1, <1>2, <1>6, <1>8, <2>1, <2>2, DisjointAssumption DEF Uncut, Sheltered, Cuts, HeldExecuting,
         Held, NeverOld, Linked, KeptOk, FailedNothing, Reserved, Tried, OneTry, Involved, Open,
         Of, Calls
<1> QED
  BY <1>2, <1>3, <1>4, <1>5, <1>7, <1>8 DEF IInv, Sheltered

LEMMA ReserveInv ==
    ASSUME IInv, NEW c \in Clicks, NEW d \in Demands, Reserve(c, d)
    PROVE  IInv'
<1>1. TypeOK /\ Reserved /\ InPhase /\ (\A p \in Calls : call[p].of \in Demands)
  BY DEF IInv, TypeOK, CallStates
<1>2. /\ call[c].pc = "idle" /\ c \in Calls /\ tx[c].pc = "none" /\ row[d].st = "awaiting" /\ row[d].link
      /\ call'[c].pc = "recheck" /\ call'[c].of = d
      /\ \A q \in Calls \ {c} : call'[q] = call[q] /\ tx'[q] = tx[q]
      /\ tx'[c].pc = "read" /\ tx'[c].ph = "dry" /\ tx'[c].out = "none"
      /\ row'[d].st = "executing" /\ ~row'[d].old /\ row'[d].link
      /\ \A e \in Demands \ {d} : row'[e] = row[e]
      /\ UNCHANGED <<weather, conn, kept>>
  BY <1>1, DisjointAssumption, ComesIdle, AnswersFields, BeginFields, StatusFields, StatusNames
       DEF Reserve, Clicked, Awaited, Phases, Calls, Reserved, InCall, Working
<1>3. TypeOK'
  BY <1>1, AnswersFields, BeginFields, StatusFields, StatusNames DEF Reserve, Phases, Calls,
       TypeOK
<1>4. Reserved'
  BY <1>1, <1>2, DisjointAssumption DEF Calls, Reserved, InCall, Unasked, Tried, OneTry, Involved,
       Open, Working, Of
<1>5. InPhase'
  BY <1>1, <1>2 DEF InPhase, Calls
<1>6. \A e \in Demands : Real(e)' = Real(e)
  BY <1>1, <1>2, RealSame DEF Reserved, Calls
<1>7. ASSUME Orderly PROVE Orderly'
  <2>1. OneBusy' /\ Transaction' /\ KeptReal'
    BY <1>1, <1>2, <1>7, OffConnection DEF Reserved, InCall, Working, Calls
  <2>2. Written'
    BY <1>1, <1>2, <1>7, DisjointAssumption DEF Orderly, Written, At, Calls
  <2>3. ExecutedKept'
    BY <1>1, <1>2, <1>6, <1>7 DEF Orderly, ExecutedKept
  <2> QED
    BY <2>1, <2>2, <2>3 DEF Orderly
<1>8. ASSUME Sheltered, Uncut PROVE Uncut'
  BY <1>1, <1>2, <1>6, <1>8, DisjointAssumption DEF Uncut, Sheltered, Cuts, HeldExecuting, Held, NeverOld,
       Linked, KeptOk, FailedNothing, Reserved, Tried, OneTry, Involved, Open, Of, Calls
<1> QED
  BY <1>2, <1>3, <1>4, <1>5, <1>7, <1>8 DEF IInv, Sheltered

LEMMA TooLateInv ==
    ASSUME IInv, NEW c \in Clicks, NEW d \in Demands, TooLate(c, d)
    PROVE  IInv'
<1>1. TypeOK /\ Reserved /\ InPhase /\ (\A p \in Calls : call[p].of \in Demands)
  BY DEF IInv, TypeOK, CallStates
<1>2. /\ call[c].pc = "idle" /\ c \in Calls
      /\ call'[c].pc = "gone" /\ call'[c].of = d
      /\ \A q \in Calls \ {c} : call'[q] = call[q]
      /\ row' = row \/ (row[d].st = "awaiting" /\ row'[d].st = "expired" /\ ~row'[d].old /\ row'[d].link = row[d].link)
      /\ \A e \in Demands \ {d} : row'[e] = row[e]
      /\ UNCHANGED <<weather, tx, conn, kept>>
  <2>1. c \in Calls /\ call[c].pc = "idle" /\ Answers(c, d, "gone")
    BY ComesIdle DEF TooLate, Clicked, Calls
  <2>2. CASE Awaited(d)
    BY <1>1, <2>1, <2>2, AnswersFields, StatusFields, StatusNames DEF TooLate, Awaited
  <2>3. CASE ~Awaited(d)
    BY <1>1, <2>1, <2>3, AnswersFields DEF TooLate
  <2> QED
    BY <2>2, <2>3
<1>3. TypeOK'
  <2>1. c \in Calls /\ Answers(c, d, "gone")
    BY DEF TooLate, Calls
  <2>2. CASE Awaited(d)
    BY <1>1, <2>1, <2>2, AnswersFields, StatusFields, StatusNames DEF TooLate, TypeOK
  <2>3. CASE ~Awaited(d)
    BY <1>1, <2>1, <2>3, AnswersFields DEF TooLate, TypeOK
  <2> QED
    BY <2>2, <2>3
<1>4. Reserved'
  BY <1>1, <1>2, DisjointAssumption DEF Calls, Reserved, InCall, Unasked, Tried, OneTry, Involved,
       Open, Working, Of
<1>5. InPhase'
  BY <1>1, <1>2 DEF InPhase, Calls
<1>6. \A e \in Demands : Real(e)' = Real(e)
  BY <1>1, <1>2, RealSame DEF Reserved, Calls
<1>7. ASSUME Orderly PROVE Orderly'
  <2>1. OneBusy' /\ Transaction' /\ KeptReal'
    BY <1>1, <1>2, <1>7, OffConnection DEF Reserved, InCall, Working, Calls
  <2>2. Written'
    BY <1>1, <1>2, <1>7, DisjointAssumption DEF Orderly, Written, At, Calls
  <2>3. ExecutedKept'
    BY <1>1, <1>2, <1>6, <1>7 DEF Orderly, ExecutedKept
  <2> QED
    BY <2>1, <2>2, <2>3 DEF Orderly
<1>8. ASSUME Sheltered, Uncut PROVE Uncut'
  BY <1>1, <1>2, <1>6, <1>8, DisjointAssumption DEF Uncut, Sheltered, Cuts, HeldExecuting, Held, NeverOld,
       Linked, KeptOk, FailedNothing, Reserved, Tried, OneTry, Involved, Open, Of, Calls
<1> QED
  BY <1>2, <1>3, <1>4, <1>5, <1>7, <1>8 DEF IInv, Sheltered

LEMMA RejectInv ==
    ASSUME IInv, NEW c \in Clicks, NEW d \in Demands, Reject(c, d)
    PROVE  IInv'
<1>1. TypeOK /\ Reserved /\ InPhase /\ (\A p \in Calls : call[p].of \in Demands)
  BY DEF IInv, TypeOK, CallStates
<1>2. /\ call[c].pc = "idle" /\ c \in Calls
      /\ call'[c].pc = "gone" /\ call'[c].of = d
      /\ \A q \in Calls \ {c} : call'[q] = call[q]
      /\ row' = row \/ (row[d].st = "awaiting" /\ row'[d].st = "aborted" /\ ~row'[d].old /\ row'[d].link = row[d].link)
      /\ \A e \in Demands \ {d} : row'[e] = row[e]
      /\ UNCHANGED <<weather, tx, conn, kept>>
  <2>1. c \in Calls /\ call[c].pc = "idle" /\ Answers(c, d, "gone")
    BY ComesIdle DEF Reject, Clicked, Calls
  <2>2. CASE Awaited(d)
    BY <1>1, <2>1, <2>2, AnswersFields, StatusFields, StatusNames DEF Reject, Awaited
  <2>3. CASE ~Awaited(d)
    BY <1>1, <2>1, <2>3, AnswersFields DEF Reject
  <2> QED
    BY <2>2, <2>3
<1>3. TypeOK'
  <2>1. c \in Calls /\ Answers(c, d, "gone")
    BY DEF Reject, Calls
  <2>2. CASE Awaited(d)
    BY <1>1, <2>1, <2>2, AnswersFields, StatusFields, StatusNames DEF Reject, TypeOK
  <2>3. CASE ~Awaited(d)
    BY <1>1, <2>1, <2>3, AnswersFields DEF Reject, TypeOK
  <2> QED
    BY <2>2, <2>3
<1>4. Reserved'
  BY <1>1, <1>2, DisjointAssumption DEF Calls, Reserved, InCall, Unasked, Tried, OneTry, Involved,
       Open, Working, Of
<1>5. InPhase'
  BY <1>1, <1>2 DEF InPhase, Calls
<1>6. \A e \in Demands : Real(e)' = Real(e)
  BY <1>1, <1>2, RealSame DEF Reserved, Calls
<1>7. ASSUME Orderly PROVE Orderly'
  <2>1. OneBusy' /\ Transaction' /\ KeptReal'
    BY <1>1, <1>2, <1>7, OffConnection DEF Reserved, InCall, Working, Calls
  <2>2. Written'
    BY <1>1, <1>2, <1>7, DisjointAssumption DEF Orderly, Written, At, Calls
  <2>3. ExecutedKept'
    BY <1>1, <1>2, <1>6, <1>7 DEF Orderly, ExecutedKept
  <2> QED
    BY <2>1, <2>2, <2>3 DEF Orderly
<1>8. ASSUME Sheltered, Uncut PROVE Uncut'
  BY <1>1, <1>2, <1>6, <1>8, DisjointAssumption DEF Uncut, Sheltered, Cuts, HeldExecuting, Held, NeverOld,
       Linked, KeptOk, FailedNothing, Reserved, Tried, OneTry, Involved, Open, Of, Calls
<1> QED
  BY <1>2, <1>3, <1>4, <1>5, <1>7, <1>8 DEF IInv, Sheltered

LEMMA RecheckInv ==
    ASSUME IInv, NEW c \in Clicks, Recheck(c)
    PROVE  IInv'
<1>1. TypeOK /\ Reserved /\ InPhase /\ (\A p \in Calls : call[p].of \in Demands)
  BY DEF IInv, TypeOK, CallStates
<1>2. /\ call[c].pc = "recheck" /\ c \in Calls /\ tx[c].pc = "none" /\ Of(c) \in Demands
      /\ call'[c].pc \in {"write", "gone"} /\ call'[c].of = call[c].of
      /\ \A q \in Calls \ {c} : call'[q] = call[q] /\ tx'[q] = tx[q]
      /\ call'[c].pc = "write" => tx'[c].pc = "read" /\ tx'[c].ph = "real" /\ row' = row
      /\ call'[c].pc = "gone" => tx'[c].pc = "none" /\ row'[Of(c)].st = "failed" /\ ~row'[Of(c)].old
      /\ row'[Of(c)].link = row[Of(c)].link /\ tx'[c].out = "none"
      /\ \A e \in Demands \ {Of(c)} : row'[e] = row[e]
      /\ UNCHANGED <<weather, conn, kept>>
  <2>1. call[c].pc = "recheck" /\ c \in Calls /\ tx[c].pc = "none" /\ Of(c) \in Demands
    BY <1>1 DEF Recheck, At, Ended, Of, Calls
  <2>2. CASE Goto(c, "write") /\ Begin(c, "real") /\ UNCHANGED row
    BY <1>1, <2>1, <2>2, GotoFields, BeginFields DEF Recheck, Phases
  <2>3. CASE Gives(c, "failed")
    BY <1>1, <2>1, <2>3, GivesFields, StatusNames DEF Recheck
  <2> QED
    BY <2>2, <2>3 DEF Recheck
<1>3. TypeOK'
  BY <1>1, <1>2, GotoFields, BeginFields, IdleFields, StatusFields, StatusNames DEF Recheck,
       Gives, Phases, Calls, TypeOK
<1>4. Reserved'
  BY <1>1, <1>2, DisjointAssumption DEF Calls, Reserved, InCall, Unasked, Tried, OneTry, Involved,
       Open, Working, Of
<1>5. InPhase'
  BY <1>1, <1>2 DEF InPhase, Calls
<1>6. \A e \in Demands : Real(e)' = Real(e)
  BY <1>1, <1>2, RealSame DEF Reserved, Calls
<1>7. ASSUME Orderly PROVE Orderly'
  <2>1. OneBusy' /\ Transaction' /\ KeptReal'
    BY <1>1, <1>2, <1>7, OffConnection DEF Reserved, InCall, Working, Calls
  <2>2. Written'
    BY <1>1, <1>2, <1>7, DisjointAssumption DEF Orderly, Written, At, Calls
  <2>3. ExecutedKept'
    BY <1>1, <1>2, <1>6, <1>7 DEF Orderly, ExecutedKept
  <2> QED
    BY <2>1, <2>2, <2>3 DEF Orderly
<1>8. ASSUME Sheltered, Uncut PROVE Uncut'
  <2>1. \A e \in Clicks : Involved(e) /\ Of(e) = Of(c) => e = c
    BY <1>1, <1>2 DEF Reserved, OneTry, Involved
  <2>2. row'[Of(c)].st = "failed" => Real(Of(c)) = {}
    <3> SUFFICES ASSUME NEW x \in Real(Of(c)), row'[Of(c)].st = "failed" PROVE FALSE
      OBVIOUS
    <3>1. x \in kept /\ x.ph = "real" /\ x.by = c
      BY <2>1 DEF Real, Involved, Open
    <3> QED
      BY <1>2, <1>8, <3>1 DEF Uncut, KeptOk
  <2> QED
    BY <1>1, <1>2, <1>6, <1>8, <2>1, <2>2, DisjointAssumption DEF Uncut, Sheltered, Cuts, HeldExecuting,
         Held, NeverOld, Linked, KeptOk, FailedNothing, Reserved, Tried, OneTry, Involved, Open,
         Of, Calls
<1> QED
  BY <1>2, <1>3, <1>4, <1>5, <1>7, <1>8 DEF IInv, Sheltered

LEMMA FinishInv ==
    ASSUME IInv, NEW c \in Clicks, Finish(c)
    PROVE  IInv'
<1>1. TypeOK /\ Reserved /\ InPhase /\ (\A p \in Calls : call[p].of \in Demands)
  BY DEF IInv, TypeOK, CallStates
<1>2. /\ call[c].pc = "write" /\ c \in Calls /\ tx[c].pc = "none" /\ Of(c) \in Demands
      /\ call'[c].pc = "gone" /\ call'[c].of = call[c].of
      /\ \A q \in Calls \ {c} : call'[q] = call[q] /\ tx'[q] = tx[q]
      /\ tx'[c].pc = "none" /\ ~row'[Of(c)].old
      /\ \/ tx[c].out = "raised" /\ row'[Of(c)].st = "failed"
         \/ tx[c].out = "ok" /\ row'[Of(c)].st = "executed"
      /\ row'[Of(c)].link = row[Of(c)].link
      /\ \A e \in Demands \ {Of(c)} : row'[e] = row[e]
      /\ UNCHANGED <<weather, conn, kept>>
  <2>1. /\ call[c].pc = "write" /\ c \in Calls /\ tx[c].pc = "none" /\ Of(c) \in Demands
        /\ tx[c].out \in {"ok", "raised"}
    BY <1>1 DEF Finish, At, Ended, Of, Calls, TypeOK, TxStates, Outcomes
  <2>2. CASE tx[c].out = "raised"
    <3>1. Gives(c, "failed")
      BY <2>2 DEF Finish
    <3> QED
      BY <1>1, <2>1, <2>2, <3>1, GivesFields, StatusNames DEF Finish
  <2>3. CASE tx[c].out = "ok"
    <3>1. Gives(c, "executed")
      BY <2>3 DEF Finish
    <3> QED
      BY <1>1, <2>1, <2>3, <3>1, GivesFields, StatusNames DEF Finish
  <2> QED
    BY <2>1, <2>2, <2>3
<1>3. TypeOK'
  BY <1>1, <1>2, GotoFields, IdleFields, StatusFields, StatusNames DEF Finish, Gives, Calls,
       TypeOK
<1>4. Reserved'
  BY <1>1, <1>2, DisjointAssumption DEF Calls, Reserved, InCall, Unasked, Tried, OneTry, Involved,
       Open, Working, Of
<1>5. InPhase'
  BY <1>1, <1>2 DEF InPhase, Calls
<1>6. \A e \in Demands : Real(e)' = Real(e)
  BY <1>1, <1>2, RealSame DEF Reserved, Calls
<1>7. ASSUME Orderly PROVE Orderly'
  <2>1. OneBusy' /\ Transaction' /\ KeptReal'
    BY <1>1, <1>2, <1>7, OffConnection DEF Reserved, InCall, Working, Calls
  <2>2. Written'
    BY <1>1, <1>2, <1>7, DisjointAssumption DEF Orderly, Written, At, Calls
  <2>3. ExecutedKept'
    <3>1. tx[c].out = "ok" => Real(Of(c)) # {}
      <4> DEFINE x == [by |-> c, ph |-> "real"]
      <4>1. tx[c].out = "ok" => x \in kept
        BY <1>2, <1>7 DEF Orderly, Written, At
      <4>2. x.ph = "real" /\ x.by = c
        OBVIOUS
      <4> QED
        BY <4>1, <4>2 DEF Real
    <3> QED
      BY <1>1, <1>2, <1>6, <1>7, <3>1 DEF Orderly, ExecutedKept
  <2> QED
    BY <2>1, <2>2, <2>3 DEF Orderly
<1>8. ASSUME Sheltered, Uncut PROVE Uncut'
  <2>1. \A e \in Clicks : Involved(e) /\ Of(e) = Of(c) => e = c
    BY <1>1, <1>2 DEF Reserved, OneTry, Involved
  <2>2. row'[Of(c)].st = "failed" => Real(Of(c)) = {}
    <3> SUFFICES ASSUME NEW x \in Real(Of(c)), row'[Of(c)].st = "failed" PROVE FALSE
      OBVIOUS
    <3>1. x \in kept /\ x.ph = "real" /\ x.by = c
      BY <2>1 DEF Real, Involved, Open
    <3> QED
      BY <1>2, <1>8, <3>1 DEF Uncut, KeptOk
  <2> QED
    BY <1>1, <1>2, <1>6, <1>8, <2>1, <2>2, DisjointAssumption DEF Uncut, Sheltered, Cuts, HeldExecuting,
         Held, NeverOld, Linked, KeptOk, FailedNothing, Reserved, Tried, OneTry, Involved, Open,
         Of, Calls
<1> QED
  BY <1>2, <1>3, <1>4, <1>5, <1>7, <1>8 DEF IInv, Sheltered

\* The row stays as it is: what held it lets go of it.
LEMMA WriteFailsInv ==
    ASSUME IInv, NEW p \in Calls, WriteFails(p)
    PROVE  IInv'
<1>1. TypeOK /\ Reserved /\ InPhase
  BY DEF IInv
<1>2. /\ call[p].pc # "idle" /\ call'[p].pc = "gone" /\ call'[p].of = call[p].of /\ tx[p].pc = "none"
      /\ tx'[p].pc = "none" /\ tx'[p].ph = "dry" /\ tx'[p].out = "none"
      /\ \A q \in Calls \ {p} : call'[q] = call[q] /\ tx'[q] = tx[q]
      /\ UNCHANGED <<weather, row, conn, kept>>
  <2>1. tx[p].pc = "none"
    BY <1>1, DisjointAssumption DEF WriteFails, At, Ended, Reserved, InCall, Working, Calls
  <2> QED
    BY <1>1, <2>1, GotoFields, IdleFields DEF WriteFails, At
<1>3. TypeOK'
  BY <1>1, GotoFields, IdleFields DEF WriteFails, TypeOK
<1>4. Reserved'
  BY <1>1, <1>2, DisjointAssumption DEF Calls, Reserved, InCall, Unasked, Tried, OneTry, Involved,
       Open, Working, Of
<1>5. InPhase'
  BY <1>1, <1>2 DEF InPhase, Calls
<1>6. ASSUME Orderly PROVE Orderly'
  <2>1. OneBusy' /\ Transaction' /\ KeptReal'
    BY <1>2, <1>6, OffConnection
  <2>2. Written'
    BY <1>2, <1>6 DEF Orderly, Written, At, Calls
  <2>3. \A e \in Demands : Real(e)' = Real(e)
    BY <1>1, <1>2, RealSame DEF Reserved, Calls
  <2>4. ExecutedKept'
    BY <1>2, <1>6, <2>3 DEF Orderly, ExecutedKept
  <2> QED
    BY <2>1, <2>2, <2>4 DEF Orderly
<1>7. ~Sheltered
  BY DEF WriteFails, May, Sheltered, Cuts
<1> QED
  BY <1>2, <1>3, <1>4, <1>5, <1>6, <1>7 DEF IInv, Sheltered

-------------------------------------------------------------------------------
(* The threads.                                                                 *)
LEMMA MoveFields ==
    ASSUME TypeOK, NEW p \in Calls, NEW l \in {"none", "set", "execute", "end", "restore"}, Move(p, l)
    PROVE  /\ tx'[p].pc = l /\ tx'[p].ph = tx[p].ph /\ tx'[p].out = tx[p].out /\ tx'[p].prev = tx[p].prev
           /\ \A q \in Calls \ {p} : tx'[q] = tx[q]
           /\ tx' \in [Calls -> TxStates]
BY DEF Move, TypeOK, TxStates

LEMMA StmtType ==
    ASSUME TypeOK, NEW p \in Calls
    PROVE  Stmt(p) \in Statements /\ Stmt(p).by = p /\ Stmt(p).ph = tx[p].ph
BY DEF Stmt, Statements, TypeOK, TxStates

LEMMA EndFields ==
    ASSUME TypeOK, NEW p \in Calls, NEW o \in {"ok", "raised"},
           tx' = [tx EXCEPT ![p].pc = "restore", ![p].out = o]
    PROVE  /\ tx'[p].pc = "restore" /\ tx'[p].ph = tx[p].ph /\ tx'[p].out = o /\ tx'[p].prev = tx[p].prev
           /\ \A q \in Calls \ {p} : tx'[q] = tx[q]
           /\ tx' \in [Calls -> TxStates]
<1> DEFINE x == [tx[p] EXCEPT !.pc = "restore", !.out = o]
<1>1. tx[p] \in TxStates
  BY DEF TypeOK
<1>2. /\ x \in TxStates /\ x.pc = "restore" /\ x.out = o
      /\ x.ph = tx[p].ph /\ x.prev = tx[p].prev
  BY <1>1 DEF TxStates, Outcomes
<1>3. tx' = [tx EXCEPT ![p] = x]
  OBVIOUS
<1> HIDE DEF x
<1> QED
  BY <1>2, <1>3 DEF TypeOK

LEMMA ReadFields ==
    ASSUME TypeOK, NEW p \in Calls, ReadMode(p)
    PROVE  /\ tx'[p].pc = "set" /\ tx'[p].ph = tx[p].ph /\ tx'[p].out = tx[p].out /\ tx'[p].prev = conn.auto
           /\ \A q \in Calls \ {p} : tx'[q] = tx[q]
           /\ tx' \in [Calls -> TxStates]
BY DEF ReadMode, TypeOK, TxStates

\* A move of a thread leaves calls and rows alone, and adds at most its own statement.
LEMMA ThreadFields ==
    ASSUME TypeOK, NEW p \in Calls, Thread(p)
    PROVE  /\ UNCHANGED <<weather, row, call>> /\ TypeOK'
           /\ Working(p) /\ tx'[p].ph = tx[p].ph
           /\ \A q \in Calls \ {p} : tx'[q] = tx[q]
           /\ kept \subseteq kept' /\ kept' \cup conn'.open \subseteq Open \cup {Stmt(p)}
<1>1. Stmt(p) \in Statements
  BY StmtType
<1>2. CASE ReadMode(p)
  BY <1>2, ReadFields DEF ReadMode, TypeOK, Working, Open
<1>3. CASE SetMode(p)
  <2>1. conn'.open = conn.open /\ conn' \in [auto : BOOLEAN, open : SUBSET Statements]
    BY <1>3 DEF SetMode, TypeOK
  <2> QED
    BY <1>3, <2>1, MoveFields DEF SetMode, TypeOK, Working, Open
<1>4. CASE Execute(p)
  <2>1. /\ conn' \in [auto : BOOLEAN, open : SUBSET Statements] /\ kept' \subseteq Statements
        /\ kept \subseteq kept' /\ kept' \cup conn'.open \subseteq Open \cup {Stmt(p)}
    BY <1>1, <1>4 DEF Execute, TypeOK, Open
  <2> QED
    BY <1>4, <2>1, MoveFields DEF Execute, TypeOK, Working
<1>5. CASE Refused(p) \/ RollbackFails(p)
  <2>1. conn'.open \subseteq conn.open /\ conn' \in [auto : BOOLEAN, open : SUBSET Statements]
    BY <1>5 DEF Refused, RollbackFails, RolledBack, TypeOK
  <2> QED
    BY <1>5, <2>1, EndFields DEF Refused, RollbackFails, TypeOK, Working, Open
<1>6. CASE EndTx(p)
  <2>1. /\ conn' \in [auto : BOOLEAN, open : SUBSET Statements] /\ kept' \subseteq Statements
        /\ kept \subseteq kept' /\ kept' \cup conn'.open \subseteq Open
    BY <1>6 DEF EndTx, TypeOK, Open
  <2> QED
    BY <1>6, <2>1, EndFields DEF EndTx, TypeOK, Working
<1>7. CASE LineBreaks(p)
  <2>1. /\ conn' \in [auto : BOOLEAN, open : SUBSET Statements] /\ kept' \subseteq Statements
        /\ kept \subseteq kept' /\ kept' \cup conn'.open \subseteq Open
    BY <1>7 DEF LineBreaks, RolledBack, TypeOK, Open
  <2> QED
    BY <1>7, <2>1, EndFields DEF LineBreaks, TypeOK, Working
<1>8. CASE Restore(p)
  <2>1. /\ conn' \in [auto : BOOLEAN, open : SUBSET Statements] /\ kept' \subseteq Statements
        /\ kept \subseteq kept' /\ kept' \cup conn'.open \subseteq Open
    BY <1>8 DEF Restore, TypeOK, TxStates, Open
  <2> QED
    BY <1>8, <2>1, MoveFields DEF Restore, TypeOK, Working
<1>9. CASE RestoreFails(p)
  <2>1. conn' \in [auto : BOOLEAN, open : SUBSET Statements] /\ conn'.open = {}
    BY <1>9 DEF RestoreFails
  <2> QED
    BY <1>9, <2>1, MoveFields DEF RestoreFails, TypeOK, Working, Open
<1> QED
  BY <1>2, <1>3, <1>4, <1>5, <1>6, <1>7, <1>8, <1>9 DEF Thread

LEMMA ThreadReserved ==
    ASSUME IInv, NEW p \in Calls, Thread(p)
    PROVE  TypeOK' /\ Reserved' /\ InPhase'
<1>1. TypeOK /\ Reserved /\ InPhase
  BY DEF IInv
<1>2. /\ UNCHANGED <<weather, row, call>> /\ TypeOK'
      /\ Working(p) /\ tx'[p].ph = tx[p].ph
      /\ \A q \in Calls \ {p} : tx'[q] = tx[q]
      /\ kept' \cup conn'.open \subseteq Open \cup {Stmt(p)}
  BY <1>1, ThreadFields
<1>3. Stmt(p).by = p
  BY DEF Stmt
<1>4. \A c \in Clicks : Involved(c)' => Involved(c)
  <2> SUFFICES ASSUME NEW c \in Clicks, Involved(c)' PROVE Involved(c)
    OBVIOUS
  <2>1. CASE call[c].pc \in {"recheck", "write"}
    BY <2>1 DEF Involved
  <2>2. CASE call[c].pc \notin {"recheck", "write"}
    <3>1. PICK x \in kept' \cup conn'.open : x.by = c
      BY <1>2, <2>2 DEF Involved, Open
    <3>2. x # Stmt(p)
      BY <1>1, <1>2, <1>3, <2>2, <3>1, DisjointAssumption DEF Reserved, InCall
    <3> QED
      BY <1>2, <3>1, <3>2 DEF Involved
  <2> QED
    BY <2>1, <2>2
<1>5. Reserved'
  BY <1>1, <1>2, <1>4 DEF Reserved, InCall, Unasked, Tried, OneTry, Working, Of
<1>6. tx'[p].pc \in {"read", "set", "execute", "end"} => tx'[p].out = "none"
  BY <1>1, ReadFields, MoveFields, EndFields DEF InPhase, Thread, ReadMode, SetMode, Execute, Refused,
       EndTx, LineBreaks, RollbackFails, Restore, RestoreFails
<1>7. InPhase'
  BY <1>1, <1>2, <1>6 DEF InPhase
<1> QED
  BY <1>2, <1>5, <1>7

LEMMA OneThread ==
    ASSUME NEW p \in Calls, \A q \in Calls \ {p} : ~Busy(q) /\ tx'[q] = tx[q],
           IF tx'[p].pc \in {"set", "execute", "end", "restore"}
           THEN /\ tx'[p].prev
                /\ (conn'.auto <=> tx'[p].pc = "set")
                /\ tx'[p].pc \in {"set", "execute"} => conn'.open = {}
                /\ tx'[p].pc = "end" => conn'.open = {Stmt(p)'}
                /\ tx'[p].pc = "restore" => conn'.open = {} \/ (conn'.open = {Stmt(p)'} /\ Unrolled(p)')
           ELSE conn'.auto /\ conn'.open = {}
    PROVE  OneBusy' /\ Transaction'
<1>1. \A q \in Calls \ {p} : ~Busy(q)'
  BY DEF Busy
<1>2. OneBusy'
  BY <1>1 DEF OneBusy
<1>3. Transaction'
  BY <1>1 DEF Transaction, Busy
<1> QED
  BY <1>2, <1>3

\* One thread at a time on the connection: its transaction is its own.
LEMMA ThreadOrderly ==
    ASSUME IInv, NEW p \in Calls, Thread(p), "shared" \notin weather
    PROVE  Orderly'
<1>1. TypeOK /\ Reserved /\ InPhase /\ Orderly /\ conn \in [auto : BOOLEAN, open : SUBSET Statements]
  BY DEF IInv, TypeOK
<1>2. /\ UNCHANGED <<weather, row, call>> /\ Working(p) /\ tx'[p].ph = tx[p].ph
      /\ \A q \in Calls \ {p} : tx'[q] = tx[q]
      /\ kept \subseteq kept'
  BY <1>1, ThreadFields
<1>3. Stmt(p).ph = tx[p].ph /\ Stmt(p).by = p
  BY DEF Stmt
<1>4. \A q \in Calls : Stmt(q)' = Stmt(q)
  BY <1>2 DEF Stmt
<1>5. ASSUME Busy(p) PROVE \A q \in Calls \ {p} : ~Busy(q)
  BY <1>1, <1>5 DEF Orderly, OneBusy
<1>6. CASE ReadMode(p)
  <2>1. \A q \in Calls : ~Busy(q)
    BY <1>6 DEF ReadMode, Busy, May
  <2>2. conn.auto /\ conn.open = {}
    BY <1>1, <2>1 DEF Orderly, Transaction
  <2>3. /\ tx'[p].pc = "set" /\ tx'[p].prev = conn.auto /\ tx'[p].out = tx[p].out
        /\ UNCHANGED <<conn, kept>>
    BY <1>1, <1>6, ReadFields DEF ReadMode
  <2>4. OneBusy' /\ Transaction'
    BY <1>2, <2>1, <2>2, <2>3, OneThread
  <2>5. KeptReal' /\ Written'
    BY <1>1, <1>2, <2>3 DEF Orderly, KeptReal, Written, At, Calls
  <2> QED
    BY <1>1, <1>2, <2>4, <2>5 DEF Orderly, ExecutedKept, Real, Of
<1>7. CASE SetMode(p)
  <2>1. Busy(p) /\ tx[p].pc = "set"
    BY <1>7 DEF SetMode, Busy
  <2>2. /\ tx'[p].pc = "execute" /\ tx'[p].prev = tx[p].prev /\ tx'[p].out = tx[p].out
        /\ ~conn'.auto /\ conn'.open = conn.open /\ kept' = kept
    BY <1>1, <1>7, MoveFields DEF SetMode
  <2>3. OneBusy' /\ Transaction'
    <3>1. tx[p].prev /\ conn.open = {}
      BY <1>1, <2>1 DEF Orderly, Transaction
    <3> QED
      BY <1>2, <1>5, <2>1, <2>2, <3>1, OneThread
  <2>4. KeptReal' /\ Written'
    BY <1>1, <1>2, <2>2 DEF Orderly, KeptReal, Written, At, Calls
  <2> QED
    BY <1>1, <1>2, <2>3, <2>4 DEF Orderly, ExecutedKept, Real, Of
<1>8. CASE Execute(p)
  <2>1. Busy(p) /\ tx[p].pc = "execute"
    BY <1>8 DEF Execute, Busy
  <2>2. tx[p].prev /\ ~conn.auto /\ conn.open = {}
    BY <1>1, <2>1 DEF Orderly, Transaction
  <2>3. /\ tx'[p].pc = "end" /\ tx'[p].prev = tx[p].prev /\ tx'[p].out = tx[p].out
        /\ ~conn'.auto /\ conn'.open = {Stmt(p)} /\ kept' = kept
    BY <1>1, <1>8, <2>2, MoveFields DEF Execute
  <2>4. OneBusy' /\ Transaction'
    BY <1>2, <1>4, <1>5, <2>1, <2>2, <2>3, OneThread
  <2>5. KeptReal' /\ Written'
    BY <1>1, <1>2, <2>3 DEF Orderly, KeptReal, Written, At, Calls
  <2> QED
    BY <1>1, <1>2, <2>4, <2>5 DEF Orderly, ExecutedKept, Real, Of
<1>9. CASE Refused(p) \/ EndTx(p) \/ LineBreaks(p) \/ RollbackFails(p)
  <2>1. Busy(p) /\ tx[p].pc \in {"execute", "end"}
    BY <1>9 DEF Refused, EndTx, LineBreaks, RollbackFails, Busy
  <2>2. tx[p].prev /\ ~conn.auto /\ conn.open = IF tx[p].pc = "end" THEN {Stmt(p)} ELSE {}
    BY <1>1, <2>1 DEF Orderly, Transaction
  <2>3. PICK o \in {"ok", "raised"} : tx' = [tx EXCEPT ![p].pc = "restore", ![p].out = o]
    BY <1>9 DEF Refused, EndTx, LineBreaks, RollbackFails
  <2>4. tx'[p].pc = "restore" /\ tx'[p].prev = tx[p].prev /\ tx'[p].out = o
    BY <1>1, <2>3, EndFields
  <2>5. /\ ~conn'.auto
        /\ conn'.open = {} \/ (conn'.open = {Stmt(p)} /\ Unrolled(p))
    BY <1>1, <1>9, <2>2
    DEF Refused, EndTx, LineBreaks, RollbackFails, RolledBack, Commits, Unrolled, May, TypeOK, TxStates, Phases
  <2>6. kept' = kept \/ (kept' = kept \cup {Stmt(p)} /\ tx[p].ph = "real")
    BY <1>9, <2>2 DEF Refused, EndTx, LineBreaks, RollbackFails, Commits
  <2>7. o = "ok" => EndTx(p)
    BY <1>9, <2>4, <1>1, EndFields DEF Refused, LineBreaks, RollbackFails
  <2>8. OneBusy' /\ Transaction'
    BY <1>2, <1>4, <1>5, <2>1, <2>2, <2>4, <2>5, OneThread DEF Unrolled
  <2>9. KeptReal'
    BY <1>1, <1>2, <1>3, <2>6 DEF Orderly, KeptReal
  <2>10. Written'
    <3>1. ASSUME o = "ok", call[p].pc = "write" PROVE [by |-> p, ph |-> "real"] \in kept'
      <4>1. tx[p].ph = "real"
        BY <1>1, <3>1 DEF InPhase
      <4>2. kept' = kept \cup {Stmt(p)}
        BY <2>2, <2>7, <3>1, <4>1 DEF EndTx, Commits
      <4> QED
        BY <4>1, <4>2 DEF Stmt
    <3> QED
      BY <1>1, <1>2, <2>4, <3>1 DEF Orderly, Written, At, Calls
  <2> QED
    BY <1>1, <1>2, <2>8, <2>9, <2>10 DEF Orderly, ExecutedKept, Real, Of
<1>10. CASE Restore(p)
  <2>1. Busy(p) /\ tx[p].pc = "restore"
    BY <1>10 DEF Restore, Busy
  <2>2. tx[p].prev /\ (conn.open = {} \/ "rollback" \in weather)
    BY <1>1, <2>1 DEF Orderly, Transaction, Unrolled
  <2>3. /\ tx'[p].pc = "none" /\ tx'[p].out = tx[p].out
        /\ conn'.auto /\ conn'.open = {} /\ ("rollback" \notin weather => kept' = kept)
    BY <1>1, <1>10, <2>2, MoveFields DEF Restore
  <2>4. OneBusy' /\ Transaction'
    BY <1>2, <1>5, <2>1, <2>3, OneThread
  <2>5. KeptReal' /\ Written'
    BY <1>1, <1>2, <2>3 DEF Orderly, KeptReal, Written, At, Calls
  <2> QED
    BY <1>1, <1>2, <2>4, <2>5 DEF Orderly, ExecutedKept, Real, Of
<1>11. CASE RestoreFails(p)
  <2>1. Busy(p)
    BY <1>11 DEF RestoreFails, Busy
  <2>2. /\ tx'[p].pc = "none" /\ tx'[p].out = tx[p].out
        /\ conn'.auto /\ conn'.open = {} /\ kept' = kept
    BY <1>1, <1>11, MoveFields DEF RestoreFails
  <2>3. OneBusy' /\ Transaction'
    BY <1>2, <1>5, <2>1, <2>2, OneThread
  <2>4. KeptReal' /\ Written'
    BY <1>1, <1>2, <2>2 DEF Orderly, KeptReal, Written, At, Calls
  <2> QED
    BY <1>1, <1>2, <2>3, <2>4 DEF Orderly, ExecutedKept, Real, Of
<1> QED
  BY <1>6, <1>7, <1>8, <1>9, <1>10, <1>11 DEF Thread

\* Nothing is kept for a click but at the end of its write.
LEMMA ThreadUncut ==
    ASSUME IInv, NEW p \in Calls, Thread(p), Sheltered
    PROVE  Uncut'
<1>1. TypeOK /\ Reserved /\ InPhase /\ Uncut /\ Orderly
  BY DEF IInv, Sheltered, Cuts
<1>2. /\ UNCHANGED <<weather, row, call>> /\ Working(p) /\ tx'[p].ph = tx[p].ph
      /\ \A q \in Calls \ {p} : tx'[q] = tx[q]
      /\ kept' \cup conn'.open \subseteq Open \cup {Stmt(p)}
  BY <1>1, ThreadFields
<1>3. Stmt(p).by = p /\ Stmt(p).ph = tx[p].ph
  BY DEF Stmt
<1>4. \/ kept' = kept
      \/ kept' = kept \cup {Stmt(p)} /\ tx[p].ph = "real" /\ tx'[p].out = "ok" /\ EndTx(p)
      \/ kept' = kept \cup {Stmt(p)} /\ tx[p].ph = "dry"
  <2>1. CASE EndTx(p)
    <3>1. tx'[p].out = "ok" /\ conn.open = {Stmt(p)}
      BY <1>1, <2>1, EndFields DEF EndTx, Orderly, Transaction, Busy
    <3> QED
      BY <2>1, <3>1 DEF EndTx, Commits
  <2>2. CASE Execute(p) \/ Restore(p)
    BY <1>1, <2>2 DEF Execute, Restore, Orderly, Transaction, Unrolled, Busy, Sheltered, Cuts
  <2>3. ~LineBreaks(p)
    BY DEF LineBreaks, May, Sheltered, Cuts
  <2>4. CASE ReadMode(p) \/ SetMode(p) \/ Refused(p) \/ RollbackFails(p) \/ RestoreFails(p)
    BY <2>4 DEF ReadMode, SetMode, Refused, RollbackFails, RestoreFails
  <2> QED
    BY <2>1, <2>2, <2>3, <2>4 DEF Thread
<1>5. p \in Clicks => call[p].pc \in {"recheck", "write"}
  BY <1>1, <1>2, DisjointAssumption DEF Reserved, InCall
<1>6. tx[p].out # "none" => tx'[p].out = tx[p].out
  <2>1. CASE tx[p].pc \in {"read", "set", "execute", "end"}
    BY <1>1, <2>1 DEF InPhase
  <2>2. CASE Restore(p) \/ RestoreFails(p)
    BY <1>1, <2>2, MoveFields DEF Restore, RestoreFails
  <2> QED
    BY <2>1, <2>2 DEF Thread, ReadMode, SetMode, Execute, Refused, EndTx, LineBreaks, RollbackFails
<1>7. KeptOk'
  <2> SUFFICES ASSUME NEW x \in kept', x.ph = "real", x.by \in Clicks
               PROVE  call[x.by].pc # "recheck" /\ (call[x.by].pc = "write" => tx'[x.by].out = "ok")
    BY <1>2 DEF KeptOk
  <2>1. CASE x \in kept
    BY <1>1, <1>2, <1>6, <2>1 DEF Uncut, KeptOk, Calls
  <2>2. CASE x \notin kept
    <3>1. x = Stmt(p) /\ tx[p].ph = "real" /\ tx'[p].out = "ok"
      BY <1>3, <1>4, <2>2
    <3> QED
      BY <1>1, <1>3, <1>5, <3>1 DEF InPhase
  <2> QED
    BY <2>1, <2>2
<1>8. FailedNothing'
  <2> SUFFICES ASSUME NEW d \in Demands, row[d].st = "failed", NEW x \in Real(d)' PROVE FALSE
    BY <1>2 DEF FailedNothing
  <2>1. x \in kept' /\ x.ph = "real" /\ x.by \in Clicks /\ call[x.by].of = d
    BY <1>2 DEF Real, Of
  <2>2. x \notin kept
    BY <1>1, <2>1 DEF Uncut, FailedNothing, Real, Of
  <2>3. x = Stmt(p) /\ x.by = p
    BY <1>3, <1>4, <2>1, <2>2
  <2>4. Held(d)
    BY <1>5, <2>1, <2>3 DEF Held, Of
  <2> QED
    BY <1>1, <2>4 DEF Uncut, HeldExecuting
<1>9. \A c \in Clicks : Involved(c)' => Involved(c)
  <2> SUFFICES ASSUME NEW c \in Clicks, Involved(c)', call[c].pc \notin {"recheck", "write"} PROVE Involved(c)
    BY DEF Involved
  <2>1. PICK x \in kept' \cup conn'.open : x.by = c
    BY <1>2 DEF Involved, Open
  <2> QED
    BY <1>2, <1>3, <1>5, <2>1 DEF Involved
<1> QED
  BY <1>1, <1>2, <1>7, <1>8, <1>9 DEF Uncut, HeldExecuting, Held, NeverOld, Linked, Of

LEMMA ThreadInv ==
    ASSUME IInv, NEW p \in Calls, Thread(p)
    PROVE  IInv'
<1>1. weather' = weather
  BY ThreadFields DEF IInv
<1> QED
  BY <1>1, ThreadReserved, ThreadOrderly, ThreadUncut DEF IInv, Sheltered

-------------------------------------------------------------------------------
(* Time, the sweep and the process.                                             *)
\* A row that only ages, or is swept, keeps what was written for its demand.
LEMMA RowsInv ==
    ASSUME IInv, TypeOK', UNCHANGED <<weather, call, tx, conn, kept>>,
           \A d \in Demands :
              /\ row'[d].link = row[d].link
              /\ \/ row'[d].st = row[d].st
                 \/ row[d].st = "awaiting" /\ row'[d].st = "expired"
                 \/ row[d].st = "executing" /\ row'[d].st = "failed" /\ row[d].old
              /\ Sheltered => (row'[d].old <=> row[d].old)
    PROVE  IInv'
<1>1. TypeOK /\ Reserved /\ InPhase /\ (\A p \in Calls : call[p].of \in Demands)
  BY DEF IInv, TypeOK, CallStates
<1>2. Reserved'
  BY <1>1 DEF Calls, Reserved, InCall, Unasked, Tried, OneTry, Involved, Open, Working, Of
<1>3. InPhase'
  BY <1>1 DEF InPhase
<1>4. \A d \in Demands : Real(d)' = Real(d)
  BY <1>1, RealSame DEF Reserved
<1>5. ASSUME Orderly PROVE Orderly'
  <2>1. OneBusy' /\ Transaction' /\ KeptReal'
    BY <1>5, OffConnection DEF Orderly
  <2>2. Written'
    BY <1>5 DEF Orderly, Written, At
  <2>3. ExecutedKept'
    BY <1>4, <1>5 DEF Orderly, ExecutedKept
  <2> QED
    BY <2>1, <2>2, <2>3 DEF Orderly
<1>6. ASSUME Sheltered, Uncut PROVE Uncut'
  <2>1. \A d \in Demands : ~row[d].old
    BY <1>6 DEF Uncut, NeverOld
  <2> QED
    BY <1>1, <1>4, <1>6, <2>1 DEF Uncut, HeldExecuting, Held, NeverOld, Linked, KeptOk, FailedNothing,
         Involved, Open, Of, Calls
<1> QED
  BY <1>2, <1>3, <1>5, <1>6 DEF IInv, Sheltered

LEMMA TimeInv ==
    ASSUME IInv, Sweep \/ (\E d \in Demands : Elapse(d) \/ Age(d))
    PROVE  IInv'
<1>1. TypeOK
  BY DEF IInv
<1>2. CASE Sweep
  <2>1. \A d \in Demands : row[d] \in Rows
    BY <1>1 DEF TypeOK
  <2>2. \A d \in Demands :
           /\ row'[d] \in Rows /\ row'[d].link = row[d].link
           /\ \/ row'[d].st = row[d].st /\ row'[d].old = row[d].old
              \/ row[d].st = "awaiting" /\ row'[d].st = "expired" /\ row'[d].old = row[d].old
              \/ row[d].st = "executing" /\ row'[d].st = "failed" /\ row[d].old
    BY <1>2, <2>1, StatusNames DEF Sweep, Zombie, Rows
  <2>3. TypeOK'
    <3>1. row' \in [Demands -> Rows]
      BY <1>2, <2>2 DEF Sweep
    <3> QED
      BY <1>1, <1>2, <3>1 DEF Sweep, TypeOK
  <2>4. Sheltered => \A d \in Demands : ~row[d].old
    BY DEF IInv, Uncut, NeverOld
  <2> QED
    BY <1>2, <2>2, <2>3, <2>4, RowsInv DEF Sweep
<1>3. ASSUME NEW d \in Demands, Elapse(d) PROVE IInv'
  <2>1. /\ row' \in [Demands -> Rows]
        /\ \A e \in Demands : row'[e].st = row[e].st /\ row'[e].link = row[e].link /\ row'[e].old = row[e].old
    BY <1>1, <1>3 DEF Elapse, TypeOK, Rows
  <2>2. TypeOK'
    BY <1>1, <1>3, <2>1 DEF Elapse, TypeOK
  <2> QED
    BY <1>3, <2>1, <2>2, RowsInv DEF Elapse
<1>4. ASSUME NEW d \in Demands, Age(d) PROVE IInv'
  <2>1. /\ row' \in [Demands -> Rows]
        /\ \A e \in Demands : row'[e].st = row[e].st /\ row'[e].link = row[e].link
    <3>1. row' = [row EXCEPT ![d].old = TRUE]
      BY <1>4 DEF Age
    <3> QED
      BY <1>1, <3>1 DEF TypeOK, Rows
  <2>2. TypeOK'
    BY <1>1, <1>4, <2>1 DEF Age, TypeOK
  <2>3. ~Sheltered
    BY <1>4 DEF Age, May, Sheltered, Cuts, IInv, Uncut, HeldExecuting
  <2> QED
    BY <1>4, <2>1, <2>2, <2>3, RowsInv DEF Age
<1> QED
  BY <1>2, <1>3, <1>4

LEMMA CrashInv ==
    ASSUME IInv, Crash
    PROVE  IInv'
<1>1. TypeOK /\ Reserved /\ InPhase
  BY DEF IInv
<1>2. /\ \A p \in Calls : /\ call'[p].pc \in {"idle", "gone"} /\ call'[p].of = call[p].of
                          /\ call'[p].pc = "idle" <=> call[p].pc = "idle"
      /\ call' \in [Calls -> CallStates]
  BY <1>1 DEF Crash, At, TypeOK, CallStates
<1>3. /\ \A p \in Calls : tx'[p].pc = "none" /\ tx'[p].ph = "dry" /\ tx'[p].out = "none"
      /\ tx' \in [Calls -> TxStates]
  BY DEF Crash, Idle, TxStates, Phases, Outcomes
<1>4. UNCHANGED <<weather, row, kept>> /\ conn'.auto /\ conn'.open = {} /\ "crash" \in weather
  BY DEF Crash, May
<1>5. TypeOK'
  BY <1>1, <1>2, <1>3, <1>4 DEF Crash, TypeOK
<1>6. \A c \in Clicks : Involved(c)' => Involved(c)
  BY <1>2, <1>4 DEF Involved, Open, Calls
<1>7. Reserved'
  <2>1. InCall'
    BY <1>3 DEF InCall, Working
  <2>2. Unasked'
    BY <1>1, <1>2, <1>4 DEF Reserved, Unasked, Calls
  <2>3. Tried' /\ OneTry'
    BY <1>1, <1>2, <1>4, <1>6 DEF Reserved, Tried, OneTry, Of, Calls
  <2> QED
    BY <2>1, <2>2, <2>3 DEF Reserved
<1>8. InPhase'
  BY <1>2, <1>3 DEF InPhase
<1>9. ASSUME Orderly PROVE Orderly'
  <2>1. \A d \in Demands : Real(d)' = Real(d)
    BY <1>1, <1>2, <1>4, RealSame DEF Reserved, Calls
  <2>2. OneBusy' /\ Transaction'
    BY <1>3, <1>4 DEF OneBusy, Transaction, Busy
  <2>3. KeptReal' /\ Written' /\ ExecutedKept'
    BY <1>2, <1>4, <1>9, <2>1 DEF Orderly, KeptReal, Written, At, ExecutedKept, Calls
  <2> QED
    BY <2>2, <2>3 DEF Orderly
<1> QED
  BY <1>4, <1>5, <1>7, <1>8, <1>9 DEF IInv, Sheltered, Cuts

-------------------------------------------------------------------------------
(* The invariant is inductive.                                                  *)
LEMMA InitInv == Init => IInv
<1> SUFFICES ASSUME Init PROVE IInv
  OBVIOUS
<1>1. TypeOK
  <2>1. row \in [Demands -> Rows]
    BY DEF Init, Rows, Statuses
  <2>2. call \in [Calls -> CallStates]
    <3>1. \A p \in Calls : (IF p \in Demands THEN p ELSE CHOOSE d \in Demands : TRUE) \in Demands
      BY DemandsAssumption
    <3> QED
      BY <3>1 DEF Init, CallStates
  <2>3. tx \in [Calls -> TxStates]
    BY DEF Init, Idle, TxStates, Phases, Outcomes
  <2> QED
    BY <2>1, <2>2, <2>3 DEF Init, TypeOK
<1>2. Reserved
  BY DEF Init, Idle, Reserved, InCall, Unasked, Tried, OneTry, Involved, Open, Working, Calls
<1>3. InPhase
  BY DEF Init, Idle, InPhase
<1>4. Orderly
  BY DEF Init, Idle, Orderly, OneBusy, Busy, Transaction, KeptReal, Written, ExecutedKept, At, Calls
<1>5. Uncut
  BY DEF Init, Uncut, HeldExecuting, Held, NeverOld, Linked, Involved, Open, KeptOk, FailedNothing, Calls
<1> QED
  BY <1>1, <1>2, <1>3, <1>4, <1>5 DEF IInv

LEMMA NextInv == IInv /\ [Next]_vars => IInv'
<1> SUFFICES ASSUME IInv, [Next]_vars PROVE IInv'
  OBVIOUS
<1>1. CASE \E p \in Calls : Thread(p) \/ WriteFails(p)
  BY <1>1, ThreadInv, WriteFailsInv
<1>2. CASE \E d \in Demands : Proposal(d)
  BY <1>2, ProposeInv, InsertInv, MailInv, UnsentInv DEF Proposal
<1>3. CASE \E c \in Clicks : Confirm(c) \/ Click(c)
  BY <1>3, RecheckInv, FinishInv, ReserveInv, TooLateInv, RejectInv DEF Confirm, Click
<1>4. CASE Sweep \/ (\E d \in Demands : Elapse(d) \/ Age(d))
  BY <1>4, TimeInv
<1>5. CASE Crash
  BY <1>5, CrashInv
<1>6. CASE UNCHANGED vars
  <2>1. TypeOK'
    BY <1>6 DEF vars, IInv, TypeOK
  <2> QED
    BY <1>6, <2>1, RowsInv DEF vars
<1> QED
  BY <1>1, <1>2, <1>3, <1>4, <1>5, <1>6 DEF Next

-------------------------------------------------------------------------------
(* Theorems.                                                                    *)
\* The invariant holds in every state the system reaches.
LEMMA Invariance == Spec => []IInv
BY InitInv, NextInv, PTL DEF Spec

\* Every variable keeps its type.
THEOREM Types == Spec => []TypeOK
<1>1. IInv => TypeOK
  BY DEF IInv
<1> QED
  BY <1>1, Invariance, PTL

\* However often its link is clicked, and whatever the threads do to the connection they
\* share, a demand is written at most once, and never after it was refused or has expired.
THEOREM AtMostOnce == Spec => []Once
<1>1. IInv => Once
  <2> SUFFICES ASSUME IInv, NEW d \in Demands
               PROVE  /\ \A x, y \in Real(d) : x = y
                      /\ row[d].st \in {"rejected", "aborted", "expired"} => Real(d) = {}
    BY DEF Once
  <2>1. kept \subseteq Statements /\ Tried /\ OneTry
    BY DEF IInv, TypeOK, Reserved
  <2>2. \A x \in Real(d) : /\ x \in Statements /\ x.ph = "real" /\ x.by \in Clicks
                           /\ Involved(x.by) /\ Of(x.by) = d
    BY <2>1 DEF Real, Involved, Open
  <2>3. ASSUME NEW x \in Real(d), NEW y \in Real(d) PROVE x = y
    <3>1. x.by = y.by
      BY <2>1, <2>2 DEF OneTry
    <3> QED
      BY <2>2, <3>1 DEF Statements
  <2>4. ASSUME NEW x \in Real(d) PROVE row[d].st \in {"executing", "failed", "executed"}
    BY <2>1, <2>2 DEF Tried
  <2> QED
    BY <2>3, <2>4
<1> QED
  BY <1>1, Invariance, PTL

\* While one thread at a time writes on the connection and rollbacks succeed, no estimate is
\* ever kept.
THEOREM DryRunsVanish == Spec => []EstimatesRollBack
<1>1. IInv => EstimatesRollBack
  BY DEF IInv, Orderly, KeptReal, EstimatesRollBack, EstimatesLeaveNothing
<1> QED
  BY <1>1, Invariance, PTL

\* ... and the audit says executed only of what was committed, and, when nothing cuts a
\* confirmation short, failed only of what was not.
THEOREM AuditHonest == Spec => []VerdictTrue
<1>1. IInv => VerdictTrue
  BY DEF IInv, Orderly, ExecutedKept, Uncut, FailedNothing, VerdictTrue, Sheltered, Cuts
<1> QED
  BY <1>1, Invariance, PTL
===============================================================================
