------------------------- MODULE SinkDeliveryProofs -------------------------
(* For any number of sends, sinks, items, retries and instants: types, at most  *)
(* one delivery a day, one successful attempt, no retry taken for a duplicate,  *)
(* no skip without a delivery.                                                  *)
EXTENDS SinkDelivery, TLAPS

-------------------------------------------------------------------------------
(* Types.                                                                       *)
LEMMA DayType == TypeOK => Today \in Days /\ Today \in Nat /\ Days \subseteq Nat
BY DaysAssumption DEF TypeOK, Today, Days

LEMMA KeyType == TypeOK => \A a \in Sends : Key(a) \in Keys /\ Todo(a) \subseteq Items
BY SinksAssumption DEF TypeOK, Key, Keys, SendStates, Todo

LEMMA FirstDay == 0 \in Instants /\ DayOf[0] \in Days
BY NumbersAssumption DEF Instants, Days

LEMMA GotoType ==
    ASSUME TypeOK, NEW a \in Sends, NEW pc \in {"idle", "claim", "insert", "send", "release"} \cup Ends,
           Goto(a, pc)
    PROVE  send' \in [Sends -> SendStates]
BY DEF TypeOK, Goto, SendStates

\* A send that raises is claimed again, or ends.
LEMMA RaiseType ==
    ASSUME TypeOK, NEW a \in Sends, Raise(a)  PROVE send' \in [Sends -> SendStates]
<1>1. Another(a) => send[a].try + 1 \in 1..(Retries + 1)
  BY NumbersAssumption DEF TypeOK, Another, SendStates
<1>2. CASE Another(a)  BY <1>1, <1>2 DEF Raise, TypeOK, SendStates
<1>3. CASE ~Another(a)  BY <1>3, GotoType DEF Raise, Ends
<1>4. QED  BY <1>2, <1>3

LEMMA ReleasedType ==
    ASSUME TypeOK, NEW a \in Sends PROVE Released(Key(a)) \in [Keys -> 0..(Horizon + Ttl)]
BY KeyType, NumbersAssumption DEF TypeOK, Released

LEMMA ClaimedType ==
    ASSUME TypeOK, NEW a \in Sends
    PROVE  Claimed(Key(a)) \in [Keys -> 0..(Horizon + Ttl)] /\ Expiry \in Nat \ {0}
<1>1. Expiry \in 0..(Horizon + Ttl) /\ Expiry # 0
  BY NumbersAssumption DEF Expiry, Instants, TypeOK
<1>2. QED  BY <1>1, KeyType DEF TypeOK, Claimed

LEMMA DeliveryType ==
    ASSUME TypeOK, NEW a \in Sends, NEW i \in Items PROVE Delivery(a, i) \in Deliveries
BY DEF TypeOK, Delivery, Deliveries, SendStates

LEMMA TypedStep == TypeOK /\ [Next]_vars => TypeOK'
<1> SUFFICES ASSUME TypeOK, [Next]_vars PROVE TypeOK'  OBVIOUS
<1> USE DEF TypeOK
<1>1. CASE Crash  BY <1>1 DEF Crash, SendStates, Ends
<1>2. CASE Purge
  <2>1. \A k \in Keys : (IF log[k] <= now THEN 0 ELSE log[k]) \in 0..(Horizon + Ttl)
    BY NumbersAssumption
  <2>2. QED  BY <1>2, <2>1 DEF Purge
<1>3. CASE Tick  BY <1>3, NumbersAssumption DEF Tick, Instants
<1>4. CASE vars' = vars  BY <1>4 DEF vars
<1>5. ASSUME NEW a \in Sends, SendNext(a) PROVE TypeOK'
  <2> USE <1>5
  <2>1. CASE Begin(a)  BY <2>1, GotoType DEF Begin
  <2>2. CASE OwnerInactive(a)  BY <2>2, GotoType DEF OwnerInactive, Ends
  <2>3. CASE Lookup(a)
    BY <2>3, DayType DEF Lookup, SendStates, Ends
  <2>4. CASE Insert(a)  BY <2>4, GotoType, ClaimedType DEF Insert, Ends
  <2>5. CASE ClaimFails(a)  BY <2>5, DayType DEF ClaimFails, SendStates
  <2>6. CASE NoTickets(a)  BY <2>6, GotoType, ReleasedType DEF NoTickets, Ends
  <2>7. CASE NoSmtp(a)  BY <2>7, GotoType DEF NoSmtp, Ends
  <2>8. CASE BrokenSmtp(a)  BY <2>8, RaiseType DEF BrokenSmtp
  <2>9. CASE EndSend(a)  BY <2>9, GotoType DEF EndSend, Ends
  <2>10. CASE Release(a)  BY <2>10, RaiseType, ReleasedType DEF Release
  <2>11. CASE Cancel(a)  BY <2>11, GotoType, ReleasedType, ClaimedType, DeliveryType DEF Cancel, Ends
  <2>12. ASSUME NEW i \in Items, Deliver(a, i) \/ Bounce(a, i) PROVE TypeOK'
    BY <2>12, DeliveryType DEF Deliver, Bounce, SendStates
  <2>13. QED  BY <2>1, <2>2, <2>3, <2>4, <2>5, <2>6, <2>7, <2>8, <2>9, <2>10, <2>11, <2>12 DEF SendNext
<1>6. QED  BY <1>1, <1>2, <1>3, <1>4, <1>5 DEF Next

LEMMA TypedInit == Init => TypeOK
BY FirstDay, NumbersAssumption, SinksAssumption, WeathersAssumption
   DEF Init, TypeOK, SendStates, Instants

\* Every state is well typed: the log only has keys of sinks and days, attempts stay
\* within max_retries.
THEOREM Typed == Spec => []TypeOK
<1>1. QED  BY TypedInit, TypedStep, PTL DEF Spec
-------------------------------------------------------------------------------
(* Once a day.                                                                  *)
Sure    == weather \cap {"dberror", "lost"} = {}
Held(a) == send[a].pc \in {"send", "release"}
\* Nobody can claim k any more: its row is there and lasts, or its day is over.
Locked(k) == log[k] # 0 \/ k[2] < Today
Free(k)   == \A a \in Sends : Held(a) => Key(a) # k
Settled(d) == Locked(<<sink[d.send], d.day>>) /\ Free(<<sink[d.send], d.day>>)
Standing(d) == LET a == d.send IN
    At(a, "send") /\ send[a].day = d.day /\ send[a].try = d.try /\ d.item \in send[a].sent

\* No day is in the future; a row outlives the day of its key; a claim is of today.
Dated   == /\ \A a \in Sends : send[a].day <= Today
           /\ \A d \in out : d.day <= Today
Lasting == \A k \in Keys : log[k] # 0 => \A i \in Instants : DayOf[i] = k[2] => i < log[k]
Prompt  == \A a \in Sends : At(a, "insert") => send[a].day = Today
Bounded == \A a \in Sends : /\ send[a].sent \subseteq send[a].tried /\ send[a].tried \subseteq Todo(a)
                            /\ send[a].pc \in {"idle", "claim", "insert", "release"} => send[a].sent = {}
Time    == Dated /\ Lasting /\ Prompt /\ Bounded

\* A send at work holds its key, alone; what is out is kept by the send that delivered it,
\* or by a locked key.
Guarded == \A a \in Sends : Held(a) => Locked(Key(a))
Alone   == \A a, b \in Sends : Held(a) /\ Held(b) /\ Key(a) = Key(b) => a = b
Kept    == \A d \in out : Standing(d) \/ Settled(d)
Unique  == \A d, e \in out : sink[d.send] = sink[e.send] /\ d.day = e.day /\ d.item = e.item => d = e
Once    == Guarded /\ Alone /\ Kept /\ Unique

\* A step of a send leaves the others alone.
LEMMA OwnStep ==
    ASSUME TypeOK, NEW a \in Sends, SendNext(a)
    PROVE  /\ weather' = weather /\ sink' = sink /\ now' = now /\ Today' = Today
           /\ \A b \in Sends : b # a => send'[b] = send[b]
           /\ Todo(a)' = Todo(a)
BY DEF TypeOK, SendNext, Begin, OwnerInactive, Lookup, Insert, ClaimFails, NoTickets, NoSmtp,
       BrokenSmtp, EndSend, Release, Cancel, Deliver, Bounce, Raise, Goto, Today, Todo

\* What a step may do to the send that takes it: its day is kept, or becomes today; what is
\* sent was tried, and what is tried was to do.
LEMMA OwnSend ==
    ASSUME TypeOK, Time, NEW a \in Sends, SendNext(a)
    PROVE  /\ send'[a].day \in {send[a].day, Today}
           /\ send'[a].pc = "insert" => send'[a].day = Today
           /\ send'[a].sent \subseteq send'[a].tried /\ send'[a].tried \subseteq Todo(a)
           /\ send'[a].pc \in {"idle", "claim", "insert", "release"} => send'[a].sent = {}
<1> USE DEF TypeOK, SendStates, Goto, At, Time, Prompt, Bounded
<1>1. CASE Begin(a)  BY <1>1 DEF Begin
<1>2. CASE OwnerInactive(a)  BY <1>2 DEF OwnerInactive
<1>3. CASE Lookup(a)  BY <1>3 DEF Lookup
<1>4. CASE Insert(a)  BY <1>4 DEF Insert
<1>5. CASE ClaimFails(a)  BY <1>5 DEF ClaimFails
<1>6. CASE NoTickets(a)  BY <1>6 DEF NoTickets
<1>7. CASE NoSmtp(a)  BY <1>7 DEF NoSmtp
<1>8. CASE BrokenSmtp(a)  BY <1>8 DEF BrokenSmtp, Raise
<1>9. CASE EndSend(a)  BY <1>9 DEF EndSend, NothingSent
<1>10. CASE Release(a)  BY <1>10 DEF Release, Raise
<1>11. CASE Cancel(a)  BY <1>11 DEF Cancel
<1>12. CASE \E i \in Items : Deliver(a, i) \/ Bounce(a, i)
  BY <1>12 DEF Deliver, Bounce, InHand
<1>13. QED  BY <1>1, <1>2, <1>3, <1>4, <1>5, <1>6, <1>7, <1>8, <1>9, <1>10, <1>11, <1>12 DEF SendNext

\* A step delivers at most one item, the one in hand.
LEMMA OwnOut ==
    ASSUME TypeOK, NEW a \in Sends, SendNext(a)
    PROVE  out' = out \/ \E i \in Items : InHand(a, i) /\ out' = out \cup {Delivery(a, i)}
<1>1. CASE Cancel(a)  BY <1>1 DEF Cancel
<1>2. CASE \E i \in Items : Deliver(a, i) \/ Bounce(a, i)  BY <1>2 DEF Deliver, Bounce
<1>3. CASE out' = out  BY <1>3
<1>4. QED
  BY <1>1, <1>2, <1>3 DEF SendNext, Begin, OwnerInactive, Lookup, Insert, ClaimFails, NoTickets,
                           NoSmtp, BrokenSmtp, EndSend, Release

\* A row is inserted for today, or released.
LEMMA OwnLog ==
    ASSUME TypeOK, Time, NEW a \in Sends, SendNext(a)
    PROVE  \A k \in Keys : log'[k] \in {0, log[k]} \/ (k[2] = Today /\ log'[k] = Expiry)
<1>1. CASE At(a, "insert") /\ log' = Claimed(Key(a))
  <2>1. Key(a)[2] = Today  BY <1>1 DEF Time, Prompt, Key
  <2>2. QED  BY <1>1, <2>1, KeyType DEF TypeOK, Claimed
<1>2. CASE log' = Released(Key(a))
  BY <1>2, KeyType DEF TypeOK, Released
<1>3. CASE log' = log
  BY <1>3
<1>4. QED
  BY <1>1, <1>2, <1>3 DEF SendNext, Begin, OwnerInactive, Lookup, Insert, ClaimFails, NoTickets,
                           NoSmtp, BrokenSmtp, EndSend, Release, Cancel, Deliver, Bounce

LEMMA TimeStep == TypeOK /\ Time /\ [Next]_vars => Time'
<1> SUFFICES ASSUME TypeOK, Time, [Next]_vars PROVE Time'  OBVIOUS
<1> USE DEF Time
<1>1. CASE Crash
  BY <1>1 DEF Crash, TypeOK, SendStates, Ends, Dated, Lasting, Prompt, Bounded, Active, At, Todo, Today
<1>2. CASE Purge
  BY <1>2 DEF Purge, Dated, Lasting, Prompt, Bounded, At, Todo, Today
<1>3. CASE Tick
  <2>1. Today <= Today' /\ Today' \in Nat
    BY <1>3, NumbersAssumption, DaysAssumption DEF Tick, TypeOK, Today, Instants
  <2>2. Dated'
    BY <1>3, <2>1, DayType DEF Tick, Dated, TypeOK, SendStates, Deliveries
  <2>3. Lasting' /\ Prompt' /\ Bounded'
    BY <1>3 DEF Tick, Lasting, Prompt, Bounded, At, Todo
  <2>4. QED  BY <2>2, <2>3
<1>4. CASE vars' = vars
  BY <1>4 DEF vars, Dated, Lasting, Prompt, Bounded, At, Todo, Today
<1>5. ASSUME NEW a \in Sends, SendNext(a) PROVE Time'
  <2> USE <1>5
  <2>1. /\ send'[a].day \in {send[a].day, Today}
        /\ send'[a].pc = "insert" => send'[a].day = Today
        /\ send'[a].sent \subseteq send'[a].tried /\ send'[a].tried \subseteq Todo(a)
        /\ send'[a].pc \in {"idle", "claim", "insert", "release"} => send'[a].sent = {}
    BY OwnSend
  <2>2. Prompt' /\ Bounded'
    BY <2>1, OwnStep DEF Prompt, Bounded, At, Todo
  <2>3. \A b \in Sends : send'[b].day <= Today'
    BY <2>1, OwnStep, DayType DEF Dated, TypeOK
  <2>4. \A i \in Items : Delivery(a, i).day <= Today
    BY DEF Dated, Delivery
  <2>5. Dated'
    BY <2>3, <2>4, OwnOut, OwnStep DEF Dated
  <2>6. \A i \in Instants : DayOf[i] = Today => i < Expiry
    BY DaysAssumption DEF TypeOK, Today, Expiry
  <2>7. Lasting'
    BY <2>6, OwnLog, OwnStep DEF Lasting
  <2>8. QED  BY <2>2, <2>5, <2>7
<1>6. QED  BY <1>1, <1>2, <1>3, <1>4, <1>5 DEF Next
-------------------------------------------------------------------------------
(* Steps that preserve Once, by what they do to the key of the send.            *)

\* What a key is held, locked or kept by, when only one send moves.
Moves(a) == /\ sink' = sink /\ now' = now
            /\ \A b \in Sends : b # a => send'[b] = send[b]

\* A send that has no claim, before and after; at most it leaves a row behind.
LEMMA OnceOutside ==
    ASSUME TypeOK, Once, NEW a \in Sends, Moves(a), ~Held(a), ~Held(a)', out' = out,
           \A k \in Keys : Locked(k) => Locked(k)'
    PROVE  Once'
<1>1. \A b \in Sends : Held(b)' => b # a /\ Held(b) /\ Key(b)' = Key(b)
  BY DEF Moves, Held, Key
<1>2. \A k : Free(k) => Free(k)'
  BY <1>1 DEF Free
<1>3. \A d \in out : Standing(d) => Standing(d)'
  BY DEF Moves, Standing, Held, At, TypeOK, Deliveries
<1>4. \A d \in out : Settled(d) => Settled(d)'
  <2>1. \A d \in out : <<sink[d.send], d.day>> \in Keys
    BY SinksAssumption DEF TypeOK, Keys, Deliveries
  <2>2. QED  BY <1>2, <2>1 DEF Settled, Moves
<1>5. Guarded'
  BY <1>1, KeyType DEF Once, Guarded
<1>6. QED  BY <1>1, <1>3, <1>4, <1>5 DEF Once, Alone, Kept, Unique, Moves

\* A send that ends with its claim.
LEMMA OnceEnded ==
    ASSUME TypeOK, Once, NEW a \in Sends, Moves(a), Held(a), ~Held(a)', log' = log, out' = out
    PROVE  Once'
<1>1. \A b \in Sends : Held(b)' => b # a /\ Held(b) /\ Key(b)' = Key(b)
  BY DEF Moves, Held, Key
<1>2. \A k : Locked(k)' = Locked(k) /\ (Free(k) => Free(k)')
  BY <1>1 DEF Moves, Locked, Free, Today
<1>3. \A k : k = Key(a) => Locked(k)' /\ Free(k)'
  BY <1>1, <1>2 DEF Once, Guarded, Alone, Free
<1>4. \A d \in out : Standing(d) /\ d.send # a => Standing(d)'
  BY DEF Moves, Standing, At, TypeOK, Deliveries
<1>5. \A d \in out : Standing(d) /\ d.send = a => Settled(d)'
  BY <1>3 DEF Standing, Settled, Key, Moves
<1>6. \A d \in out : Settled(d) => Settled(d)'
  BY <1>2 DEF Settled, Moves
<1>7. QED  BY <1>1, <1>2, <1>4, <1>5, <1>6 DEF Once, Guarded, Alone, Kept, Unique, Moves

\* A send that gives its claim back: nothing is out under that key.
LEMMA OnceReleased ==
    ASSUME TypeOK, Once, NEW a \in Sends, Moves(a), Held(a), ~Held(a)', send[a].sent = {},
           log' = Released(Key(a)), out' = out
    PROVE  Once'
<1>1. \A b \in Sends : Held(b)' => b # a /\ Held(b) /\ Key(b)' = Key(b) /\ Key(b) # Key(a)
  BY DEF Moves, Held, Key, Once, Alone
<1>2. \A k \in Keys : k # Key(a) => Locked(k)' = Locked(k)
  BY DEF Moves, Locked, Today, Released, TypeOK
<1>3. \A k : Free(k) => Free(k)'
  BY <1>1 DEF Free
<1>4. \A d \in out : Standing(d) => Standing(d)'
  BY DEF Moves, Standing, At, TypeOK, Deliveries
<1>5. \A d \in out : Settled(d) => <<sink[d.send], d.day>> # Key(a) /\ <<sink[d.send], d.day>> \in Keys
  BY SinksAssumption DEF Settled, Free, TypeOK, Keys, Deliveries
<1>6. \A d \in out : Settled(d) => Settled(d)'
  BY <1>2, <1>3, <1>5 DEF Settled, Moves
<1>7. Guarded'
  BY <1>1, <1>2, KeyType DEF Once, Guarded
<1>8. QED  BY <1>1, <1>4, <1>6, <1>7 DEF Once, Alone, Kept, Unique, Moves

\* A send that takes a key nobody holds, and under which nothing is out.
LEMMA OnceClaimed ==
    ASSUME TypeOK, Time, Once, NEW a \in Sends, Insert(a), ~Live(Key(a))
    PROVE  Once'
<1>1. Moves(a) /\ out' = out /\ send'[a] = [send[a] EXCEPT !.pc = "send"] /\ log' = Claimed(Key(a))
  BY DEF Insert, Moves, Goto, TypeOK
<1>2. Key(a) \in Keys /\ Key(a)[2] = Today /\ Key(a)' = Key(a)
  <2>1. Key(a)[2] = Today
    BY DEF Insert, Time, Prompt, Key
  <2>2. send'[a].day = send[a].day
    BY <1>1 DEF TypeOK, SendStates
  <2>3. QED  BY <1>1, <2>1, <2>2, KeyType DEF Key, Moves
<1>3. log[Key(a)] = 0
  BY <1>2 DEF Time, Lasting, Live, Today, TypeOK
<1>4. ~Locked(Key(a))
  BY <1>2, <1>3, DayType DEF Locked
<1>5. \A b \in Sends : Held(b) => b # a /\ Key(b) # Key(a)
  BY <1>4 DEF Once, Guarded, Insert, At, Held
<1>6. \A d \in out : <<sink[d.send], d.day>> # Key(a)
  BY <1>4, <1>5 DEF Once, Kept, Standing, Settled, Held, At, Key, TypeOK, Deliveries
<1>7. Expiry # 0
  BY NumbersAssumption DEF Expiry, TypeOK, Instants
<1>8. Locked(Key(a))' /\ \A k \in Keys : Locked(k) => Locked(k)'
  BY <1>1, <1>2, <1>7 DEF Claimed, Locked, Today, Moves, TypeOK
<1>9. \A b \in Sends : b # a => Held(b)' = Held(b) /\ Key(b)' = Key(b)
  BY <1>1 DEF Moves, Held, Key
<1>10. Guarded' /\ Alone'
  BY <1>2, <1>5, <1>8, <1>9, KeyType DEF Once, Guarded, Alone
<1>11. \A d \in out : Standing(d) => Standing(d)'
  BY <1>1, <1>5 DEF Moves, Standing, Held, At, TypeOK, Deliveries
<1>12. \A d \in out : Settled(d) => Settled(d)'
  <2>1. \A d \in out : <<sink[d.send], d.day>> \in Keys
    BY SinksAssumption DEF TypeOK, Keys, Deliveries
  <2>2. \A k : k # Key(a) /\ Free(k) => Free(k)'
    BY <1>2, <1>9 DEF Free
  <2>3. QED  BY <1>1, <1>6, <1>8, <2>1, <2>2 DEF Settled, Moves
<1>13. QED  BY <1>1, <1>10, <1>11, <1>12 DEF Once, Kept, Unique, Moves

\* What is in hand has not been delivered under its key.
LEMMA Fresh ==
    ASSUME TypeOK, Time, Once, NEW a \in Sends, NEW i \in Items, InHand(a, i)
    PROVE  \A e \in out : ~(sink[e.send] = sink[a] /\ e.day = send[a].day /\ e.item = i)
<1> SUFFICES ASSUME NEW e \in out, sink[e.send] = sink[a], e.day = send[a].day, e.item = i
             PROVE  FALSE
  OBVIOUS
<1>1. e.send \in Sends  BY DEF TypeOK, Deliveries
<1>2. Held(a) /\ <<sink[e.send], e.day>> = Key(a)  BY DEF InHand, At, Held, Key
<1>3. ~Settled(e)  BY <1>2 DEF Settled, Free
<1>4. Standing(e)  BY <1>3 DEF Once, Kept
<1>5. e.send = a  BY <1>1, <1>2, <1>4 DEF Standing, At, Held, Key, Once, Alone
<1>6. i \in send[a].sent  BY <1>4, <1>5 DEF Standing
<1>7. QED  BY <1>6 DEF InHand, Time, Bounded

\* A send that works on with its claim: what it adds to what is out, it has in hand.
LEMMA OnceWorking ==
    ASSUME TypeOK, Time, Once, NEW a \in Sends, Moves(a), Held(a), Held(a)', log' = log,
           send'[a].day = send[a].day, send'[a].try = send[a].try,
           \A d \in out : Standing(d) => Standing(d)',
           \/ out' = out
           \/ \E i \in Items : /\ InHand(a, i) /\ out' = out \cup {Delivery(a, i)}
                              /\ send'[a].pc = "send" /\ i \in send'[a].sent
    PROVE  Once'
<1>1. \A b \in Sends : Held(b)' = Held(b) /\ Key(b)' = Key(b)
  BY DEF Moves, Held, Key
<1>2. \A k : Locked(k)' = Locked(k) /\ Free(k)' = Free(k)
  BY <1>1 DEF Moves, Locked, Free, Today
<1>3. Guarded' /\ Alone'
  BY <1>1, <1>2 DEF Once, Guarded, Alone
<1>4. \A d \in out : Settled(d) => Settled(d)'
  BY <1>2 DEF Settled, Moves
<1>5. CASE out' = out
  BY <1>3, <1>4, <1>5 DEF Once, Kept, Unique, Moves
<1>6. ASSUME NEW i \in Items, InHand(a, i), out' = out \cup {Delivery(a, i)},
             send'[a].pc = "send", i \in send'[a].sent
      PROVE  Once'
  <2>1. \A d : d = Delivery(a, i) => Standing(d)'
    BY <1>6 DEF Standing, Delivery, At
  <2>2. Kept'
    <3> SUFFICES ASSUME NEW d \in out' PROVE Standing(d)' \/ Settled(d)'  BY DEF Kept
    <3>1. d \in out \/ d = Delivery(a, i)  BY <1>6
    <3>2. QED  BY <1>4, <2>1, <3>1 DEF Once, Kept
  <2>3. Unique'
    BY <1>6, Fresh DEF Once, Unique, Delivery, Moves
  <2>4. QED  BY <1>3, <2>2, <2>3 DEF Once
<1>7. QED  BY <1>5, <1>6
\* A mail that is cancelled with a ticket in hand, which leaves.
LEMMA OnceCut ==
    ASSUME TypeOK, Time, Once, NEW a \in Sends, Moves(a), Held(a), ~Held(a)', log' = log,
           NEW i \in Items, InHand(a, i), out' = out \cup {Delivery(a, i)}
    PROVE  Once'
<1>1. \A b \in Sends : Held(b)' => b # a /\ Held(b) /\ Key(b)' = Key(b)
  BY DEF Moves, Held, Key
<1>2. \A k : Locked(k)' = Locked(k) /\ (Free(k) => Free(k)')
  BY <1>1 DEF Moves, Locked, Free, Today
<1>3. \A k : k = Key(a) => Locked(k)' /\ Free(k)'
  BY <1>1, <1>2 DEF Once, Guarded, Alone, Free
<1>4. \A d \in out : Standing(d) /\ d.send # a => Standing(d)'
  BY DEF Moves, Standing, At, TypeOK, Deliveries
<1>5. \A d \in out : Standing(d) /\ d.send = a => Settled(d)'
  BY <1>3 DEF Standing, Settled, Key, Moves
<1>6. \A d \in out : Settled(d) => Settled(d)'
  BY <1>2 DEF Settled, Moves
<1>7. \A d : d = Delivery(a, i) => Settled(d)'
  BY <1>3 DEF Settled, Delivery, Key, Moves
<1>8. Kept'
  <2> SUFFICES ASSUME NEW d \in out' PROVE Standing(d)' \/ Settled(d)'  BY DEF Kept
  <2>1. d \in out \/ d = Delivery(a, i)  OBVIOUS
  <2>2. QED  BY <1>4, <1>5, <1>6, <1>7, <2>1 DEF Once, Kept
<1>9. Unique'
  BY Fresh DEF Once, Unique, Delivery, Moves
<1>10. QED  BY <1>1, <1>2, <1>8, <1>9 DEF Once, Guarded, Alone

-------------------------------------------------------------------------------
LEMMA OnceSend ==
    ASSUME TypeOK, Time, Sure, Once, NEW a \in Sends, SendNext(a) PROVE Once'
<1>1. Moves(a)
  BY OwnStep DEF Moves
<1>2. \A pc : Goto(a, pc) => /\ send'[a].pc = pc /\ send'[a].day = send[a].day
                             /\ send'[a].try = send[a].try /\ send'[a].sent = send[a].sent
  BY DEF Goto, TypeOK, SendStates
<1>3. CASE Begin(a) \/ OwnerInactive(a) \/ Lookup(a) \/ (Insert(a) /\ Live(Key(a)))
  <2>1. ~Held(a)
    BY <1>3 DEF Begin, OwnerInactive, Lookup, Insert, Held, At
  <2>2. send'[a].pc \in {"claim", "unsent", "skipped", "insert"}
    BY <1>2, <1>3 DEF Begin, OwnerInactive, Lookup, Insert, TypeOK, SendStates
  <2>3. log' = log /\ out' = out
    BY <1>3 DEF Begin, OwnerInactive, Lookup, Insert
  <2>4. \A k : Locked(k)' = Locked(k)
    BY <1>1, <2>3 DEF Moves, Locked, Today
  <2>5. QED  BY <1>1, <2>1, <2>2, <2>3, <2>4, OnceOutside DEF Held
<1>4. CASE Insert(a) /\ ~Live(Key(a))
  BY <1>4, OnceClaimed
<1>5. CASE ClaimFails(a)
  BY <1>5 DEF ClaimFails, May, Sure
<1>6. CASE NoTickets(a) \/ Release(a) \/ (Cancel(a) /\ log' = Released(Key(a)) /\ At(a, "send") /\ ~IsMail(a))
  <2>1. Held(a) /\ send[a].sent = {}
    BY <1>6 DEF NoTickets, Release, Cancel, Held, At, Time, Bounded
  <2>2. send'[a].pc \in {"unsent", "claim", "failed", "cancelled"}
    BY <1>2, <1>6 DEF NoTickets, Release, Raise, Cancel, TypeOK, SendStates
  <2>3. log' = Released(Key(a)) /\ out' = out
    BY <1>6 DEF NoTickets, Release, May, Sure, Cancel
  <2>4. QED  BY <1>1, <2>1, <2>2, <2>3, OnceReleased DEF Held
<1>7. CASE NoSmtp(a) \/ BrokenSmtp(a) \/ (EndSend(a) /\ ~NothingSent(a))
  <2>1. Held(a)
    BY <1>7 DEF NoSmtp, BrokenSmtp, EndSend, Held, At
  <2>2. send'[a].pc \in {"unsent", "claim", "failed", "delivered"}
    BY <1>2, <1>7 DEF NoSmtp, BrokenSmtp, Raise, EndSend, TypeOK, SendStates
  <2>3. log' = log /\ out' = out
    BY <1>7 DEF NoSmtp, BrokenSmtp, EndSend
  <2>4. QED  BY <1>1, <2>1, <2>2, <2>3, OnceEnded DEF Held
<1>8. CASE EndSend(a) /\ NothingSent(a)
  <2>1. Held(a) /\ Goto(a, "release") /\ log' = log /\ out' = out
    BY <1>8 DEF EndSend, Held, At
  <2>2. \A d \in out : Standing(d) => Standing(d)'
    BY <1>1, <1>8 DEF NothingSent, Standing, Moves, At, TypeOK, Deliveries
  <2>3. Held(a)'
    BY <1>2, <2>1 DEF Held
  <2>4. QED  BY <1>1, <1>2, <2>1, <2>2, <2>3, OnceWorking
<1>9. CASE Cancel(a) /\ ~(At(a, "send") /\ ~IsMail(a))
  <2>1. ~Held(a)'
    BY <1>2, <1>9 DEF Cancel, Held
  <2>2. CASE log' = log /\ out' = out
    <3>1. CASE Held(a)  BY <1>1, <2>1, <2>2, <3>1, OnceEnded
    <3>2. CASE ~Held(a)
      <4>1. \A k : Locked(k)' = Locked(k)
        BY <1>1, <2>2 DEF Moves, Locked, Today
      <4>2. QED  BY <1>1, <2>1, <2>2, <3>2, <4>1, OnceOutside
    <3>3. QED  BY <3>1, <3>2
  <2>3. CASE At(a, "insert") /\ log' = Claimed(Key(a)) /\ out' = out
    <3>1. \A k \in Keys : Locked(k) => Locked(k)'
      BY <1>1, <2>3, KeyType, ClaimedType DEF Claimed, Moves, Locked, Today, TypeOK
    <3>2. QED  BY <1>1, <2>1, <2>3, <3>1, OnceOutside DEF At, Held
  <2>4. ASSUME NEW i \in Items, InHand(a, i), out' = out \cup {Delivery(a, i)}, log' = log
        PROVE  Once'
    <3>1. Held(a)  BY <2>4 DEF InHand, At, Held
    <3>2. QED  BY <1>1, <2>1, <2>4, <3>1, OnceCut
  <2>5. QED  BY <1>9, <2>2, <2>3, <2>4 DEF Cancel
<1>10. ASSUME NEW i \in Items, Deliver(a, i) PROVE Once'
  <2>1. /\ send'[a].pc = "send" /\ send'[a].day = send[a].day /\ send'[a].try = send[a].try
        /\ send'[a].sent = send[a].sent \cup {i} /\ send[a].pc = "send"
    BY <1>10 DEF Deliver, InHand, At, TypeOK, SendStates
  <2>2. \A d \in out : Standing(d) => Standing(d)'
    BY <1>1, <2>1 DEF Standing, At, Moves, TypeOK, Deliveries
  <2>3. Held(a) /\ Held(a)'  BY <2>1 DEF Held
  <2>4. InHand(a, i) /\ log' = log /\ out' = out \cup {Delivery(a, i)}  BY <1>10 DEF Deliver
  <2>5. QED  BY <1>1, <2>1, <2>2, <2>3, <2>4, OnceWorking
<1>11. ASSUME NEW i \in Items, Bounce(a, i) PROVE Once'
  <2>1. /\ send'[a].pc = "send" /\ send'[a].day = send[a].day /\ send'[a].try = send[a].try
        /\ send'[a].sent = send[a].sent /\ send[a].pc = "send"
    BY <1>11 DEF Bounce, InHand, At, TypeOK, SendStates
  <2>2. \A d \in out : Standing(d) => Standing(d)'
    BY <1>1, <2>1 DEF Standing, At, Moves, TypeOK, Deliveries
  <2>3. Held(a) /\ Held(a)'  BY <2>1 DEF Held
  <2>4. log' = log /\ out' = out  BY <1>11 DEF Bounce, May, Sure
  <2>5. QED  BY <1>1, <2>1, <2>2, <2>3, <2>4, OnceWorking
<1>12. QED
  BY <1>3, <1>4, <1>5, <1>6, <1>7, <1>8, <1>9, <1>10, <1>11 DEF SendNext, Cancel, InHand, At

LEMMA OnceStep == TypeOK /\ Time /\ (Sure => Once) /\ [Next]_vars => (Sure => Once)'
<1> SUFFICES ASSUME TypeOK, Time, Sure => Once, [Next]_vars, Sure' PROVE Once'  OBVIOUS
<1>1. weather' = weather
  BY OwnStep DEF Next, vars, Crash, Purge, Tick
<1>2. Sure /\ Once  BY <1>1 DEF Sure
<1>3. CASE Crash
  <2>1. \A b \in Sends : ~Held(b)'
    BY <1>3 DEF Crash, Held, Active, TypeOK, SendStates
  <2>2. \A k : Free(k)' /\ Locked(k)' = Locked(k)
    BY <1>3, <2>1 DEF Crash, Free, Locked, Today
  <2>3. \A d \in out : Locked(<<sink[d.send], d.day>>)
    BY <1>2 DEF Once, Kept, Standing, Settled, Guarded, Held, At, Key, TypeOK, Deliveries
  <2>4. Kept'
    BY <1>3, <2>2, <2>3 DEF Crash, Kept, Settled
  <2>5. QED  BY <1>2, <1>3, <2>1, <2>4 DEF Crash, Once, Guarded, Alone, Unique
<1>4. CASE Purge \/ Tick
  <2>1. sink' = sink /\ send' = send /\ out' = out
    BY <1>4 DEF Purge, Tick
  <2>2. \A k \in Keys : k[2] <= Today /\ Locked(k) => Locked(k)'
    <3>1. CASE Purge
      <4> SUFFICES ASSUME NEW k \in Keys, k[2] <= Today, Locked(k) PROVE Locked(k)'  OBVIOUS
      <4>1. Today' = Today /\ log'[k] = IF log[k] <= now THEN 0 ELSE log[k]
        BY <3>1 DEF Purge, Today
      <4>2. k[2] \in Nat /\ Today \in Nat  BY DayType DEF Keys
      <4>3. log[k] # 0 /\ k[2] = Today => ~(log[k] <= now)
        BY DEF Time, Lasting, Today, TypeOK, Instants
      <4>4. QED  BY <4>1, <4>2, <4>3 DEF Locked
    <3>2. CASE Tick
      BY <3>2, DayType, NumbersAssumption, DaysAssumption DEF Tick, Locked, TypeOK, Today, Instants, Keys
    <3>3. QED  BY <1>4, <3>1, <3>2
  <2>3. \A b \in Sends : Key(b) \in Keys /\ Key(b)[2] <= Today
    BY KeyType DEF Time, Dated, Key
  <2>4. \A d \in out : <<sink[d.send], d.day>> \in Keys /\ d.day <= Today
    BY SinksAssumption DEF Time, Dated, TypeOK, Keys, Deliveries
  <2>5. Guarded' /\ Alone' /\ Unique'
    BY <1>2, <2>1, <2>2, <2>3 DEF Once, Guarded, Alone, Unique, Held, Key
  <2>6. Kept'
    BY <1>2, <2>1, <2>2, <2>4 DEF Once, Kept, Standing, Settled, Free, Held, Key, At
  <2>7. QED  BY <2>5, <2>6 DEF Once
<1>5. CASE vars' = vars
  BY <1>2, <1>5 DEF vars, Once, Guarded, Alone, Kept, Unique, Standing, Settled, Free, Locked, Held, Key, At, Today
<1>6. QED  BY <1>2, <1>3, <1>4, <1>5, OnceSend DEF Next

LEMMA TimeInit == Init => Time
<1> SUFFICES ASSUME Init PROVE Time  OBVIOUS
<1>1. DayOf[0] \in Nat  BY FirstDay, DaysAssumption
<1>2. QED  BY <1>1 DEF Init, Time, Dated, Lasting, Prompt, Bounded, At, Today

\* Whatever overlaps, is cancelled, crashes or is tried again, nothing is delivered twice
\* under a key: the row of the key, or the end of its day, keeps it until nobody can claim it.
THEOREM AtMostOnce == Spec => []OncePerDay
<1>1. Init => TypeOK /\ Time /\ (Sure => Once)
  BY TypedInit, TimeInit DEF Init, Once, Guarded, Alone, Kept, Unique, Held
<1>2. (Sure => Once) => OncePerDay  BY DEF Sure, Once, Unique, OncePerDay
<1>3. QED  BY <1>1, <1>2, TypedStep, TimeStep, OnceStep, PTL DEF Spec
-------------------------------------------------------------------------------
(* One attempt.                                                                 *)
Honest == ~May("lost")

\* What a send has delivered, it delivered in its present attempt, which did not fail.
Final == \A d \in out : LET a == d.send IN
    /\ d.try = send[a].try
    /\ send[a].pc \in {"send", "delivered", "cancelled"}
    /\ At(a, "send") => d.item \in send[a].sent

LEMMA FinalSend ==
    ASSUME TypeOK, Time, Honest, Final, NEW a \in Sends, SendNext(a) PROVE Final'
<1>1. \A d \in out : d.send \in Sends
  BY DEF TypeOK, Deliveries
<1>2. \A b \in Sends : b # a => send'[b] = send[b]
  BY OwnStep
<1>3. ASSUME out' = out,
             \A d \in out : d.send = a =>
                 /\ send'[a].try = send[a].try
                 /\ send'[a].pc \in {"send", "delivered", "cancelled"}
                 /\ send'[a].pc = "send" => send[a].pc = "send" /\ send[a].sent \subseteq send'[a].sent
      PROVE  Final'
  BY <1>1, <1>2, <1>3 DEF Final, At
<1>4. ASSUME NEW i \in Items, out' = out \cup {Delivery(a, i)}, send'[a].try = send[a].try,
             send[a].pc = "send", send'[a].pc \in {"send", "cancelled"},
             send'[a].pc = "send" => send[a].sent \cup {i} \subseteq send'[a].sent
      PROVE  Final'
  <2> SUFFICES ASSUME NEW d \in out'
               PROVE  LET b == d.send IN /\ d.try = send'[b].try
                                         /\ send'[b].pc \in {"send", "delivered", "cancelled"}
                                         /\ send'[b].pc = "send" => d.item \in send'[b].sent
    BY DEF Final, At
  <2>1. CASE d \in out  BY <1>1, <1>2, <1>4, <2>1 DEF Final, At
  <2>2. CASE d = Delivery(a, i)  BY <1>4, <2>2 DEF Delivery
  <2>3. QED  BY <1>4, <2>1, <2>2
<1>5. \A pc : Goto(a, pc) => /\ send'[a].pc = pc /\ send'[a].try = send[a].try
                             /\ send'[a].sent = send[a].sent
  BY DEF Goto, TypeOK, SendStates
<1>6. send[a].pc \in {"idle", "claim", "insert", "release"} => ~\E d \in out : d.send = a
  BY DEF Final
<1>7. send[a].sent = {} /\ At(a, "send") => ~\E d \in out : d.send = a
  BY DEF Final
<1>8. CASE Begin(a) \/ OwnerInactive(a) \/ Lookup(a) \/ Insert(a) \/ ClaimFails(a) \/ Release(a)
  BY <1>3, <1>6, <1>8 DEF Begin, OwnerInactive, Lookup, Insert, ClaimFails, Release, At
<1>9. CASE NoTickets(a) \/ NoSmtp(a) \/ BrokenSmtp(a)
  BY <1>3, <1>7, <1>9 DEF NoTickets, NoSmtp, BrokenSmtp, Time, Bounded
<1>10. CASE EndSend(a)
  <2>1. CASE NothingSent(a)  BY <1>3, <1>7, <1>10, <2>1 DEF EndSend, NothingSent
  <2>2. QED  BY <1>3, <1>5, <1>10, <2>1 DEF EndSend
<1>11. CASE Cancel(a)
  <2>1. CASE out' = out  BY <1>3, <1>5, <1>11, <2>1 DEF Cancel
  <2>2. QED  BY <1>4, <1>5, <1>11, <2>1 DEF Cancel, InHand, At
<1>12. CASE \E i \in Items : Deliver(a, i)
  BY <1>4, <1>12 DEF Deliver, InHand, At, TypeOK, SendStates
<1>13. CASE \E i \in Items : Bounce(a, i)
  BY <1>3, <1>13 DEF Bounce, InHand, At, Honest, TypeOK, SendStates
<1>14. QED  BY <1>8, <1>9, <1>10, <1>11, <1>12, <1>13 DEF SendNext

LEMMA FinalStep == TypeOK /\ Time /\ (Honest => Final) /\ [Next]_vars => (Honest => Final)'
<1> SUFFICES ASSUME TypeOK, Time, Honest => Final, [Next]_vars, Honest' PROVE Final'  OBVIOUS
<1>1. Honest /\ Final
  BY OwnStep DEF Next, vars, Crash, Purge, Tick, Honest, May
<1>2. CASE Crash
  <2>1. \A b \in Sends : send'[b].try = send[b].try /\ send'[b].sent = send[b].sent /\
                         send'[b].pc \in {send[b].pc, "cancelled"}
    BY <1>2 DEF Crash, TypeOK, SendStates
  <2>2. \A d \in out : d.send \in Sends  BY DEF TypeOK, Deliveries
  <2>3. QED  BY <1>1, <1>2, <2>1, <2>2 DEF Crash, Final, At
<1>3. CASE Purge \/ Tick \/ vars' = vars
  BY <1>1, <1>3 DEF Purge, Tick, vars, Final, At
<1>4. QED  BY <1>1, <1>2, <1>3, FinalSend DEF Next

\* A step delivers in one attempt only: what makes it fail is that nothing has left.
THEOREM DeliversOnce == Spec => []OneAttempt
<1>1. Init => (Honest => Final)  BY DEF Init, Final
<1>2. (Honest => Final) => OneAttempt  BY DEF Honest, Final, OneAttempt
<1>3. QED  BY <1>1, <1>2, TypedInit, TimeInit, TypedStep, TimeStep, FinalStep, PTL DEF Spec
-------------------------------------------------------------------------------
(* Retries.                                                                     *)
Calm == weather \cap {"broken", "dberror", "twins"} = {}
Rows(a, day) == {k \in Keys : k[1] = sink[a] /\ k[2] >= day /\ log[k] # 0}

\* One send of a sink at a time; no row is dated from a day to come; a send that works with
\* its claim has the last row of its sink; one that is tried again finds none from its day on.
Solo   == \A a, b \in Sends : Active(a) /\ Active(b) /\ sink[a] = sink[b] => a = b
Past   == \A k \in Keys : log[k] # 0 => k[2] <= Today
Behind == \A a \in Sends : Held(a) => Rows(a, send[a].day) \subseteq {Key(a)}
Clear  == \A a \in Sends : send[a].pc \in {"claim", "insert"} /\ send[a].try > 1
                              => Rows(a, send[a].day) = {}
FirstTry == \A a \in Sends : At(a, "skipped") => send[a].try = 1
Idle   == \A a \in Sends : At(a, "idle") => send[a].try = 1
Again  == Solo /\ Past /\ Behind /\ Clear /\ FirstTry /\ Idle

\* Only the send itself, and the passing of time, change what is active.
LEMMA SoloSend ==
    ASSUME TypeOK, Calm, Solo, NEW a \in Sends, SendNext(a) PROVE Solo'
<1>1. /\ sink' = sink /\ \A b \in Sends : b # a => send'[b] = send[b]
  BY OwnStep
<1>2. CASE Begin(a)
  <2>1. \A b \in Sends : sink[b] = sink[a] => ~Active(b)
    BY <1>2 DEF Begin, Calm, May
  <2>2. QED  BY <1>1, <2>1 DEF Solo, Active
<1>3. CASE Active(a)
  BY <1>1, <1>3 DEF Solo, Active
<1>4. QED
  BY <1>2, <1>3 DEF SendNext, OwnerInactive, Lookup, Insert, ClaimFails, NoTickets, NoSmtp, BrokenSmtp,
                    EndSend, Release, Cancel, Deliver, Bounce, InHand, At, Active

\* A row appears for a send only when it has none from its day on.
LEMMA AgainSend ==
    ASSUME TypeOK, Time, Calm, Again, NEW a \in Sends, SendNext(a) PROVE Again'
<1>1. /\ sink' = sink /\ now' = now /\ Today' = Today
      /\ \A b \in Sends : b # a => send'[b] = send[b]
  BY OwnStep
<1>2. Solo'  BY SoloSend DEF Again
<1>3. Past'
  BY <1>1, OwnLog, DayType DEF Again, Past
<1>4. \A pc : Goto(a, pc) => /\ send'[a].pc = pc /\ send'[a].try = send[a].try
                             /\ send'[a].day = send[a].day
  BY DEF Goto, TypeOK, SendStates
<1>5. Idle'
  <2>1. send'[a].pc # "idle"
    <3>1. CASE Begin(a) \/ OwnerInactive(a) \/ Insert(a) \/ NoTickets(a) \/ NoSmtp(a) \/ EndSend(a) \/ Cancel(a)
      BY <1>4, <3>1 DEF Begin, OwnerInactive, Insert, NoTickets, NoSmtp, EndSend, Cancel
    <3>2. CASE BrokenSmtp(a) \/ Release(a)
      BY <1>4, <3>2 DEF BrokenSmtp, Release, Raise, TypeOK, SendStates
    <3>3. CASE Lookup(a) \/ ClaimFails(a)
      BY <3>3 DEF Lookup, ClaimFails, TypeOK, SendStates
    <3>4. CASE \E i \in Items : Deliver(a, i) \/ Bounce(a, i)
      BY <3>4 DEF Deliver, Bounce, InHand, At, TypeOK, SendStates
    <3>5. QED  BY <3>1, <3>2, <3>3, <3>4 DEF SendNext
  <2>2. QED  BY <1>1, <2>1 DEF Again, Idle, At
<1>6. ASSUME \A k \in Keys : log'[k] \in {0, log[k]},
             Held(a)' => Held(a) /\ send'[a].day = send[a].day,
             send'[a].pc \in {"claim", "insert"} /\ send'[a].try > 1 => Rows(a, send[a].day)' = {},
             send'[a].pc = "skipped" => send'[a].try = 1
      PROVE  Again'
  <2>1. \A b \in Sends, day \in Days : Rows(b, day)' \subseteq Rows(b, day)
    BY <1>1, <1>6 DEF Rows
  <2>2. \A b \in Sends : send[b].day \in Days  BY DEF TypeOK, SendStates
  <2>3. Behind'
    <3>1. \A b \in Sends : Held(b)' => Held(b) /\ send'[b].day = send[b].day
      BY <1>1, <1>6 DEF Held
    <3>2. QED  BY <1>1, <2>1, <2>2, <3>1 DEF Again, Behind, Key
  <2>4. Clear'
    <3> SUFFICES ASSUME NEW b \in Sends, send'[b].pc \in {"claim", "insert"}, send'[b].try > 1
                 PROVE  Rows(b, send[b].day)' = {}
      BY DEF Clear
    <3>1. CASE b = a  BY <1>6, <3>1
    <3>2. CASE b # a
      <4>1. send'[b] = send[b] /\ Rows(b, send[b].day) = {}  BY <1>1, <3>2 DEF Again, Clear
      <4>2. QED  BY <2>1, <2>2, <4>1
    <3>3. QED  BY <3>1, <3>2
  <2>5. FirstTry'
    BY <1>1, <1>6 DEF Again, FirstTry, At
  <2>6. QED  BY <1>2, <1>3, <1>5, <2>3, <2>4, <2>5 DEF Again
<1>7. CASE /\ At(a, "insert") /\ log' = Claimed(Key(a))
           /\ send'[a].pc \in {"send", "cancelled"} /\ send'[a].day = send[a].day
  <2>1. /\ send[a].pc = "insert" /\ send[a].day = Today /\ send'[a].pc \in {"send", "cancelled"} /\ send'[a].day = Today
        /\ \A k \in Keys : k # Key(a) => log'[k] = log[k]
    BY <1>7 DEF At, Time, Prompt, Claimed, TypeOK
  <2>2. \A b \in Sends : b # a /\ Active(b) => sink[b] # sink[a]
    BY <2>1 DEF Again, Solo, Active
  <2>3. Key(a)[1] = sink[a] /\ Key(a)[2] = Today /\ Key(a)' = Key(a) /\ Key(a) \in Keys
    BY <1>1, <2>1, KeyType DEF Key
  <2>4. \A b \in Sends : b # a /\ Active(b) => \A day : Rows(b, day)' = Rows(b, day)
    BY <1>1, <2>1, <2>2, <2>3 DEF Rows
  <2>5. Rows(a, Today)' \subseteq {Key(a)}
    <3> SUFFICES ASSUME NEW k \in Keys, k[1] = sink[a], k[2] >= Today, log'[k] # 0, k # Key(a)
                 PROVE  FALSE
      BY <1>1 DEF Rows
    <3>1. k[2] = Today  BY <2>1, DayType DEF Again, Past, Keys
    <3>2. k = <<k[1], k[2]>>  BY DEF Keys
    <3>3. QED  BY <2>1, <3>1, <3>2 DEF Key
  <2>6. \A b \in Sends : b # a => Held(b)' = Held(b) /\ Key(b)' = Key(b) /\ (Held(b) => Active(b))
    BY <1>1 DEF Held, Key, Active
  <2>7. Behind'
    <3> SUFFICES ASSUME NEW b \in Sends, Held(b)' PROVE Rows(b, send[b].day)' \subseteq {Key(b)'}
      BY DEF Behind
    <3>1. CASE b = a  BY <1>1, <2>1, <2>3, <2>5, <3>1
    <3>2. CASE b # a
      <4>1. send'[b].day = send[b].day /\ Rows(b, send[b].day) \subseteq {Key(b)}
        BY <1>1, <2>6, <3>2 DEF Again, Behind
      <4>2. QED  BY <1>1, <2>4, <2>6, <3>2, <4>1
    <3>3. QED  BY <3>1, <3>2
  <2>8. Clear'
    <3> SUFFICES ASSUME NEW b \in Sends, send'[b].pc \in {"claim", "insert"}, send'[b].try > 1
                 PROVE  Rows(b, send[b].day)' = {}
      BY DEF Clear
    <3>1. b # a /\ send'[b] = send[b] /\ Active(b)  BY <1>1, <2>1 DEF Active
    <3>2. Rows(b, send[b].day) = {}  BY <3>1 DEF Again, Clear
    <3>3. QED  BY <2>4, <3>1, <3>2
  <2>9. FirstTry'
    BY <1>1, <2>1 DEF Again, FirstTry, At
  <2>10. QED  BY <1>2, <1>3, <1>5, <2>7, <2>8, <2>9 DEF Again
<1>8. CASE Begin(a) \/ OwnerInactive(a) \/ NoSmtp(a) \/ NoTickets(a) \/ EndSend(a)
         \/ (Cancel(a) /\ log' \in {log, Released(Key(a))})
  <2>1. \A k \in Keys : log'[k] \in {0, log[k]}
    BY <1>8, KeyType DEF Begin, OwnerInactive, NoSmtp, NoTickets, EndSend, Cancel, Released, TypeOK
  <2>2. Held(a)' => Held(a) /\ send'[a].day = send[a].day
    BY <1>4, <1>8 DEF Begin, OwnerInactive, NoSmtp, NoTickets, EndSend, Cancel, Held, At
  <2>3. CASE Begin(a)
    <3>1. send'[a].pc = "claim" /\ send'[a].try = send[a].try  BY <1>4, <2>3 DEF Begin
    <3>2. send[a].try = 1  BY <2>3 DEF Begin, Again, Idle
    <3>3. QED  BY <1>6, <2>1, <2>2, <3>1, <3>2
  <2>4. CASE ~Begin(a)
    <3>1. send'[a].pc \in {"unsent", "release", "delivered", "cancelled"}
      BY <1>4, <1>8, <2>4 DEF OwnerInactive, NoSmtp, NoTickets, EndSend, Cancel
    <3>2. QED  BY <1>6, <2>1, <2>2, <3>1
  <2>5. QED  BY <2>3, <2>4
<1>9. CASE \E i \in Items : Deliver(a, i) \/ Bounce(a, i)
  <2>1. /\ log' = log /\ send[a].pc = "send" /\ send'[a].pc = "send"
        /\ send'[a].day = send[a].day
    BY <1>9 DEF Deliver, Bounce, InHand, At, TypeOK, SendStates
  <2>2. QED  BY <1>6, <2>1 DEF Held
<1>10. CASE Release(a)
  <2>1. log' = Released(Key(a)) /\ send[a].pc = "release"
    BY <1>10 DEF Release, Calm, May, At
  <2>2. \A k \in Keys : log'[k] \in {0, log[k]}
    BY <2>1, KeyType DEF Released, TypeOK
  <2>3. send'[a].pc \in {"claim", "failed"} /\ send'[a].day = send[a].day
    BY <1>4, <1>10 DEF Release, Raise, TypeOK, SendStates
  <2>4. Rows(a, send[a].day) \subseteq {Key(a)}
    BY <2>1 DEF Again, Behind, Held
  <2>5. Rows(a, send[a].day)' = {}
    <3> SUFFICES ASSUME NEW k \in Keys, k[1] = sink[a], k[2] >= send[a].day, log'[k] # 0 PROVE FALSE
      BY <1>1, <2>3 DEF Rows
    <3>1. log[k] # 0 /\ k # Key(a)  BY <2>1, <2>2, KeyType DEF Released, TypeOK
    <3>2. QED  BY <2>4, <3>1 DEF Rows
  <2>6. QED  BY <1>6, <2>1, <2>2, <2>3, <2>5 DEF Held
<1>11. CASE Lookup(a)
  <2>1. /\ log' = log /\ send'[a].day = Today /\ send'[a].try = send[a].try
        /\ send[a].pc = "claim"
        /\ send'[a].pc = IF Live(<<sink[a], Today>>) THEN "skipped" ELSE "insert"
    BY <1>11 DEF Lookup, At, TypeOK, SendStates
  <2>2. send[a].try > 1 => Rows(a, Today)' = {}
    <3> SUFFICES ASSUME send[a].try > 1, NEW k \in Rows(a, Today)' PROVE FALSE  OBVIOUS
    <3>1. k \in Keys /\ k[1] = sink[a] /\ k[2] >= Today /\ log[k] # 0  BY <1>1, <2>1 DEF Rows
    <3>2. send[a].day <= Today /\ send[a].day \in Nat /\ Today \in Nat /\ k[2] \in Nat
      BY <3>1, DayType DEF Time, Dated, TypeOK, SendStates, Keys
    <3>3. k \in Rows(a, send[a].day)  BY <3>1, <3>2 DEF Rows
    <3>4. QED  BY <2>1, <3>3 DEF Again, Clear
  <2>3. send[a].try > 1 => ~Live(<<sink[a], Today>>)
    <3>1. <<sink[a], Today>> \in Keys  BY DayType DEF Keys, TypeOK
    <3>2. <<sink[a], Today>>[2] >= Today  BY DayType
    <3>3. QED  BY <1>1, <2>1, <2>2, <3>1, <3>2 DEF Rows, Live, TypeOK, Instants
  <2>4. send[a].try \in 1..(Retries + 1)  BY DEF TypeOK, SendStates
  <2>5. send'[a].pc \in {"skipped", "insert"} /\ (send[a].try > 1 => send'[a].pc = "insert")
    BY <2>1, <2>3
  <2>6. Rows(a, send[a].day)' = Rows(a, Today)'  BY <1>1, <2>1
  <2>7. QED  BY <1>6, <2>1, <2>2, <2>4, <2>5, <2>6, NumbersAssumption DEF Held
<1>12. CASE Insert(a)
  <2>1. send[a].pc = "insert" /\ send[a].day = Today
    BY <1>12 DEF Insert, At, Time, Prompt
  <2>2. CASE Live(Key(a))
    <3>1. log' = log /\ send'[a].pc = "skipped" /\ send'[a].try = send[a].try
      BY <1>4, <1>12, <2>2 DEF Insert
    <3>2. send[a].try > 1 => FALSE
      <4>1. Key(a)[1] = sink[a] /\ Key(a)[2] >= send[a].day /\ Key(a) \in Keys /\ log[Key(a)] # 0
        BY <2>1, <2>2, KeyType, DayType DEF Key, Live, TypeOK, Instants
      <4>2. QED  BY <2>1, <4>1 DEF Again, Clear, Rows
    <3>3. send[a].try \in 1..(Retries + 1)  BY DEF TypeOK, SendStates
    <3>4. QED  BY <1>6, <3>1, <3>2, <3>3, NumbersAssumption DEF Held
  <2>3. CASE ~Live(Key(a))
    <3>1. log' = Claimed(Key(a)) /\ send'[a].pc = "send" /\ send'[a].day = send[a].day
      BY <1>4, <1>12, <2>3 DEF Insert
    <3>2. QED  BY <1>12, <3>1, <1>7 DEF Insert
  <2>4. QED  BY <2>2, <2>3
<1>13. CASE Cancel(a) /\ At(a, "insert") /\ log' = Claimed(Key(a))
  BY <1>4, <1>13, <1>7 DEF Cancel
<1>14. QED
  BY <1>8, <1>9, <1>10, <1>11, <1>12, <1>13 DEF SendNext, ClaimFails, BrokenSmtp, Cancel, Calm, May
LEMMA AgainStep == TypeOK /\ Time /\ (Calm => Again) /\ [Next]_vars => (Calm => Again)'
<1> SUFFICES ASSUME TypeOK, Time, Calm => Again, [Next]_vars, Calm' PROVE Again'  OBVIOUS
<1>1. Calm /\ Again
  BY OwnStep DEF Next, vars, Crash, Purge, Tick, Calm
<1>2. CASE Crash
  <2>1. /\ log' = log /\ sink' = sink /\ Today' = Today
        /\ \A b \in Sends : \/ send'[b] = send[b] /\ ~Active(b)
                            \/ send'[b].pc = "cancelled"
    BY <1>2 DEF Crash, Today, Active, TypeOK, SendStates
  <2>2. QED
    BY <1>1, <2>1 DEF Again, Solo, Past, Behind, Clear, FirstTry, Idle, Active, Held, At
<1>3. CASE Purge \/ Tick \/ vars' = vars
  <2>1. send' = send /\ sink' = sink
    BY <1>3 DEF Purge, Tick, vars
  <2>2. \A k \in Keys : log'[k] \in {0, log[k]}
    BY <1>3 DEF Purge, Tick, vars, TypeOK
  <2>3. Today <= Today' /\ Today \in Nat /\ Today' \in Nat
    BY <1>3, DayType, NumbersAssumption, DaysAssumption DEF Purge, Tick, vars, TypeOK, Today, Instants
  <2>4. Past'
    BY <1>1, <2>2, <2>3, DayType DEF Again, Past, Keys
  <2>5. \A b \in Sends : /\ Rows(b, send[b].day)' \subseteq Rows(b, send[b].day)
                        /\ Key(b)' = Key(b) /\ Held(b)' = Held(b) /\ Active(b)' = Active(b)
    BY <2>1, <2>2 DEF Rows, Key, Held, Active
  <2>6. QED
    BY <1>1, <2>1, <2>4, <2>5 DEF Again, Solo, Behind, Clear, FirstTry, Idle, At
<1>4. QED  BY <1>1, <1>2, <1>3, AgainSend DEF Next

LEMMA AgainInit == Init => Again
BY DEF Init, Again, Solo, Past, Behind, Clear, FirstTry, Idle, Active, Held, At

\* As long as SMTP builds, the database answers and the sends of a sink do not overlap, no
\* attempt after the first is skipped: the failed one has released its row, and no other can
\* have left one from that day on.
THEOREM RetriesExecute == Spec => []RetryRuns
<1>1. (Calm => Again) => RetryRuns  BY DEF Calm, Again, FirstTry, RetryRuns
<1>2. QED
  BY <1>1, TypedInit, TimeInit, AgainInit, TypedStep, TimeStep, AgainStep, PTL DEF Spec

-------------------------------------------------------------------------------
(* Skips.                                                                       *)
Serene == weather \subseteq {"lost", "inactive"}

\* A row stands for a delivery, or for a send that is at work; what a send counts as sent is out.
Backed  == \A k \in Keys : log[k] # 0 => Gone(k) # {} \/ \E a \in Sends : Held(a) /\ Key(a) = k
Counted == \A a \in Sends : At(a, "send") => \A i \in send[a].sent : Delivery(a, i) \in out
Skips   == \A a \in Sends : At(a, "skipped") => Gone(Key(a)) # {}
Stands  == Backed /\ Counted /\ Skips

LEMMA StandsSend ==
    ASSUME TypeOK, Time, Serene, Solo, Stands, NEW a \in Sends, SendNext(a) PROVE Stands'
<1>1. /\ sink' = sink /\ now' = now /\ Today' = Today /\ out \subseteq out'
      /\ \A b \in Sends : b # a => send'[b] = send[b]
  BY OwnStep, OwnOut
<1>2. \A k : Gone(k) \subseteq Gone(k)'
  BY <1>1 DEF Gone
<1>3. \A pc : Goto(a, pc) => /\ send'[a].pc = pc /\ send'[a].try = send[a].try
                             /\ send'[a].day = send[a].day /\ send'[a].sent = send[a].sent
  BY DEF Goto, TypeOK, SendStates
\* What has to be shown of a: about the rows, about itself.
<1>4. ASSUME \A k \in Keys : log'[k] # 0 /\ (log[k] = 0 \/ (Held(a) /\ Key(a) = k))
                              => Gone(k)' # {} \/ (Held(a)' /\ Key(a)' = k)
      PROVE  Backed'
  <2> SUFFICES ASSUME NEW k \in Keys, log'[k] # 0
               PROVE  Gone(k)' # {} \/ \E b \in Sends : Held(b)' /\ Key(b)' = k
    BY DEF Backed
  <2>1. CASE log[k] = 0 \/ (Held(a) /\ Key(a) = k)  BY <1>4, <2>1
  <2>2. CASE Gone(k) # {}  BY <1>2, <2>2
  <2>3. CASE \E b \in Sends : b # a /\ Held(b) /\ Key(b) = k
    BY <1>1, <2>3 DEF Held, Key
  <2>4. QED  BY <2>1, <2>2, <2>3 DEF Stands, Backed
<1>5. ASSUME send'[a].pc = "send" => \A i \in send'[a].sent : Delivery(a, i)' \in out',
             send'[a].pc = "skipped" => Gone(Key(a))' # {}
      PROVE  Counted' /\ Skips'
  <2>1. Counted'
    <3> SUFFICES ASSUME NEW b \in Sends, send'[b].pc = "send", NEW i \in send'[b].sent
                 PROVE  Delivery(b, i)' \in out'
      BY DEF Counted, At
    <3>1. CASE b = a  BY <1>5, <3>1
    <3>2. CASE b # a  BY <1>1, <3>2 DEF Stands, Counted, At, Delivery
    <3>3. QED  BY <3>1, <3>2
  <2>2. Skips'
    <3> SUFFICES ASSUME NEW b \in Sends, send'[b].pc = "skipped" PROVE Gone(Key(b))' # {}
      BY DEF Skips, At
    <3>1. CASE b = a  BY <1>5, <3>1
    <3>2. CASE b # a
      <4>1. Key(b)' = Key(b) /\ Gone(Key(b)) # {}  BY <1>1, <3>2 DEF Stands, Skips, At, Key
      <4>2. QED  BY <1>2, <4>1 DEF Gone
    <3>3. QED  BY <3>1, <3>2
  <2>3. QED  BY <2>1, <2>2
\* A send that does not hold its claim, and takes none.
<1>6. CASE Begin(a) \/ OwnerInactive(a)
  <2>1. log' = log /\ ~Held(a) /\ send'[a].pc \in {"claim", "unsent"}
    BY <1>3, <1>6 DEF Begin, OwnerInactive, Held, At
  <2>2. QED  BY <1>4, <1>5, <2>1 DEF Stands
<1>7. CASE Lookup(a)
  <2>1. /\ log' = log /\ ~Held(a) /\ Active(a) /\ Key(a)' = <<sink[a], Today>>
        /\ send'[a].pc = IF Live(<<sink[a], Today>>) THEN "skipped" ELSE "insert"
    BY <1>1, <1>7 DEF Lookup, Held, Active, At, Key, TypeOK, SendStates
  <2>2. Live(<<sink[a], Today>>) => Gone(<<sink[a], Today>>) # {}
    <3>1. <<sink[a], Today>> \in Keys  BY DayType DEF Keys, TypeOK
    <3>2. ~\E b \in Sends : Held(b) /\ Key(b) = <<sink[a], Today>>
      BY <2>1 DEF Solo, Active, Held, Key
    <3>3. QED  BY <3>1, <3>2 DEF Stands, Backed, Live, TypeOK, Instants
  <2>3. send'[a].pc = "skipped" => Gone(Key(a))' # {}
    BY <1>1, <1>2, <2>1, <2>2 DEF Gone
  <2>4. send'[a].pc # "send"  BY <2>1
  <2>5. QED  BY <1>4, <1>5, <2>1, <2>3, <2>4 DEF Stands
<1>8. CASE Insert(a)
  <2>1. ~Held(a) /\ Active(a) /\ Key(a) \in Keys /\ send[a].pc = "insert"
    BY <1>8, KeyType DEF Insert, Held, Active, At
  <2>2. CASE Live(Key(a))
    <3>1. log' = log /\ send'[a].pc = "skipped" /\ Key(a)' = Key(a)
      BY <1>1, <1>3, <1>8, <2>2 DEF Insert, Key
    <3>2. ~\E b \in Sends : Held(b) /\ Key(b) = Key(a)
      BY <2>1 DEF Solo, Active, Held, Key
    <3>3. Gone(Key(a)) # {}
      BY <2>1, <2>2, <3>2 DEF Stands, Backed, Live, TypeOK, Instants
    <3>4. Gone(Key(a))' # {}  BY <1>1, <3>1, <3>3 DEF Gone
    <3>5. QED  BY <1>4, <1>5, <2>1, <3>1, <3>4 DEF Stands
  <2>3. CASE ~Live(Key(a))
    <3>1. /\ send'[a].pc = "send" /\ Key(a)' = Key(a) /\ send'[a].sent = send[a].sent
          /\ \A k \in Keys : k # Key(a) => log'[k] = log[k]
      BY <1>1, <1>3, <1>8, <2>3 DEF Insert, Claimed, Key, TypeOK
    <3>2. send[a].sent = {}  BY <2>1 DEF Stands, Time, Bounded, At
    <3>3. QED  BY <1>4, <1>5, <2>1, <3>1, <3>2 DEF Stands, Held
  <2>4. QED  BY <2>2, <2>3
\* A send that gives its claim back, or works on.
<1>9. CASE NoTickets(a) \/ Release(a)
  <2>1. /\ log' = Released(Key(a)) /\ Key(a) \in Keys
        /\ send'[a].pc \in {"unsent", "claim", "failed"}
    BY <1>3, <1>9, KeyType DEF NoTickets, Release, Raise, Serene, May, TypeOK, SendStates
  <2>2. \A k \in Keys : log'[k] # 0 => log[k] # 0 /\ k # Key(a)
    BY <2>1 DEF Released, TypeOK
  <2>3. ASSUME NEW k \in Keys, log'[k] # 0, log[k] = 0 \/ (Held(a) /\ Key(a) = k) PROVE FALSE
    BY <2>2, <2>3
  <2>4. send'[a].pc # "send" /\ send'[a].pc # "skipped"
    BY <2>1
  <2>5. ASSUME NEW k \in Keys, log'[k] # 0
        PROVE  Gone(k)' # {} \/ \E b \in Sends : Held(b)' /\ Key(b)' = k
    <3>1. CASE Gone(k) # {}  BY <1>2, <3>1
    <3>2. CASE \E b \in Sends : b # a /\ Held(b) /\ Key(b) = k
      BY <1>1, <3>2 DEF Held, Key
    <3>3. QED  BY <2>3, <2>5, <3>1, <3>2 DEF Stands, Backed
  <2>6. Counted' /\ Skips'  BY <1>5, <2>4
  <2>7. QED  BY <2>5, <2>6 DEF Stands, Backed
<1>10. CASE EndSend(a)
  <2>1. log' = log /\ Key(a)' = Key(a) /\ At(a, "send")
    BY <1>1, <1>3, <1>10 DEF EndSend, Key
  <2>2. CASE NothingSent(a)
    <3>1. send'[a].pc = "release"  BY <1>3, <1>10, <2>2 DEF EndSend
    <3>2. QED  BY <1>4, <1>5, <2>1, <3>1 DEF Stands, Held
  <2>3. CASE ~NothingSent(a)
    <3>1. send'[a].pc = "delivered"  BY <1>3, <1>10, <2>3 DEF EndSend
    <3>2. PICK i \in send[a].sent : Delivery(a, i) \in out
      BY <2>1, <2>3 DEF NothingSent, Stands, Counted
    <3>3. Delivery(a, i) \in Gone(Key(a))
      BY <3>2 DEF Gone, Delivery, Key
    <3>4. Gone(Key(a)) # {}  BY <3>3
    <3>5. QED  BY <1>2, <1>4, <1>5, <2>1, <3>1, <3>4 DEF Stands
  <2>4. QED  BY <2>2, <2>3
<1>11. CASE \E i \in Items : Deliver(a, i) \/ Bounce(a, i)
  <2>1. PICK i \in Items : Deliver(a, i) \/ Bounce(a, i)  BY <1>11
  <2>2. /\ log' = log /\ Key(a)' = Key(a) /\ At(a, "send") /\ Held(a)'
        /\ send'[a].pc = "send" /\ \A j : Delivery(a, j)' = Delivery(a, j)
        /\ send'[a].sent = send[a].sent \/ (Deliver(a, i) /\ send'[a].sent = send[a].sent \cup {i})
    BY <1>1, <2>1 DEF Deliver, Bounce, InHand, At, Held, Key, Delivery, TypeOK, SendStates
  <2>3. \A j \in send[a].sent : Delivery(a, j) \in out
    BY <2>2 DEF Stands, Counted
  <2>4. Deliver(a, i) => Delivery(a, i) \in out'  BY DEF Deliver
  <2>5. \A j \in send'[a].sent : Delivery(a, j)' \in out'
    BY <1>1, <2>2, <2>3, <2>4
  <2>6. QED  BY <1>4, <1>5, <2>2, <2>5 DEF Stands
<1>12. QED
  BY <1>6, <1>7, <1>8, <1>9, <1>10, <1>11
     DEF SendNext, ClaimFails, NoSmtp, BrokenSmtp, Cancel, Serene, May

LEMMA StandsStep ==
    TypeOK /\ Time /\ (Calm => Again) /\ (Serene => Stands) /\ [Next]_vars => (Serene => Stands)'
<1> SUFFICES ASSUME TypeOK, Time, Calm => Again, Serene => Stands, [Next]_vars, Serene' PROVE Stands'
  OBVIOUS
<1>1. Serene /\ Stands
  BY OwnStep DEF Next, vars, Crash, Purge, Tick, Serene
<1>2. Solo
  BY <1>1 DEF Serene, Calm, Again
<1>3. CASE Crash
  BY <1>1, <1>3 DEF Crash, Serene, May
<1>4. CASE Purge \/ Tick \/ vars' = vars
  <2>1. send' = send /\ sink' = sink /\ out' = out
    BY <1>4 DEF Purge, Tick, vars
  <2>2. \A k \in Keys : log'[k] \in {0, log[k]}
    BY <1>4 DEF Purge, Tick, vars, TypeOK
  <2>3. QED
    BY <1>1, <2>1, <2>2 DEF Stands, Backed, Counted, Skips, Gone, Held, Key, At, Delivery
<1>5. QED  BY <1>1, <1>2, <1>3, <1>4, StandsSend DEF Next

\* A skipped step stands for a delivery: a row is there only while a send works with it, or
\* once something has left under its key.
THEOREM SkipsStand == Spec => []SkippedForDelivery
<1>1. Init => (Serene => Stands)
  BY DEF Init, Stands, Backed, Counted, Skips, At
<1>2. (Serene => Stands) => SkippedForDelivery
  BY DEF Serene, Stands, Skips, SkippedForDelivery
<1>3. QED
  BY <1>1, <1>2, TypedInit, TimeInit, AgainInit, TypedStep, TimeStep, AgainStep, StandsStep, PTL DEF Spec
===============================================================================
