--------------------------- MODULE Mailbox_proofs ---------------------------
(* Proofs about Mailbox for every number of threads, every capacity and every *)
(* depth of nested calls.                                                    *)
EXTENDS Mailbox, SequenceTheorems, TLAPS

---------------------------------------------------------------------------
(* Stacks                                                                    *)

LEMMA StackLen ==
    ASSUME TypeOK, NEW t \in Thread
    PROVE  /\ stack[t] \in Seq(Frame)
           /\ Len(stack[t]) \in 0 .. MaxDepth
           /\ Busy(t) <=> Len(stack[t]) > 0
           /\ DOMAIN stack[t] = 1 .. Len(stack[t])
           /\ \A i \in 1 .. Len(stack[t]) : stack[t][i] \in Frame
           /\ Busy(t) => Top(t) \in Frame
<1>1. stack[t] \in Seq(Frame) /\ Len(stack[t]) <= MaxDepth
  BY DEF TypeOK
<1>2. Len(stack[t]) \in Nat /\ DOMAIN stack[t] = 1 .. Len(stack[t])
  BY <1>1, LenProperties
<1>3. Busy(t) <=> Len(stack[t]) > 0
  BY <1>1, <1>2, EmptySeq DEF Busy
<1>4. \A i \in 1 .. Len(stack[t]) : stack[t][i] \in Frame
  BY <1>1, ElementOfSeq
<1> QED
  BY <1>1, <1>2, <1>3, <1>4, MailboxAssumption DEF Top

\* The threads other than t, and the frames below the innermost one of t.
OthersStay(t) == \A u \in Thread \ {t} : stack'[u] = stack[u]

\* What a call does to the stacks: it goes on as f, ...
Turned(t, f) == /\ stack' \in [Thread -> Seq(Frame)]
                /\ Len(stack'[t]) = Len(stack[t])
                /\ stack'[t][1] = f
                /\ \A i \in 2 .. Len(stack[t]) : stack'[t][i] = stack[t][i]
                /\ OthersStay(t)

\* ... or it begins as f, on top of a call that goes on as g, ...
Pushed(t, f, g) == /\ stack' \in [Thread -> Seq(Frame)]
                   /\ Len(stack'[t]) = Len(stack[t]) + 1
                   /\ stack'[t][1] = f
                   /\ Busy(t) => stack'[t][2] = g
                   /\ \A i \in 2 .. Len(stack[t]) : stack'[t][i + 1] = stack[t][i]
                   /\ OthersStay(t)

\* ... or it ends.
Popped(t) == /\ stack' \in [Thread -> Seq(Frame)]
             /\ Len(stack'[t]) = Len(stack[t]) - 1
             /\ \A i \in 1 .. Len(stack[t]) - 1 : stack'[t][i] = stack[t][i + 1]
             /\ OthersStay(t)

LEMMA ContinueTurns ==
    ASSUME TypeOK, NEW t \in Thread, Busy(t), NEW f \in Frame, Continue(t, f)
    PROVE  Turned(t, f)
<1>1. stack[t] \in Seq(Frame) /\ 1 \in 1 .. Len(stack[t]) /\ Len(stack[t]) \in Nat
  BY StackLen, MailboxAssumption
<1> DEFINE s == [stack[t] EXCEPT ![1] = f]
<1>2. /\ s \in Seq(Frame) /\ Len(s) = Len(stack[t])
      /\ \A i \in 1 .. Len(stack[t]) : s[i] = IF i = 1 THEN f ELSE stack[t][i]
  BY <1>1, ExceptSeq
<1> HIDE DEF s
<1>3. stack' = [stack EXCEPT ![t] = s]
  BY DEF Continue, s
<1>4. stack'[t] = s /\ stack' \in [Thread -> Seq(Frame)] /\ OthersStay(t)
  BY <1>2, <1>3 DEF TypeOK, OthersStay
<1>5. \A i \in 2 .. Len(stack[t]) : s[i] = stack[t][i]
  BY <1>1, <1>2
<1> QED
  BY <1>1, <1>2, <1>4, <1>5 DEF Turned

LEMMA PopPops ==
    ASSUME TypeOK, NEW t \in Thread, Busy(t), stack' = [stack EXCEPT ![t] = Tail(@)]
    PROVE  Popped(t)
<1>1. stack[t] \in Seq(Frame) /\ stack[t] # << >>
  BY StackLen DEF Busy
<1>2. /\ Tail(stack[t]) \in Seq(Frame) /\ Len(Tail(stack[t])) = Len(stack[t]) - 1
      /\ \A i \in 1 .. Len(Tail(stack[t])) : Tail(stack[t])[i] = stack[t][i + 1]
  BY <1>1, HeadTailProperties
<1>3. /\ stack'[t] = Tail(stack[t]) /\ stack' \in [Thread -> Seq(Frame)]
      /\ OthersStay(t)
  BY <1>2 DEF TypeOK, OthersStay
<1> QED
  BY <1>2, <1>3 DEF Popped

LEMMA CallPushes ==
    ASSUME TypeOK, NEW t \in Thread, NEW f \in Frame, Call(t, f)
    PROVE  Pushed(t, f, [Top(t) EXCEPT !.reenter = FALSE])
<1> DEFINE g == [Top(t) EXCEPT !.reenter = FALSE]
           rest == IF Busy(t) THEN <<g>> \o Tail(stack[t]) ELSE stack[t]
<1>1. stack[t] \in Seq(Frame) /\ Len(stack[t]) \in Nat /\ (Busy(t) <=> Len(stack[t]) > 0)
  BY StackLen, MailboxAssumption
<1>2. Busy(t) => g \in Frame
  BY StackLen DEF Frame
<1>3. stack' = [stack EXCEPT ![t] = <<f>> \o rest]
  BY DEF Call
<1> HIDE DEF g
<1>4. /\ rest \in Seq(Frame) /\ Len(rest) = Len(stack[t])
      /\ Busy(t) => rest[1] = g
      /\ \A i \in 2 .. Len(stack[t]) : rest[i] = stack[t][i]
  <2>1. CASE Busy(t)
    <3>1. /\ Tail(stack[t]) \in Seq(Frame) /\ Len(Tail(stack[t])) = Len(stack[t]) - 1
          /\ \A i \in 1 .. Len(Tail(stack[t])) : Tail(stack[t])[i] = stack[t][i + 1]
      BY <1>1, <2>1, HeadTailProperties DEF Busy
    <3>2. <<g>> \in Seq(Frame) /\ Len(<<g>>) = 1 /\ <<g>>[1] = g
      BY <1>2, <2>1
    <3>3. /\ <<g>> \o Tail(stack[t]) \in Seq(Frame)
          /\ Len(<<g>> \o Tail(stack[t])) = 1 + (Len(stack[t]) - 1)
          /\ \A i \in 1 .. 1 + (Len(stack[t]) - 1) : (<<g>> \o Tail(stack[t]))[i] =
                IF i <= 1 THEN <<g>>[i] ELSE Tail(stack[t])[i - 1]
      BY <3>1, <3>2, ConcatProperties
    <3>4. rest = <<g>> \o Tail(stack[t])
      BY <2>1
    <3> HIDE DEF rest
    <3>5. rest \in Seq(Frame) /\ Len(rest) = Len(stack[t])
      BY <1>1, <3>3, <3>4
    <3>6. rest[1] = g
      BY <1>1, <2>1, <3>2, <3>3, <3>4
    <3>7. ASSUME NEW i \in 2 .. Len(stack[t]) PROVE rest[i] = stack[t][i]
      <4>1. i \in 1 .. 1 + (Len(stack[t]) - 1) /\ ~(i <= 1)
            /\ i - 1 \in 1 .. Len(stack[t]) - 1 /\ (i - 1) + 1 = i
        BY <1>1, <3>7
      <4>2. rest[i] = Tail(stack[t])[i - 1]
        BY <3>3, <3>4, <4>1
      <4>3. Tail(stack[t])[i - 1] = stack[t][(i - 1) + 1]
        BY <3>1, <4>1
      <4> QED
        BY <4>1, <4>2, <4>3
    <3> QED
      BY <3>5, <3>6, <3>7
  <2>2. CASE ~Busy(t)
    BY <1>1, <2>2
  <2> QED
    BY <2>1, <2>2
<1> HIDE DEF rest
<1>5. <<f>> \in Seq(Frame) /\ Len(<<f>>) = 1 /\ <<f>>[1] = f
  OBVIOUS
<1>6. /\ <<f>> \o rest \in Seq(Frame) /\ Len(<<f>> \o rest) = 1 + Len(rest)
      /\ \A i \in 1 .. 1 + Len(rest) : (<<f>> \o rest)[i] =
            IF i <= 1 THEN <<f>>[i] ELSE rest[i - 1]
  BY <1>4, <1>5, ConcatProperties
<1>7. /\ stack'[t] = <<f>> \o rest /\ stack' \in [Thread -> Seq(Frame)]
      /\ OthersStay(t)
  BY <1>3, <1>6 DEF TypeOK, OthersStay
<1>8. stack'[t][1] = f /\ Len(stack'[t]) = Len(stack[t]) + 1
  BY <1>1, <1>4, <1>5, <1>6, <1>7
<1>9. \A i \in 1 .. Len(stack[t]) : stack'[t][i + 1] = rest[i]
  <2> TAKE i \in 1 .. Len(stack[t])
  <2>1. i + 1 \in 1 .. 1 + Len(rest) /\ ~(i + 1 <= 1) /\ (i + 1) - 1 = i
    BY <1>1, <1>4
  <2> QED
    BY <1>6, <1>7, <2>1
<1>10. Busy(t) => stack'[t][2] = g
  <2> SUFFICES ASSUME Busy(t) PROVE stack'[t][2] = g
    OBVIOUS
  <2>1. 1 \in 1 .. Len(stack[t]) /\ 1 + 1 = 2
    BY <1>1
  <2> QED
    BY <1>4, <1>9, <2>1
<1>11. \A i \in 2 .. Len(stack[t]) : stack'[t][i + 1] = stack[t][i]
  <2>1. \A i \in 2 .. Len(stack[t]) : i \in 1 .. Len(stack[t])
    BY <1>1
  <2> QED
    BY <1>4, <1>9, <2>1
<1> QED
  BY <1>7, <1>8, <1>10, <1>11 DEF Pushed, g

---------------------------------------------------------------------------
(* Types, and who has the mutex                                              *)

\* The number of calls of t that have taken the mutex.
Held(t) == IF At(t, "lock") THEN Len(stack[t]) - 1 ELSE Len(stack[t])

\* The mutex is with one thread, and counts its calls.
Locked == /\ \A t \in Thread : Held(t) = IF owner = t THEN depth ELSE 0
          /\ owner = Nobody <=> depth = 0

\* Calls below the innermost one are in a callback.
Nested == \A t \in Thread : \A i \in 2 .. Len(stack[t]) : stack[t][i].pc = "calling"

\* What the number in a frame means at some places.
Counts(f) == /\ f.pc \in {"read", "copy"} => f.n >= 1
             /\ f.pc = "lock" /\ f.op = "put" => f.n = 0
             /\ f.pc = "test" => f.n = 0

LockInv == /\ TypeOK
           /\ Locked
           /\ Nested
           /\ \A t \in Thread : Busy(t) => Counts(Top(t))

\* Whoever takes the mutex, or has it, is alone with it.
LEMMA Alone ==
    ASSUME LockInv, NEW t \in Thread, owner \in {Nobody, t}, NEW u \in Thread, u # t
    PROVE  /\ Len(stack[u]) <= 1
           /\ Busy(u) => At(u, "lock")
<1>1. Held(u) = 0
  BY NobodyAssumption DEF LockInv, Locked
<1> QED
  BY <1>1, StackLen, MailboxAssumption DEF LockInv, Held

\* Whoever is past lock() has the mutex.
LEMMA InsideOwns ==
    ASSUME LockInv, NEW t \in Thread, Busy(t), ~At(t, "lock")
    PROVE  owner = t /\ depth = Len(stack[t])
<1>1. Held(t) = Len(stack[t]) /\ Len(stack[t]) > 0
  BY StackLen DEF LockInv, Held
<1> QED
  BY <1>1 DEF LockInv, Locked

Moves(t) == \/ assign(t) \/ test(t) \/ store(t) \/ advance(t) \/ tell(t) \/ return(t)
            \/ countMessages(t) \/ read(t) \/ copy(t)

\* Which steps lead to a place, and what the frame f knows there.
Leads(t, f) ==
    /\ f.pc = "store" => test(t) /\ ~Ring!isFull
    /\ f.pc = "advance" => store(t) /\ f.msg = Top(t).msg
    /\ f.pc = "tell" => \/ test(t) /\ Ring!isFull /\ f.n = Top(t).n
                        \/ advance(t) /\ f.n = 1 /\ f.msg = Top(t).msg
    /\ f.pc = "calling" => tell(t) /\ f.who = delegate
    /\ f.pc = "read" => \/ countMessages(t) /\ f.n <= Ring!count
                        \/ copy(t) /\ f.n = Top(t).n - 1
    /\ f.pc = "copy" => read(t) /\ f.n = Top(t).n /\ f.slot = r

\* A call that neither begins nor ends moves on to another frame.
LEMMA MovesTurn ==
    ASSUME LockInv, NEW t \in Thread, lock(t) \/ Moves(t)
    PROVE  \E f \in Frame : Turned(t, f) /\ f.pc # "lock" /\ Counts(f) /\ Leads(t, f)
<1> DEFINE g == Top(t)
           Goal == \E h \in Frame : /\ Turned(t, h) /\ h.pc # "lock"
                                    /\ Counts(h) /\ Leads(t, h)
<1>0. Busy(t)
  BY DEF Moves, lock, assign, test, store, advance, tell, return, countMessages, read,
         copy, At
<1>1. TypeOK /\ g \in Frame /\ Counts(g)
  BY <1>0, StackLen DEF LockInv
<1>2. ASSUME NEW f \in Frame, Continue(t, f), f.pc # "lock", Counts(f), Leads(t, f)
      PROVE  Goal
  BY <1>0, <1>1, <1>2, ContinueTurns
<1> SUFFICES Goal
  OBVIOUS
<1> HIDE DEF g, Goal
<1>3. ASSUME NEW pc \in {"test", "store", "advance", "tell", "count", "assign", "unlock"},
             GoTo(t, pc),
             pc = "test" => g.n = 0,
             pc = "store" => test(t) /\ ~Ring!isFull,
             pc = "advance" => store(t),
             pc = "tell" => test(t) /\ Ring!isFull
      PROVE  Goal
  <2> DEFINE f == [g EXCEPT !.pc = pc]
  <2>1. f \in Frame /\ Continue(t, f)
    BY <1>1, <1>3 DEF Frame, GoTo, g
  <2>2. f.pc = pc /\ f.n = g.n /\ f.msg = g.msg
    BY <1>1 DEF Frame
  <2> HIDE DEF f
  <2>3. Counts(f)
    BY <1>3, <2>2 DEF Counts
  <2>4. Leads(t, f)
    BY <1>3, <2>2 DEF Leads, g
  <2>5. f.pc # "lock"
    BY <2>2
  <2> QED
    BY <1>2, <2>1, <2>3, <2>4, <2>5
<1>4. CASE lock(t)
  <2>1. g.op \in {"put", "poll", "set"} /\ g.pc = "lock"
    BY <1>1, <1>4 DEF lock, At, g, Frame
  <2>2. /\ FirstStep[g.op] \in {"test", "count", "assign"}
        /\ FirstStep[g.op] = "test" => g.op = "put"
    BY <2>1 DEF FirstStep
  <2>3. FirstStep[g.op] = "test" => g.n = 0
    BY <1>1, <2>1, <2>2 DEF Counts
  <2>4. GoTo(t, FirstStep[g.op])
    BY <1>4 DEF lock, g
  <2> QED
    BY <1>3, <2>2, <2>3, <2>4
<1>5. CASE assign(t)
  <2> DEFINE f == [g EXCEPT !.pc = "unlock", !.who = delegate]
  <2>1. f \in Frame /\ f.pc = "unlock"
    BY <1>1 DEF Frame, TypeOK
  <2>2. Continue(t, f)
    BY <1>5 DEF assign, g
  <2> HIDE DEF f
  <2> QED
    BY <1>2, <2>1, <2>2 DEF Counts, Leads
<1>6. CASE test(t)
  <2>1. GoTo(t, IF Ring!isFull THEN "tell" ELSE "store")
    BY <1>6 DEF test
  <2> QED
    BY <1>3, <1>6, <2>1
<1>7. CASE store(t) \/ return(t)
  BY <1>3, <1>7 DEF store, return
<1>8. CASE advance(t)
  <2> DEFINE f == [g EXCEPT !.pc = "tell", !.n = 1]
  <2>0. 1 \in 0 .. Capacity
    BY MailboxAssumption
  <2>1. f \in Frame /\ f.pc = "tell" /\ f.n = 1 /\ f.msg = g.msg
    BY <1>1, <2>0 DEF Frame
  <2>2. Continue(t, f)
    BY <1>8 DEF advance, g
  <2> HIDE DEF f
  <2>3. Counts(f) /\ Leads(t, f)
    BY <1>8, <2>1 DEF Counts, Leads, g
  <2> QED
    BY <1>2, <2>1, <2>2, <2>3
<1>9. CASE tell(t)
  <2> DEFINE f == [g EXCEPT !.pc = "calling", !.who = delegate]
  <2>1. f \in Frame /\ f.pc = "calling" /\ f.who = delegate
    BY <1>1 DEF Frame, TypeOK
  <2>2. Counts(f) /\ Leads(t, f)
    BY <1>9, <2>1 DEF Counts, Leads
  <2>3. Continue(t, f) \/ GoTo(t, "unlock")
    BY <1>9 DEF tell, g
  <2> HIDE DEF f
  <2> QED
    BY <1>2, <1>3, <2>1, <2>2, <2>3
<1>10. CASE countMessages(t)
  <2> DEFINE n == IF Ring!count < g.n THEN Ring!count ELSE g.n
             f == [g EXCEPT !.pc = IF n = 0 THEN "unlock" ELSE "read", !.n = n]
  <2>1. Ring!count \in 0 .. Capacity /\ g.n \in 0 .. Capacity
    BY <1>1, MailboxAssumption DEF TypeOK, Ring!TypeOK, Ring!count, Ring!Slots, Frame
  <2>2. n \in 0 .. Capacity /\ n <= Ring!count
    BY <2>1, MailboxAssumption
  <2>3. Continue(t, f)
    BY <1>10 DEF countMessages, g
  <2> HIDE DEF n
  <2>4. f \in Frame /\ f.pc = (IF n = 0 THEN "unlock" ELSE "read") /\ f.n = n
    BY <1>1, <2>2 DEF Frame
  <2>5. Counts(f)
    BY <2>2, <2>4, MailboxAssumption DEF Counts
  <2>6. Leads(t, f)
    BY <1>10, <2>2, <2>4 DEF Leads
  <2> HIDE DEF f
  <2> QED
    BY <1>2, <2>3, <2>4, <2>5, <2>6
<1>11. CASE read(t)
  <2> DEFINE f == [g EXCEPT !.pc = "copy", !.slot = r]
  <2>1. g.pc = "read" /\ r \in Ring!Slots
    BY <1>1, <1>11 DEF read, At, g, TypeOK, Ring!TypeOK
  <2>2. f \in Frame /\ f.pc = "copy" /\ f.n = g.n /\ f.slot = r
    BY <1>1, <2>1 DEF Frame
  <2>3. Counts(f) /\ Leads(t, f)
    BY <1>1, <1>11, <2>1, <2>2 DEF Counts, Leads, g
  <2> QED
    BY <1>2, <1>11, <2>2, <2>3 DEF read, g
<1>12. CASE copy(t)
  <2> DEFINE f == [g EXCEPT !.pc = IF g.n = 1 THEN "unlock" ELSE "read", !.n = g.n - 1]
  <2>1. g.n >= 1 /\ g.n \in 0 .. Capacity
    BY <1>1, <1>12 DEF copy, At, g, Counts, Frame
  <2>2. g.n - 1 \in 0 .. Capacity
    BY <2>1, MailboxAssumption
  <2>3. f \in Frame /\ f.pc = (IF g.n = 1 THEN "unlock" ELSE "read") /\ f.n = g.n - 1
    BY <1>1, <2>2 DEF Frame
  <2>4. Counts(f)
    BY <2>1, <2>3, MailboxAssumption DEF Counts
  <2>5. Leads(t, f)
    BY <1>12, <2>3 DEF Leads, g
  <2>6. Continue(t, f)
    BY <1>12 DEF copy, g
  <2> HIDE DEF f
  <2> QED
    BY <1>2, <2>3, <2>4, <2>5, <2>6
<1> QED
  BY <1>4, <1>5, <1>6, <1>7, <1>8, <1>9, <1>10, <1>11, <1>12 DEF Moves

\* What the steps do to the variables other than the stacks.
LEMMA OtherTypes ==
    ASSUME LockInv, NEW t \in Thread, Step(t)
    PROVE  /\ Ring!TypeOK'
           /\ delegate' \in Delegate \cup {Nobody}
           /\ retired' \subseteq Delegate
<1>0. Busy(t) /\ Top(t) \in Frame
  BY StackLen DEF LockInv, Step, lock, unlock, assign, test, store, advance, tell, return,
                  countMessages, read, copy, At
<1>1. /\ Top(t).msg \in Msg /\ Top(t).slot \in Ring!Slots
      /\ Top(t).who \in Delegate \cup {Nobody}
  BY <1>0 DEF Frame
<1>2. Ring!next(w) \in Ring!Slots /\ Ring!next(r) \in Ring!Slots
  BY MailboxAssumption DEF LockInv, TypeOK, Ring!TypeOK, Ring!next, Ring!Slots
<1> USE DEF LockInv, TypeOK, Ring!TypeOK, ringVars, lockVars
<1>3. CASE lock(t) \/ test(t) \/ tell(t) \/ return(t) \/ countMessages(t)
  BY <1>3 DEF lock, test, tell, return, countMessages
<1>4. CASE unlock(t) \/ assign(t)
  BY <1>1, <1>4 DEF unlock, assign
<1>5. CASE store(t) \/ advance(t) \/ read(t)
  BY <1>1, <1>2, <1>5 DEF store, advance, read
<1>6. CASE copy(t)
  BY <1>1, <1>6 DEF copy
<1> QED
  BY <1>3, <1>4, <1>5, <1>6 DEF Step

LEMMA LockCallStep ==
    ASSUME LockInv, NEW t \in Thread, NEW f \in Frame, Call(t, f), f.pc = "lock", Counts(f)
    PROVE  LockInv'
<1> DEFINE g == [Top(t) EXCEPT !.reenter = FALSE]
<1>1. /\ Len(stack[t]) \in 0 .. MaxDepth /\ (Busy(t) <=> Len(stack[t]) > 0)
      /\ Busy(t) => At(t, "calling") /\ Top(t) \in Frame /\ Len(stack[t]) < MaxDepth
  BY StackLen DEF LockInv, Call, MayCall
<1>2. Pushed(t, f, g)
  BY CallPushes DEF LockInv
<1>3. Busy(t) => g.pc = "calling"
  BY <1>1 DEF At, Frame
<1> HIDE DEF g
<1>4. stack'[t] \in Seq(Frame)
  BY <1>2 DEF Pushed
<1>5. Len(stack'[t]) > 0 /\ Len(stack'[t]) <= MaxDepth
  BY <1>1, <1>2, MailboxAssumption DEF Pushed
<1>6. stack'[t] # << >>
  BY <1>4, <1>5, EmptySeq
<1>7. TypeOK'
  BY <1>2, <1>5 DEF LockInv, TypeOK, Pushed, OthersStay, Call, ringVars, lockVars,
                    Ring!TypeOK
<1>8. Top(t)' = f /\ Held(t)' = Len(stack[t]) /\ Busy(t)'
  BY <1>1, <1>2, <1>6, MailboxAssumption DEF Pushed, Top, Held, At, Busy
<1>9. Held(t) = Len(stack[t])
  BY <1>1 DEF Held, At
<1>10. \A u \in Thread \ {t} : stack'[u] = stack[u]
  BY <1>2 DEF Pushed, OthersStay
<1>11. \A u \in Thread \ {t} : /\ Held(u)' = Held(u) /\ Busy(u)' = Busy(u)
                               /\ Top(u)' = Top(u)
  BY <1>10 DEF Held, At, Busy, Top
<1>12. Locked'
  BY <1>8, <1>9, <1>11 DEF LockInv, Locked, Call, lockVars
<1>13. ASSUME NEW i \in 2 .. Len(stack'[t]) PROVE stack'[t][i].pc = "calling"
  <2>1. CASE i = 2
    BY <1>1, <1>2, <1>3, <2>1, MailboxAssumption DEF Pushed
  <2>2. CASE i # 2
    <3>1. i - 1 \in 2 .. Len(stack[t]) /\ (i - 1) + 1 = i
      BY <1>1, <1>2, <1>13, <2>2, MailboxAssumption DEF Pushed
    <3>2. stack'[t][i] = stack[t][i - 1]
      BY <1>2, <3>1 DEF Pushed
    <3> QED
      BY <3>1, <3>2 DEF LockInv, Nested
  <2> QED
    BY <2>1, <2>2
<1>14. Nested'
  BY <1>10, <1>13 DEF LockInv, Nested
<1> QED
  BY <1>7, <1>8, <1>11, <1>12, <1>14 DEF LockInv

LEMMA LockMoveStep ==
    ASSUME LockInv, NEW t \in Thread, lock(t) \/ Moves(t)
    PROVE  LockInv'
<1>1. PICK f \in Frame : Turned(t, f) /\ f.pc # "lock" /\ Counts(f)
  BY MovesTurn
<1>2. /\ Len(stack[t]) \in 0 .. MaxDepth /\ Len(stack[t]) > 0 /\ Busy(t)
      /\ lock(t) => At(t, "lock")
      /\ Moves(t) => ~At(t, "lock")
  BY StackLen, MailboxAssumption
     DEF LockInv, Moves, lock, assign, test, store, advance, tell, return, countMessages,
         read, copy, At
<1>3. stack'[t] \in Seq(Frame) /\ Len(stack'[t]) = Len(stack[t])
  BY <1>1 DEF Turned
<1>4. stack'[t] # << >>
  BY <1>2, <1>3, EmptySeq
<1>5. Top(t)' = f /\ Held(t)' = Len(stack[t]) /\ Busy(t)'
  BY <1>1, <1>3, <1>4 DEF Turned, Top, Held, At, Busy
<1>6. \A u \in Thread \ {t} : stack'[u] = stack[u]
  BY <1>1 DEF Turned, OthersStay
<1>7. \A u \in Thread \ {t} : /\ Held(u)' = Held(u) /\ Busy(u)' = Busy(u)
                              /\ Top(u)' = Top(u)
  BY <1>6 DEF Held, At, Busy, Top
<1>8. /\ Locked' /\ owner' \in Thread \cup {Nobody} /\ depth' \in 0 .. MaxDepth
  <2>1. CASE lock(t)
    <3>1. Held(t) = Len(stack[t]) - 1
      BY <1>2, <2>1 DEF Held
    <3>2. owner \in {Nobody, t} /\ owner' = t /\ depth' = depth + 1
      BY <2>1 DEF lock
    <3>3. depth = Len(stack[t]) - 1
      BY <1>2, <3>1, <3>2, NobodyAssumption DEF LockInv, Locked
    <3>4. depth' = Len(stack[t])
      BY <1>2, <3>2, <3>3, MailboxAssumption
    <3>5. \A u \in Thread \ {t} : Held(u)' = 0
      BY <1>7, <3>2, NobodyAssumption DEF LockInv, Locked
    <3>6. \A u \in Thread : Held(u)' = IF owner' = u THEN depth' ELSE 0
      BY <1>5, <3>2, <3>4, <3>5
    <3>7. owner' # Nobody /\ depth' # 0
      BY <1>2, <3>2, <3>4, NobodyAssumption, MailboxAssumption
    <3> QED
      BY <1>2, <3>2, <3>4, <3>6, <3>7 DEF Locked
  <2>2. CASE Moves(t)
    <3>1. owner' = owner /\ depth' = depth
      BY <2>2 DEF Moves, assign, test, store, advance, tell, return, countMessages, read,
                  copy, lockVars
    <3>2. Held(t) = Len(stack[t])
      BY <1>2, <2>2 DEF Held
    <3> QED
      BY <1>5, <1>7, <3>1, <3>2 DEF LockInv, Locked, TypeOK
  <2> QED
    BY <2>1, <2>2
<1>9. TypeOK'
  <2>1. Step(t)
    BY DEF Step, Moves
  <2>2. stack' \in [Thread -> Seq(Frame)] /\ \A u \in Thread : Len(stack'[u]) <= MaxDepth
    BY <1>1, <1>2, <1>3, <1>6 DEF Turned, LockInv, TypeOK
  <2> QED
    BY <1>8, <2>1, <2>2, OtherTypes DEF TypeOK
<1>10. Nested'
  BY <1>1, <1>3, <1>6 DEF Turned, LockInv, Nested
<1> QED
  BY <1>1, <1>5, <1>7, <1>8, <1>9, <1>10 DEF LockInv

LEMMA LockUnlockStep ==
    ASSUME LockInv, NEW t \in Thread, unlock(t)
    PROVE  LockInv'
<1>1. /\ Len(stack[t]) \in 0 .. MaxDepth /\ Len(stack[t]) > 0 /\ Busy(t)
      /\ ~At(t, "lock") /\ Popped(t)
  BY StackLen, PopPops, MailboxAssumption DEF LockInv, unlock, At
<1>2. owner = t /\ depth = Len(stack[t])
  BY <1>1, InsideOwns
<1>3. /\ stack'[t] \in Seq(Frame) /\ Len(stack'[t]) = Len(stack[t]) - 1
      /\ \A i \in 1 .. Len(stack[t]) - 1 : stack'[t][i] = stack[t][i + 1]
  BY <1>1 DEF Popped
<1>4. \A i \in 1 .. Len(stack[t]) - 1 : stack'[t][i].pc = "calling"
  <2> TAKE i \in 1 .. Len(stack[t]) - 1
  <2>1. i + 1 \in 2 .. Len(stack[t])
    BY <1>1, MailboxAssumption
  <2> QED
    BY <1>3, <2>1 DEF LockInv, Nested
<1>5. Len(stack'[t]) > 0 <=> Busy(t)'
  BY <1>1, <1>3, EmptySeq, LenProperties DEF Busy
<1>6. Busy(t)' => Top(t)'.pc = "calling"
  <2> SUFFICES ASSUME Busy(t)' PROVE stack'[t][1].pc = "calling"
    BY DEF Top
  <2>1. 1 \in 1 .. Len(stack[t]) - 1
    BY <1>1, <1>3, <1>5, MailboxAssumption
  <2> QED
    BY <1>4, <2>1
<1>7. Held(t)' = Len(stack[t]) - 1
  BY <1>3, <1>6 DEF Held, At
<1>8. \A u \in Thread \ {t} : stack'[u] = stack[u]
  BY <1>1 DEF Popped, OthersStay
<1>9. \A u \in Thread \ {t} : /\ Held(u)' = Held(u) /\ Busy(u)' = Busy(u)
                              /\ Top(u)' = Top(u)
  BY <1>8 DEF Held, At, Busy, Top
<1>10. depth' = depth - 1 /\ owner' = IF depth = 1 THEN Nobody ELSE t
  BY <1>2 DEF unlock
<1>11. \A u \in Thread \ {t} : Held(u)' = 0
  BY <1>2, <1>9 DEF LockInv, Locked
<1>12. /\ Locked' /\ owner' \in Thread \cup {Nobody} /\ depth' \in 0 .. MaxDepth
  <2>1. depth' = Len(stack[t]) - 1 /\ depth' \in 0 .. MaxDepth /\ (depth' = 0 <=> depth = 1)
    BY <1>1, <1>2, <1>10, MailboxAssumption
  <2>2. \A u \in Thread : Held(u)' = IF owner' = u THEN depth' ELSE 0
    BY <1>7, <1>10, <1>11, <2>1, NobodyAssumption
  <2>3. owner' = Nobody <=> depth' = 0
    BY <1>10, <2>1, NobodyAssumption
  <2>4. Locked'
    BY <2>2, <2>3 DEF Locked
  <2> QED
    BY <1>10, <2>1, <2>4
<1>13. TypeOK'
  <2>1. Step(t)
    BY DEF Step
  <2>2. Len(stack'[t]) <= MaxDepth
    BY <1>1, <1>3, MailboxAssumption
  <2>3. stack' \in [Thread -> Seq(Frame)] /\ \A u \in Thread : Len(stack'[u]) <= MaxDepth
    BY <1>1, <1>8, <2>2 DEF Popped, LockInv, TypeOK
  <2> QED
    BY <1>12, <2>1, <2>3, OtherTypes DEF TypeOK
<1>14. ASSUME NEW i \in 2 .. Len(stack'[t]) PROVE stack'[t][i].pc = "calling"
  <2>1. i \in 1 .. Len(stack[t]) - 1
    BY <1>1, <1>3, MailboxAssumption
  <2> QED
    BY <1>4, <2>1
<1>15. Nested'
  BY <1>8, <1>14 DEF LockInv, Nested
<1>16. \A u \in Thread : Busy(u)' => Counts(Top(u))'
  BY <1>6, <1>9 DEF LockInv, Counts
<1> QED
  BY <1>12, <1>13, <1>15, <1>16 DEF LockInv

\* A call begins in front of lock().
LEMMA CallsBegin ==
    ASSUME NEW t \in Thread,
           \/ \E m \in Msg : callPut(t, m)
           \/ \E n \in 1 .. Capacity : callPoll(t, n)
           \/ \E d \in Delegate \cup {Nobody} : callSet(t, d)
    PROVE  \E f \in Frame : Call(t, f) /\ f.pc = "lock" /\ Counts(f)
<1>1. NoFrame \in Frame /\ NoFrame.pc = "lock" /\ NoFrame.op = "poll" /\ NoFrame.n = 0
  BY MailboxAssumption DEF NoFrame, Frame, Ring!Slots
<1> HIDE DEF NoFrame
<1>2. ASSUME NEW m \in Msg, callPut(t, m)
      PROVE  \E f \in Frame : Call(t, f) /\ f.pc = "lock" /\ Counts(f)
  <2> DEFINE f == [NoFrame EXCEPT !.op = "put", !.msg = m]
  <2>1. f \in Frame /\ f.pc = "lock" /\ f.n = 0
    BY <1>1 DEF Frame
  <2> QED
    BY <1>2, <2>1 DEF callPut, Counts
<1>3. ASSUME NEW n \in 1 .. Capacity, callPoll(t, n)
      PROVE  \E f \in Frame : Call(t, f) /\ f.pc = "lock" /\ Counts(f)
  <2> DEFINE f == [NoFrame EXCEPT !.op = "poll", !.n = n]
  <2>1. n \in 0 .. Capacity
    BY MailboxAssumption
  <2>2. f \in Frame /\ f.pc = "lock" /\ f.op = "poll"
    BY <1>1, <2>1 DEF Frame
  <2> QED
    BY <1>3, <2>2 DEF callPoll, Counts
<1>4. ASSUME NEW d \in Delegate \cup {Nobody}, callSet(t, d)
      PROVE  \E f \in Frame : Call(t, f) /\ f.pc = "lock" /\ Counts(f)
  <2> DEFINE f == [NoFrame EXCEPT !.op = "set", !.who = d]
  <2>1. f \in Frame /\ f.pc = "lock" /\ f.op = "set"
    BY <1>1 DEF Frame
  <2> QED
    BY <1>4, <2>1 DEF callSet, Counts
<1> QED
  BY <1>2, <1>3, <1>4

LEMMA LockInvStep == LockInv /\ [Next]_vars => LockInv'
<1> SUFFICES ASSUME LockInv, [Next]_vars PROVE LockInv'
  OBVIOUS
<1>1. ASSUME NEW t \in Thread, Step(t) PROVE LockInv'
  BY <1>1, LockMoveStep, LockUnlockStep DEF Step, Moves
<1>2. ASSUME NEW t \in Thread,
             \/ \E m \in Msg : callPut(t, m)
             \/ \E n \in 1 .. Capacity : callPoll(t, n)
             \/ \E d \in Delegate \cup {Nobody} : callSet(t, d)
      PROVE  LockInv'
  BY <1>2, CallsBegin, LockCallStep
<1>3. CASE UNCHANGED vars
  BY <1>3 DEF vars, LockInv, TypeOK, Ring!TypeOK, Locked, Nested, Held, Busy, Top, At
<1> QED
  BY <1>1, <1>2, <1>3 DEF Next

LEMMA LockInvInit == Init => LockInv
<1> SUFFICES ASSUME Init PROVE LockInv
  OBVIOUS
<1>1. \A t \in Thread : stack[t] = << >> /\ Len(stack[t]) = 0 /\ ~Busy(t)
  BY EmptySeq DEF Init, Busy
<1>2. stack \in [Thread -> Seq(Frame)]
  BY EmptySeq DEF Init
<1>3. TypeOK
  BY <1>1, <1>2, MailboxAssumption DEF Init, Ring!Init, TypeOK, Ring!TypeOK, Ring!Slots
<1>4. Locked
  BY <1>1, NobodyAssumption DEF Init, Locked, Held, At
<1>5. Nested
  BY <1>1 DEF Nested
<1> QED
  BY <1>1, <1>3, <1>4, <1>5 DEF LockInv

\* Every variable keeps its type; that the depth of the mutex stays within the
\* depth of the calls takes the whole argument that it counts the calls of one
\* thread.
THEOREM TypeCorrect == Spec => []TypeOK
<1>1. LockInv => TypeOK
  BY DEF LockInv
<1> QED
  BY <1>1, LockInvInit, LockInvStep, PTL DEF Spec

\* No two threads are past lock() at a time.
MutualExclusion ==
    \A t, u \in Thread : Held(t) > 0 /\ Held(u) > 0 => t = u

\* The recursive mutex lets one thread in, however deep the callbacks of its
\* delegates call the mailbox back.
THEOREM OneThreadInside == Spec => []MutualExclusion
<1>1. LockInv => MutualExclusion
  BY DEF LockInv, Locked, MutualExclusion
<1> QED
  BY <1>1, LockInvInit, LockInvStep, PTL DEF Spec

---------------------------------------------------------------------------
(* Delegates that were removed                                               *)

QuietInv == delegate \notin retired /\ ClearedIsQuiet

\* The same, with the frames counted.
QuietFrames ==
    \A t \in Thread : \A i \in 1 .. Len(stack[t]) :
        stack[t][i].pc = "calling" => stack[t][i].who \notin retired

LEMMA QuietByFrames == TypeOK => (ClearedIsQuiet <=> QuietFrames)
<1> SUFFICES ASSUME TypeOK PROVE ClearedIsQuiet <=> QuietFrames
  OBVIOUS
<1>1. \A t \in Thread : DOMAIN stack[t] = 1 .. Len(stack[t])
  BY StackLen
<1> QED
  BY <1>1 DEF ClearedIsQuiet, QuietFrames

LEMMA QuietByFramesNext == TypeOK' => (ClearedIsQuiet' <=> QuietFrames')
BY QuietByFrames, PTL

LEMMA QuietCallStep ==
    ASSUME LockInv, LockInv', QuietInv, NEW t \in Thread, NEW f \in Frame, Call(t, f),
           f.pc = "lock"
    PROVE  QuietInv'
<1> DEFINE g == [Top(t) EXCEPT !.reenter = FALSE]
<1>1. /\ Len(stack[t]) \in 0 .. MaxDepth /\ (Busy(t) <=> Len(stack[t]) > 0)
      /\ Busy(t) => Top(t) \in Frame
  BY StackLen DEF LockInv
<1>2. Pushed(t, f, g)
  BY CallPushes DEF LockInv
<1>3. Busy(t) => g.pc = Top(t).pc /\ g.who = Top(t).who
  BY <1>1 DEF Frame
<1> HIDE DEF g
<1>4. delegate' = delegate /\ retired' = retired
  BY DEF Call
<1>5. \A u \in Thread : \A i \in 1 .. Len(stack[u]) :
         stack[u][i].pc = "calling" => stack[u][i].who \notin retired
  BY QuietByFrames DEF LockInv, QuietInv, QuietFrames
<1>6. ASSUME NEW i \in 1 .. Len(stack'[t]), stack'[t][i].pc = "calling"
      PROVE  stack'[t][i].who \notin retired
  <2>1. Len(stack'[t]) = Len(stack[t]) + 1 /\ i # 1
    BY <1>2, <1>6 DEF Pushed
  <2>2. CASE i = 2
    <3>1. Busy(t) /\ 1 \in 1 .. Len(stack[t])
      BY <1>1, <2>1, <2>2, MailboxAssumption
    <3>2. stack'[t][i] = g
      BY <1>2, <2>2, <3>1 DEF Pushed
    <3> QED
      BY <1>3, <1>5, <1>6, <3>1, <3>2 DEF Top
  <2>3. CASE i # 2
    <3>1. i - 1 \in 2 .. Len(stack[t]) /\ (i - 1) + 1 = i /\ i - 1 \in 1 .. Len(stack[t])
      BY <1>1, <2>1, <2>3, MailboxAssumption
    <3>2. stack'[t][i] = stack[t][i - 1]
      BY <1>2, <3>1 DEF Pushed
    <3> QED
      BY <1>5, <1>6, <3>1, <3>2
  <2> QED
    BY <2>2, <2>3
<1>7. \A u \in Thread \ {t} : stack'[u] = stack[u]
  BY <1>2 DEF Pushed, OthersStay
<1>8. \A u \in Thread : \A i \in 1 .. Len(stack'[u]) :
         stack'[u][i].pc = "calling" => stack'[u][i].who \notin retired'
  BY <1>4, <1>5, <1>6, <1>7
<1> QED
  BY <1>4, <1>8, QuietByFramesNext DEF LockInv, QuietInv, QuietFrames

LEMMA QuietMoveStep ==
    ASSUME LockInv, LockInv', QuietInv, NEW t \in Thread, lock(t) \/ Moves(t)
    PROVE  QuietInv'
<1>1. PICK f \in Frame : Turned(t, f) /\ Leads(t, f)
  BY MovesTurn
<1>2. /\ Len(stack[t]) \in Nat /\ Len(stack'[t]) = Len(stack[t])
      /\ stack'[t][1] = f
      /\ \A i \in 2 .. Len(stack[t]) : stack'[t][i] = stack[t][i]
      /\ \A u \in Thread \ {t} : stack'[u] = stack[u]
  BY <1>1, StackLen, MailboxAssumption DEF LockInv, Turned, OthersStay
<1>3. \A u \in Thread : \A i \in 1 .. Len(stack[u]) :
         stack[u][i].pc = "calling" => stack[u][i].who \notin retired
  BY QuietByFrames DEF LockInv, QuietInv, QuietFrames
<1>4. /\ delegate' \notin retired' /\ retired' \subseteq retired
      /\ tell(t) => delegate' = delegate /\ retired' = retired
  BY DEF QuietInv, lock, Moves, assign, test, store, advance, tell, return, countMessages,
         read, copy
<1>5. f.pc = "calling" => f.who \notin retired'
  BY <1>1, <1>4 DEF Leads
<1>6. ASSUME NEW u \in Thread, NEW i \in 1 .. Len(stack'[u]), stack'[u][i].pc = "calling"
      PROVE  stack'[u][i].who \notin retired'
  <2>1. CASE u = t /\ i = 1
    BY <1>2, <1>5, <1>6, <2>1
  <2>2. CASE u = t /\ i # 1
    <3>1. i \in 2 .. Len(stack[t]) /\ i \in 1 .. Len(stack[t])
      BY <1>2, <2>2
    <3> QED
      BY <1>2, <1>3, <1>4, <1>6, <2>2, <3>1
  <2>3. CASE u # t
    BY <1>2, <1>3, <1>4, <1>6, <2>3
  <2> QED
    BY <2>1, <2>2, <2>3
<1> QED
  BY <1>4, <1>6, QuietByFramesNext DEF LockInv, QuietInv, QuietFrames

\* Only the last call of a thread retires a delegate, and then nobody is in a
\* callback.
LEMMA QuietUnlockStep ==
    ASSUME LockInv, LockInv', QuietInv, NEW t \in Thread, unlock(t)
    PROVE  QuietInv'
<1>1. /\ Len(stack[t]) \in Nat /\ Busy(t) /\ ~At(t, "lock") /\ Popped(t)
  <2>1. TypeOK /\ Busy(t) /\ ~At(t, "lock") /\ stack' = [stack EXCEPT ![t] = Tail(@)]
    BY DEF LockInv, unlock, At
  <2>2. Len(stack[t]) \in 0 .. MaxDepth
    BY <2>1, StackLen
  <2>3. Popped(t)
    BY <2>1, PopPops
  <2> QED
    BY <2>1, <2>2, <2>3, MailboxAssumption
<1>2. /\ Len(stack'[t]) = Len(stack[t]) - 1
      /\ \A i \in 1 .. Len(stack[t]) - 1 : stack'[t][i] = stack[t][i + 1]
      /\ \A u \in Thread \ {t} : stack'[u] = stack[u]
  BY <1>1 DEF Popped, OthersStay
<1>3. \A u \in Thread : \A i \in 1 .. Len(stack[u]) :
         stack[u][i].pc = "calling" => stack[u][i].who \notin retired
  BY QuietByFrames DEF LockInv, QuietInv, QuietFrames
<1>4. delegate' = delegate /\ delegate' \notin retired'
  BY DEF unlock, QuietInv
<1>5. ASSUME NEW u \in Thread, NEW i \in 1 .. Len(stack'[u]), stack'[u][i].pc = "calling"
      PROVE  stack'[u][i].who \notin retired'
  <2>1. CASE Len(stack[t]) = 1
    <3>1. u # t
      BY <1>2, <2>1
    <3>2. Len(stack[u]) <= 1 /\ (Busy(u) => At(u, "lock"))
      BY <1>1, <3>1, InsideOwns, Alone
    <3>3. i = 1 /\ Busy(u) /\ stack[u][1].pc = "calling"
      BY <1>2, <1>5, <3>1, <3>2, StackLen, MailboxAssumption DEF LockInv
    <3> QED
      BY <3>2, <3>3 DEF At, Top
  <2>2. CASE Len(stack[t]) # 1
    <3>1. retired' = retired
      BY <2>2 DEF unlock
    <3>2. CASE u = t
      <4>1. i \in 1 .. Len(stack[t]) - 1 /\ i + 1 \in 1 .. Len(stack[t])
        BY <1>1, <1>2, <3>2
      <4> QED
        BY <1>2, <1>3, <1>5, <3>1, <3>2, <4>1
    <3>3. CASE u # t
      BY <1>2, <1>3, <1>5, <3>1, <3>3
    <3> QED
      BY <3>2, <3>3
  <2> QED
    BY <2>1, <2>2
<1> QED
  BY <1>4, <1>5, QuietByFramesNext DEF LockInv, QuietInv, QuietFrames

\* Once clearDelegate() or setDelegate() has returned, the old delegate is in no
\* callback and gets into none, for every number of threads and every depth of
\* calls from callbacks: the mutex that a callback holds is the one clearing
\* waits for.
THEOREM RemovedDelegatesAreQuiet == Spec => []ClearedIsQuiet
<1>1. Init => QuietInv
  BY NobodyAssumption DEF Init, QuietInv, ClearedIsQuiet
<1>2. LockInv /\ LockInv' /\ QuietInv /\ [Next]_vars => QuietInv'
  <2> SUFFICES ASSUME LockInv, LockInv', QuietInv, [Next]_vars PROVE QuietInv'
    OBVIOUS
  <2>1. ASSUME NEW t \in Thread, Step(t) PROVE QuietInv'
    BY <2>1, QuietMoveStep, QuietUnlockStep DEF Step, Moves
  <2>2. ASSUME NEW t \in Thread,
               \/ \E m \in Msg : callPut(t, m)
               \/ \E n \in 1 .. Capacity : callPoll(t, n)
               \/ \E d \in Delegate \cup {Nobody} : callSet(t, d)
        PROVE  QuietInv'
    BY <2>2, CallsBegin, QuietCallStep
  <2>3. CASE UNCHANGED vars
    BY <2>3 DEF vars, QuietInv, ClearedIsQuiet
  <2> QED
    BY <2>1, <2>2, <2>3 DEF Next
<1>3. QuietInv => ClearedIsQuiet
  BY DEF QuietInv
<1> QED
  BY <1>1, <1>2, <1>3, LockInvInit, LockInvStep, PTL DEF Spec

---------------------------------------------------------------------------
(* What a call has seen of the queue is still true                           *)

\* The ring buffer: how many messages there are, and what happens to that.
LEMMA RingCounts ==
    ASSUME TypeOK
    PROVE  /\ Ring!count \in 0 .. Capacity - 1
           /\ Ring!isEmpty <=> Ring!count = 0
           /\ Ring!next(w) \in Ring!Slots /\ Ring!prev(Ring!next(w)) = w
           /\ ~Ring!isFull => Ring!next(w) # r
BY MailboxAssumption DEF TypeOK, Ring!TypeOK, Ring!Slots, Ring!count, Ring!isEmpty, Ring!isFull,
                         Ring!next, Ring!prev

\* What the innermost call f of the thread that has the mutex relies on.
Seen(f) ==
    /\ f.pc = "store" => ~Ring!isFull
    /\ f.pc = "advance" => ~Ring!isFull /\ elements[w] = f.msg
    /\ f.pc = "tell" => IF f.n = 1 THEN ~Ring!isEmpty /\ Ring!latest = f.msg
                                   ELSE Ring!isFull
    /\ f.pc = "read" => f.n <= Ring!count
    /\ f.pc = "copy" => f.n <= Ring!count + 1

SeenInv == \A t \in Thread : Busy(t) => Seen(Top(t))

LEMMA SeenMoveStep ==
    ASSUME LockInv, SeenInv, NEW t \in Thread, Moves(t), NEW f \in Frame, Counts(f),
           Leads(t, f)
    PROVE  Seen(f)'
<1> DEFINE g == Top(t)
<1>1. Busy(t) /\ TypeOK
  BY DEF LockInv, Moves, assign, test, store, advance, tell, return, countMessages, read,
         copy, At
<1>2. Seen(g) /\ Counts(g) /\ g \in Frame /\ g.n \in 0 .. Capacity
  <2>1. g \in Frame
    BY <1>1, StackLen
  <2> QED
    BY <1>1, <2>1 DEF LockInv, SeenInv, Frame
<1>3. CASE f.pc = "store"
  <2>1. ~Ring!isFull /\ UNCHANGED ringVars
    BY <1>3 DEF Leads, test
  <2> QED
    BY <1>3, <2>1 DEF Seen, ringVars, Ring!isFull, Ring!count
<1>4. CASE f.pc = "advance"
  <2>1. store(t) /\ f.msg = g.msg /\ g.pc = "store"
    BY <1>4 DEF Leads, store, At
  <2>2. ~Ring!isFull /\ elements'[w] = f.msg /\ w' = w /\ r' = r
    BY <1>1, <1>2, <2>1 DEF Seen, store, TypeOK, Ring!TypeOK
  <2> QED
    BY <1>4, <2>2 DEF Seen, Ring!isFull, Ring!count
<1>5. CASE f.pc = "tell"
  <2>1. CASE test(t) /\ Ring!isFull /\ f.n = g.n
    <3>1. g.n = 0 /\ UNCHANGED ringVars
      BY <1>2, <2>1 DEF Counts, test, At
    <3> QED
      BY <1>5, <2>1, <3>1 DEF Seen, ringVars, Ring!isFull, Ring!count
  <2>2. CASE advance(t) /\ f.n = 1 /\ f.msg = g.msg
    <3>1. ~Ring!isFull /\ elements[w] = f.msg
      BY <1>2, <2>2 DEF Seen, advance, At
    <3>2. w' = Ring!next(w) /\ r' = r /\ elements' = elements
      BY <2>2 DEF advance
    <3>3. ~Ring!isEmpty'
      BY <1>1, <3>1, <3>2, RingCounts DEF Ring!isEmpty
    <3>4. Ring!prev(w)' = w
      BY <1>1, <3>2, RingCounts DEF Ring!prev
    <3>5. Ring!latest' = f.msg
      BY <3>1, <3>2, <3>4 DEF Ring!latest
    <3> QED
      BY <1>5, <2>2, <3>3, <3>5 DEF Seen
  <2> QED
    BY <1>5, <2>1, <2>2 DEF Leads
<1>6. CASE f.pc = "read"
  <2>1. CASE countMessages(t) /\ f.n <= Ring!count
    <3>1. UNCHANGED ringVars
      BY <2>1 DEF countMessages
    <3> QED
      BY <1>6, <2>1, <3>1 DEF Seen, ringVars, Ring!count
  <2>2. CASE copy(t) /\ f.n = g.n - 1
    <3>1. g.n <= Ring!count + 1 /\ w' = w /\ r' = r
      BY <1>2, <2>2 DEF Seen, copy, At
    <3>2. f.n <= Ring!count
      BY <1>1, <1>2, <2>2, <3>1, RingCounts, MailboxAssumption
    <3> QED
      BY <1>6, <3>1, <3>2 DEF Seen, Ring!count
  <2> QED
    BY <1>6, <2>1, <2>2 DEF Leads
<1>7. CASE f.pc = "copy"
  <2>1. read(t) /\ f.n = g.n /\ g.pc = "read"
    BY <1>7 DEF Leads, read, At
  <2>2. g.n <= Ring!count /\ g.n >= 1
    BY <1>2, <2>1 DEF Seen, Counts
  <2>3. ~Ring!isEmpty
    BY <1>1, <1>2, <2>2, RingCounts, MailboxAssumption
  <2>4. r' = Ring!next(r) /\ w' = w
    BY <2>1 DEF read
  <2>5. Ring!count' = Ring!count - 1
    BY <1>1, <2>3, <2>4, MailboxAssumption
       DEF TypeOK, Ring!TypeOK, Ring!Slots, Ring!count, Ring!isEmpty, Ring!next
  <2>6. f.n <= Ring!count' + 1
    BY <1>1, <1>2, <2>1, <2>2, <2>5, RingCounts, MailboxAssumption
  <2> QED
    BY <1>7, <2>6 DEF Seen
<1> QED
  BY <1>3, <1>4, <1>5, <1>6, <1>7 DEF Seen

LEMMA SeenStep == LockInv /\ LockInv' /\ SeenInv /\ [Next]_vars => SeenInv'
<1> SUFFICES ASSUME LockInv, LockInv', SeenInv, [Next]_vars PROVE SeenInv'
  OBVIOUS
<1>1. ASSUME NEW t \in Thread, lock(t) PROVE SeenInv'
  <2>1. PICK f \in Frame : Turned(t, f) /\ f.pc # "lock" /\ Leads(t, f)
    BY <1>1, MovesTurn
  <2>2. /\ Top(t)' = f
        /\ \A u \in Thread \ {t} : Top(u)' = Top(u) /\ Busy(u)' = Busy(u)
    BY <2>1 DEF Turned, OthersStay, Top, Busy
  <2>3. UNCHANGED ringVars
    BY <1>1 DEF lock
  <2>4. f.pc \notin {"store", "advance", "tell", "read", "copy"}
    BY <1>1, <2>1 DEF Leads, At, lock, test, store, advance, countMessages, read, copy
  <2>5. Seen(f)'
    BY <2>4 DEF Seen
  <2>6. ASSUME NEW u \in Thread, u # t, Busy(u) PROVE Seen(Top(u))'
    BY <2>2, <2>3, <2>6
       DEF SeenInv, Seen, ringVars, Ring!isFull, Ring!isEmpty, Ring!count, Ring!latest,
           Ring!prev
  <2> QED
    BY <2>2, <2>5, <2>6 DEF SeenInv
<1>2. ASSUME NEW t \in Thread, Moves(t) PROVE SeenInv'
  <2>1. PICK f \in Frame : Turned(t, f) /\ Counts(f) /\ Leads(t, f)
    BY <1>2, MovesTurn
  <2>2. /\ Top(t)' = f
        /\ \A u \in Thread \ {t} : Top(u)' = Top(u) /\ Busy(u)' = Busy(u)
    BY <2>1 DEF Turned, OthersStay, Top, Busy
  <2>3. Seen(f)'
    BY <1>2, <2>1, SeenMoveStep
  <2>4. Busy(t) /\ ~At(t, "lock")
    BY <1>2 DEF Moves, assign, test, store, advance, tell, return, countMessages, read,
                copy, At
  <2>5. ASSUME NEW u \in Thread, u # t, Busy(u) PROVE Seen(Top(u))'
    <3>1. Top(u).pc = "lock" /\ Top(u)' = Top(u)
      BY <2>2, <2>4, <2>5, InsideOwns, Alone DEF At
    <3> QED
      BY <3>1 DEF Seen
  <2> QED
    BY <2>2, <2>3, <2>5 DEF SeenInv
<1>3. ASSUME NEW t \in Thread, unlock(t) PROVE SeenInv'
  <2>1. TypeOK /\ Busy(t) /\ ~At(t, "lock") /\ stack' = [stack EXCEPT ![t] = Tail(@)]
    BY <1>3 DEF LockInv, unlock, At
  <2>2. Popped(t)
    BY <2>1, PopPops
  <2>3. \A u \in Thread \ {t} : Top(u)' = Top(u) /\ Busy(u)' = Busy(u)
    BY <2>2 DEF Popped, OthersStay, Top, Busy
  <2>4. Busy(t)' => Top(t)'.pc = "calling"
    <3> SUFFICES ASSUME Busy(t)' PROVE stack'[t][1].pc = "calling"
      BY DEF Top
    <3>1. Len(stack'[t]) > 0 /\ stack'[t] \in Seq(Frame)
      BY EmptySeq, LenProperties DEF LockInv, TypeOK, Busy
    <3>2. Len(stack'[t]) = Len(stack[t]) - 1 /\ Len(stack[t]) \in 0 .. MaxDepth
      BY <2>1, <2>2, StackLen DEF Popped
    <3>3. 1 \in 1 .. Len(stack[t]) - 1 /\ 1 + 1 = 2 /\ 2 \in 2 .. Len(stack[t])
      BY <3>1, <3>2, MailboxAssumption
    <3>4. stack'[t][1] = stack[t][2]
      BY <2>2, <3>3 DEF Popped
    <3> QED
      BY <3>3, <3>4 DEF LockInv, Nested
  <2>5. Busy(t)' => Seen(Top(t))'
    BY <2>4 DEF Seen
  <2>6. ASSUME NEW u \in Thread, u # t, Busy(u) PROVE Seen(Top(u))'
    <3>1. Top(u).pc = "lock" /\ Top(u)' = Top(u)
      BY <2>1, <2>3, <2>6, InsideOwns, Alone DEF At
    <3> QED
      BY <3>1 DEF Seen
  <2> QED
    BY <2>3, <2>5, <2>6 DEF SeenInv
<1>4. ASSUME NEW t \in Thread,
             \/ \E m \in Msg : callPut(t, m)
             \/ \E n \in 1 .. Capacity : callPoll(t, n)
             \/ \E d \in Delegate \cup {Nobody} : callSet(t, d)
      PROVE  SeenInv'
  <2>1. PICK f \in Frame : Call(t, f) /\ f.pc = "lock"
    BY <1>4, CallsBegin
  <2>2. Pushed(t, f, [Top(t) EXCEPT !.reenter = FALSE])
    BY <2>1, CallPushes DEF LockInv
  <2>3. /\ Top(t)' = f
        /\ \A u \in Thread \ {t} : Top(u)' = Top(u) /\ Busy(u)' = Busy(u)
    BY <2>2 DEF Pushed, OthersStay, Top, Busy
  <2>4. UNCHANGED ringVars
    BY <2>1 DEF Call
  <2>5. Seen(f)'
    BY <2>1 DEF Seen
  <2>6. ASSUME NEW u \in Thread, u # t, Busy(u) PROVE Seen(Top(u))'
    BY <2>3, <2>4, <2>6
       DEF SeenInv, Seen, ringVars, Ring!isFull, Ring!isEmpty, Ring!count, Ring!latest,
           Ring!prev
  <2> QED
    BY <2>3, <2>5, <2>6 DEF SeenInv
<1>5. CASE UNCHANGED vars
  BY <1>5 DEF vars, SeenInv, Seen, Top, Busy, Ring!isFull, Ring!isEmpty, Ring!count,
              Ring!latest, Ring!prev
<1> QED
  BY <1>1, <1>2, <1>3, <1>4, <1>5 DEF Next, Step, Moves

LEMMA SeenInit == Init => SeenInv
BY DEF Init, SeenInv, Busy

\* When the delegate is told of a message, it is the latest one in the queue;
\* when it is told that the queue is full, it is: for every capacity and every
\* number of threads nobody gets in between.
THEOREM DelegateIsToldTheTruth == Spec => []DelegateToldTheTruth
<1>1. SeenInv => DelegateToldTheTruth
  BY DEF SeenInv, Seen, At, DelegateToldTheTruth
<1> QED
  BY <1>1, LockInvInit, LockInvStep, SeenInit, SeenStep, PTL DEF Spec

---------------------------------------------------------------------------
(* The mailbox is a bounded queue                                            *)

\* What the ring buffer holds, one by one.
RingHolds == /\ Ring!Queue \in Seq(Msg)
             /\ Len(Ring!Queue) = Ring!count
             /\ \A k \in 1 .. Ring!count : Ring!Queue[k] = elements[Ring!Slot(k - 1)]

LEMMA RingHoldsNow == TypeOK => RingHolds
<1> SUFFICES ASSUME TypeOK PROVE RingHolds
  OBVIOUS
<1>1. Ring!count \in Nat /\ \A k \in 1 .. Ring!count : Ring!Slot(k - 1) \in Ring!Slots
  BY MailboxAssumption DEF TypeOK, Ring!TypeOK, Ring!Slots, Ring!count, Ring!Slot
<1>2. \A k \in 1 .. Ring!count : elements[Ring!Slot(k - 1)] \in Msg
  BY <1>1 DEF TypeOK, Ring!TypeOK
<1>3. Ring!Queue \in [1 .. Ring!count -> Msg]
  BY <1>2 DEF Ring!Queue
<1> QED
  BY <1>1, <1>3 DEF Ring!Queue, RingHolds

LEMMA RingHoldsNext == TypeOK' => RingHolds'
BY RingHoldsNow, PTL

LEMMA SameRing ==
    ASSUME UNCHANGED <<elements, r, w>>
    PROVE  Ring!Queue' = Ring!Queue
<1>1. Ring!count' = Ring!count /\ \A k \in Int : Ring!Slot(k)' = Ring!Slot(k)
  BY DEF Ring!count, Ring!Slot
<1> QED
  BY <1>1 DEF Ring!Queue, Ring!count, Ring!Slot

\* The write pointer is in front of a slot that holds nothing.
LEMMA StoredAside ==
    ASSUME LockInv, LockInv', NEW t \in Thread, store(t)
    PROVE  Ring!Queue' = Ring!Queue
<1>1. RingHolds /\ RingHolds'
  BY RingHoldsNow, RingHoldsNext DEF LockInv
<1>2. w' = w /\ r' = r /\ \A i \in Ring!Slots \ {w} : elements'[i] = elements[i]
  BY DEF store, LockInv, TypeOK, Ring!TypeOK
<1>3. /\ Ring!count' = Ring!count
      /\ \A k \in 1 .. Ring!count : Ring!Slot(k - 1) \in Ring!Slots \ {w}
      /\ \A k \in 1 .. Ring!count : Ring!Slot(k - 1)' = Ring!Slot(k - 1)
  BY <1>2, MailboxAssumption
     DEF LockInv, TypeOK, Ring!TypeOK, Ring!Slots, Ring!count, Ring!Slot
<1>4. \A k \in 1 .. Ring!count : Ring!Queue'[k] = Ring!Queue[k]
  BY <1>1, <1>2, <1>3 DEF RingHolds
<1> QED
  BY <1>1, <1>3, <1>4, SeqEqual DEF RingHolds

\* Moving the write pointer on appends what is in front of it.
LEMMA AdvancedAppends ==
    ASSUME LockInv, LockInv', NEW t \in Thread, advance(t), ~Ring!isFull
    PROVE  Ring!Queue' = Append(Ring!Queue, elements[w])
<1>1. RingHolds /\ RingHolds' /\ elements[w] \in Msg
  BY RingHoldsNow, RingHoldsNext DEF LockInv, TypeOK, Ring!TypeOK
<1>2. w' = Ring!next(w) /\ r' = r /\ elements' = elements
  BY DEF advance
<1>3. /\ Ring!count \in Nat
      /\ Ring!count' = Ring!count + 1
      /\ \A k \in 1 .. Ring!count + 1 : Ring!Slot(k - 1)' = Ring!Slot(k - 1)
      /\ \A k \in 1 .. Ring!count + 1 : k = Ring!count + 1 => Ring!Slot(k - 1) = w
  BY <1>2, MailboxAssumption
     DEF LockInv, TypeOK, Ring!TypeOK, Ring!Slots, Ring!count, Ring!Slot, Ring!isFull,
         Ring!next
<1> DEFINE q == Append(Ring!Queue, elements[w])
<1>4. /\ q \in Seq(Msg) /\ Len(q) = Ring!count + 1
      /\ \A k \in 1 .. Ring!count : q[k] = Ring!Queue[k]
      /\ q[Ring!count + 1] = elements[w]
  BY <1>1, AppendProperties DEF RingHolds
<1> HIDE DEF q
<1>5. ASSUME NEW k \in 1 .. Ring!count + 1 PROVE Ring!Queue'[k] = q[k]
  <2>1. k \in 1 .. Ring!count'
    BY <1>3
  <2>2. Ring!Queue'[k] = elements[Ring!Slot(k - 1)]
    BY <1>1, <1>2, <1>3, <2>1 DEF RingHolds
  <2>3. CASE k = Ring!count + 1
    BY <1>3, <1>4, <2>2, <2>3
  <2>4. CASE k # Ring!count + 1
    <3>1. k \in 1 .. Ring!count
      BY <1>3, <2>4
    <3> QED
      BY <1>1, <1>4, <2>2, <3>1 DEF RingHolds
  <2> QED
    BY <2>3, <2>4
<1>6. Ring!Queue' \in Seq(Msg) /\ Len(Ring!Queue') = Ring!count + 1
  BY <1>1, <1>3 DEF RingHolds
<1>7. Ring!Queue' = q
  BY <1>4, <1>5, <1>6, SeqEqual
<1> QED
  BY <1>7 DEF q

\* Moving the read pointer on takes the oldest message out of the ring.
LEMMA ReadTakes ==
    ASSUME LockInv, LockInv', NEW t \in Thread, read(t), ~Ring!isEmpty
    PROVE  Ring!Queue = <<elements[r]>> \o Ring!Queue'
<1>1. RingHolds /\ RingHolds' /\ elements[r] \in Msg
  BY RingHoldsNow, RingHoldsNext DEF LockInv, TypeOK, Ring!TypeOK
<1>2. r' = Ring!next(r) /\ w' = w /\ elements' = elements
  BY DEF read
<1>3. /\ Ring!count \in Nat
      /\ Ring!count' = Ring!count - 1
      /\ \A k \in 1 .. Ring!count - 1 : Ring!Slot(k - 1)' = Ring!Slot(k)
      /\ Ring!Slot(0) = r /\ Ring!count > 0
  BY <1>2, MailboxAssumption
     DEF LockInv, TypeOK, Ring!TypeOK, Ring!Slots, Ring!count, Ring!Slot, Ring!isEmpty,
         Ring!next
<1> DEFINE e == elements[r]
           q == <<e>> \o Ring!Queue'
<1> HIDE DEF e
<1>4. /\ <<e>> \in Seq(Msg) /\ Len(<<e>>) = 1 /\ <<e>>[1] = e
  BY <1>1 DEF e
<1>5. /\ q \in Seq(Msg) /\ Len(q) = 1 + Len(Ring!Queue')
      /\ \A k \in 1 .. 1 + Len(Ring!Queue') :
            q[k] = IF k <= 1 THEN <<e>>[k] ELSE Ring!Queue'[k - 1]
  BY <1>1, <1>4, ConcatProperties DEF RingHolds
<1> HIDE DEF q
<1>6. Len(q) = Ring!count
  BY <1>1, <1>3, <1>5 DEF RingHolds
<1>7. ASSUME NEW k \in 1 .. Ring!count PROVE Ring!Queue[k] = q[k]
  <2>1. CASE k = 1
    <3>1. Ring!Queue[k] = e
      BY <1>1, <1>3, <2>1 DEF RingHolds, e
    <3>2. q[k] = e
      BY <1>4, <1>5, <1>6, <2>1
    <3> QED
      BY <3>1, <3>2
  <2>2. CASE k # 1
    <3>1. k - 1 \in 1 .. Ring!count - 1 /\ ~(k <= 1)
      BY <1>3, <2>2
    <3>2. q[k] = Ring!Queue'[k - 1]
      BY <1>5, <1>6, <3>1
    <3>3. ASSUME NEW j \in 1 .. Ring!count - 1
          PROVE  Ring!Queue'[j] = elements[Ring!Slot(j)]
      BY <1>1, <1>2, <1>3 DEF RingHolds
    <3>4. Ring!Queue'[k - 1] = elements[Ring!Slot(k - 1)]
      BY <3>1, <3>3
    <3> QED
      BY <1>1, <3>2, <3>4 DEF RingHolds
  <2> QED
    BY <2>1, <2>2
<1>8. Ring!Queue = q
  BY <1>1, <1>5, <1>6, <1>7, SeqEqual DEF RingHolds
<1> QED
  BY <1>8 DEF q, e

\* At most one message is being copied out.
CopiedOne ==
    \A t \in Thread : At(t, "copy") =>
        Messages = <<elements[Top(t).slot]>> \o Ring!Queue

LEMMA CopiedOneNow == LockInv => CopiedOne
<1> SUFFICES ASSUME LockInv, NEW t \in Thread, At(t, "copy")
             PROVE  Messages = <<elements[Top(t).slot]>> \o Ring!Queue
  BY DEF CopiedOne
<1>1. Busy(t) /\ ~At(t, "lock")
  BY DEF At
<1>2. ASSUME NEW u \in Thread, At(u, "copy") PROVE u = t
  BY <1>1, <1>2, InsideOwns, Alone DEF At
<1>3. InCopy = {t}
  BY <1>2 DEF InCopy
<1>4. (CHOOSE u \in InCopy : TRUE) = t
  BY <1>3
<1> QED
  BY <1>3, <1>4 DEF Messages

LEMMA CopiedOneNext == LockInv' => CopiedOne'
BY CopiedOneNow, PTL

\* Taking one message off a longer queue.
LEMMA HeadTailOfPair ==
    ASSUME NEW e \in Msg, NEW q \in Seq(Msg), NEW p, p = <<e>> \o q
    PROVE  p # << >> /\ Head(p) = e /\ Tail(p) = q
<1>1. <<e>> \in Seq(Msg) /\ Len(<<e>>) = 1 /\ <<e>>[1] = e /\ Len(q) \in Nat
  BY LenProperties
<1>2. /\ p \in Seq(Msg) /\ Len(p) = 1 + Len(q)
      /\ \A k \in 1 .. 1 + Len(q) : p[k] = IF k <= 1 THEN <<e>>[k] ELSE q[k - 1]
  BY <1>1, ConcatProperties
<1>3. p # << >>
  BY <1>1, <1>2, EmptySeq
<1>4. /\ Tail(p) \in Seq(Msg) /\ Len(Tail(p)) = Len(p) - 1
      /\ \A k \in 1 .. Len(Tail(p)) : Tail(p)[k] = p[k + 1]
  BY <1>2, <1>3, HeadTailProperties
<1>5. Len(Tail(p)) = Len(q)
  BY <1>1, <1>2, <1>4
<1>6. ASSUME NEW k \in 1 .. Len(q) PROVE Tail(p)[k] = q[k]
  <2>1. k + 1 \in 1 .. 1 + Len(q) /\ ~(k + 1 <= 1) /\ (k + 1) - 1 = k
    BY <1>1
  <2>2. p[k + 1] = q[k]
    BY <1>2, <2>1
  <2> QED
    BY <1>4, <1>5, <2>2
<1>7. Tail(p) = q
  BY <1>4, <1>5, <1>6, SeqEqual
<1>8. p[1] = e
  BY <1>1, <1>2
<1> QED
  BY <1>3, <1>7, <1>8

\* A thread that is inside, and not copying, is the only one that could be.
LEMMA NoneCopies ==
    ASSUME LockInv, NEW t \in Thread, Busy(t), ~At(t, "lock"), ~At(t, "copy")
    PROVE  InCopy = {} /\ Messages = Ring!Queue
<1>1. ASSUME NEW u \in Thread PROVE ~At(u, "copy")
  BY InsideOwns, Alone DEF At
<1> QED
  BY <1>1 DEF InCopy, Messages

LEMMA SameMessages ==
    ASSUME LockInv, LockInv', UNCHANGED <<elements, r, w>>,
           \A u \in Thread : /\ At(u, "copy")' <=> At(u, "copy")
                             /\ At(u, "copy") => Top(u)' = Top(u)
    PROVE  Messages' = Messages
<1>1. Ring!Queue' = Ring!Queue /\ elements' = elements
  BY SameRing
<1>2. CASE \E u \in Thread : At(u, "copy")
  <2>1. PICK u \in Thread : At(u, "copy")
    BY <1>2
  <2>2. Messages = <<elements[Top(u).slot]>> \o Ring!Queue
    BY <2>1, CopiedOneNow DEF CopiedOne
  <2>3. Messages' = <<elements'[Top(u)'.slot]>> \o Ring!Queue'
    BY <2>1, CopiedOneNext DEF CopiedOne
  <2> QED
    BY <1>1, <2>1, <2>2, <2>3
<1>3. CASE ~ \E u \in Thread : At(u, "copy")
  <2>1. InCopy = {} /\ InCopy' = {}
    BY <1>3 DEF InCopy
  <2> QED
    BY <1>1, <2>1 DEF Messages
<1> QED
  BY <1>2, <1>3

\* Steps that touch neither the ring nor a message that is being copied out.
LEMMA QuietStep ==
    ASSUME LockInv, LockInv', NEW t \in Thread,
           \/ lock(t) \/ unlock(t) \/ assign(t) \/ test(t) \/ tell(t) \/ return(t)
              \/ countMessages(t)
           \/ \E m \in Msg : callPut(t, m)
           \/ \E n \in 1 .. Capacity : callPoll(t, n)
           \/ \E d \in Delegate \cup {Nobody} : callSet(t, d)
    PROVE  Messages' = Messages /\ got' = got
<1> DEFINE Calls == \/ \E m \in Msg : callPut(t, m)
                    \/ \E n \in 1 .. Capacity : callPoll(t, n)
                    \/ \E d \in Delegate \cup {Nobody} : callSet(t, d)
<1>1. CASE lock(t) \/ assign(t) \/ test(t) \/ tell(t) \/ return(t) \/ countMessages(t)
  <2>1. UNCHANGED ringVars /\ ~At(t, "copy") /\ ~read(t)
    BY <1>1 DEF lock, assign, test, tell, return, countMessages, read, At
  <2>2. PICK f \in Frame : Turned(t, f) /\ Leads(t, f)
    BY <1>1, MovesTurn DEF Moves
  <2>3. Top(t)' = f /\ f.pc # "copy"
    BY <2>1, <2>2 DEF Turned, Top, Leads
  <2>4. \A u \in Thread \ {t} : Top(u)' = Top(u) /\ At(u, "copy")' = At(u, "copy")
    BY <2>2 DEF Turned, OthersStay, Top, At, Busy
  <2>5. ~At(t, "copy")'
    BY <2>3 DEF At
  <2>6. \A u \in Thread : /\ At(u, "copy")' <=> At(u, "copy")
                          /\ At(u, "copy") => Top(u)' = Top(u)
    BY <2>1, <2>4, <2>5
  <2> QED
    BY <2>1, <2>6, SameMessages DEF ringVars
<1>2. CASE unlock(t)
  <2>1. /\ UNCHANGED ringVars /\ ~At(t, "copy")
        /\ TypeOK /\ Busy(t) /\ stack' = [stack EXCEPT ![t] = Tail(@)]
    BY <1>2 DEF LockInv, unlock, At
  <2>2. Popped(t)
    BY <2>1, PopPops
  <2>3. Busy(t)' => Top(t)'.pc = "calling"
    <3> SUFFICES ASSUME Busy(t)' PROVE stack'[t][1].pc = "calling"
      BY DEF Top
    <3>1. Len(stack'[t]) > 0
      BY EmptySeq, LenProperties DEF LockInv, TypeOK, Busy
    <3>2. Len(stack'[t]) = Len(stack[t]) - 1 /\ Len(stack[t]) \in 0 .. MaxDepth
      BY <2>1, <2>2, StackLen DEF Popped
    <3>3. 1 \in 1 .. Len(stack[t]) - 1 /\ 1 + 1 = 2 /\ 2 \in 2 .. Len(stack[t])
      BY <3>1, <3>2, MailboxAssumption
    <3>4. stack'[t][1] = stack[t][2]
      BY <2>2, <3>3 DEF Popped
    <3> QED
      BY <3>3, <3>4 DEF LockInv, Nested
  <2>4. \A u \in Thread \ {t} : Top(u)' = Top(u) /\ At(u, "copy")' = At(u, "copy")
    BY <2>2 DEF Popped, OthersStay, Top, At, Busy
  <2>5. ~At(t, "copy")'
    BY <2>3 DEF At
  <2>6. \A u \in Thread : /\ At(u, "copy")' <=> At(u, "copy")
                          /\ At(u, "copy") => Top(u)' = Top(u)
    BY <2>1, <2>4, <2>5
  <2> QED
    BY <2>1, <2>6, SameMessages DEF ringVars
<1>3. CASE Calls
  <2>1. PICK f \in Frame : Call(t, f) /\ f.pc = "lock"
    BY <1>3, CallsBegin
  <2>2. Pushed(t, f, [Top(t) EXCEPT !.reenter = FALSE])
    BY <2>1, CallPushes DEF LockInv
  <2>3. UNCHANGED ringVars /\ ~At(t, "copy")
    BY <2>1 DEF Call, MayCall, At
  <2>4. Top(t)' = f
    BY <2>2 DEF Pushed, Top
  <2>5. \A u \in Thread \ {t} : Top(u)' = Top(u) /\ At(u, "copy")' = At(u, "copy")
    BY <2>2 DEF Pushed, OthersStay, Top, At, Busy
  <2>6. ~At(t, "copy")'
    BY <2>1, <2>4 DEF At
  <2>7. \A u \in Thread : /\ At(u, "copy")' <=> At(u, "copy")
                          /\ At(u, "copy") => Top(u)' = Top(u)
    BY <2>3, <2>5, <2>6
  <2> QED
    BY <2>3, <2>7, SameMessages DEF ringVars
<1> QED
  BY <1>1, <1>2, <1>3

\* Whoever moves on to a place other than copy() leaves nobody copying.
LEMMA NoneCopiesNext ==
    ASSUME LockInv, LockInv', NEW t \in Thread, Moves(t), ~read(t)
    PROVE  Messages' = Ring!Queue'
<1>1. PICK f \in Frame : Turned(t, f) /\ Leads(t, f)
  BY MovesTurn
<1>2. Top(t)' = f /\ f.pc # "copy"
  BY <1>1 DEF Turned, Top, Leads
<1>3. Busy(t) /\ ~At(t, "lock")
  BY DEF Moves, assign, test, store, advance, tell, return, countMessages, read, copy, At
<1>4. ASSUME NEW u \in Thread PROVE ~At(u, "copy")'
  <2>1. CASE u = t
    BY <1>2, <2>1 DEF At
  <2>2. CASE u # t
    <3>1. stack'[u] = stack[u] /\ ~At(u, "copy")
      BY <1>1, <1>3, <2>2, InsideOwns, Alone DEF Turned, OthersStay, At
    <3> QED
      BY <3>1 DEF At, Top, Busy
  <2> QED
    BY <2>1, <2>2
<1>5. InCopy' = {}
  BY <1>4 DEF InCopy
<1> QED
  BY <1>5 DEF Messages

\* Each step is a step of the queue, or none.
LEMMA StepIsQueueStep ==
    ASSUME LockInv, LockInv', SeenInv, [Next]_vars
    PROVE  [Abstract!Next]_<<Messages, got>>
<1>1. ASSUME NEW t \in Thread, store(t) PROVE Messages' = Messages /\ got' = got
  <2>1. Busy(t) /\ ~At(t, "lock") /\ ~At(t, "copy") /\ Moves(t) /\ ~read(t)
    BY <1>1 DEF store, read, At, Moves
  <2>2. Messages = Ring!Queue /\ Messages' = Ring!Queue'
    BY <2>1, NoneCopies, NoneCopiesNext
  <2> QED
    BY <1>1, <2>2, StoredAside DEF store
<1>2. ASSUME NEW t \in Thread, advance(t) PROVE Abstract!Next
  <2>1. Busy(t) /\ ~At(t, "lock") /\ ~At(t, "copy") /\ Moves(t) /\ ~read(t)
    BY <1>2 DEF advance, read, At, Moves
  <2>2. Messages = Ring!Queue /\ Messages' = Ring!Queue'
    BY <2>1, NoneCopies, NoneCopiesNext
  <2>3. ~Ring!isFull
    BY <1>2, <2>1 DEF SeenInv, Seen, advance, At
  <2>4. Messages' = Append(Messages, elements[w]) /\ got' = got
    BY <1>2, <2>2, <2>3, AdvancedAppends DEF advance
  <2>5. Len(Messages) < Capacity - 1 /\ elements[w] \in Msg
    <3>1. Len(Messages) = Ring!count /\ Ring!count \in 0 .. Capacity - 1
      BY <2>2, RingHoldsNow, RingCounts DEF LockInv, RingHolds
    <3>2. Ring!count # Capacity - 1
      BY <2>3 DEF Ring!isFull
    <3> QED
      BY <3>1, <3>2, MailboxAssumption DEF LockInv, TypeOK, Ring!TypeOK
  <2>6. Abstract!Enqueue(elements[w])
    BY <2>4, <2>5 DEF Abstract!Enqueue, Abstract!Room
  <2> QED
    BY <2>5, <2>6 DEF Abstract!Next
<1>3. ASSUME NEW t \in Thread, read(t) PROVE Messages' = Messages /\ got' = got
  <2>1. Busy(t) /\ ~At(t, "lock") /\ ~At(t, "copy") /\ Moves(t)
    BY <1>3 DEF read, At, Moves
  <2>2. Messages = Ring!Queue
    BY <2>1, NoneCopies
  <2>3. ~Ring!isEmpty
    <3>1. Top(t).n <= Ring!count /\ Top(t).n >= 1 /\ Top(t).n \in 0 .. Capacity
      <4>1. Top(t) \in Frame /\ Top(t).pc = "read"
        BY <1>3, <2>1, StackLen DEF LockInv, read, At
      <4>2. Seen(Top(t)) /\ Counts(Top(t))
        BY <2>1 DEF LockInv, SeenInv
      <4> QED
        BY <4>1, <4>2 DEF Seen, Counts, Frame
    <3>2. Ring!count \in 0 .. Capacity - 1 /\ (Ring!isEmpty <=> Ring!count = 0)
      BY RingCounts DEF LockInv
    <3> QED
      BY <3>1, <3>2, MailboxAssumption
  <2>4. Ring!Queue = <<elements[r]>> \o Ring!Queue'
    BY <1>3, <2>3, ReadTakes
  <2>5. At(t, "copy")' /\ Top(t)'.slot = r /\ elements' = elements
    <3>1. Continue(t, [Top(t) EXCEPT !.pc = "copy", !.slot = r]) /\ elements' = elements
      BY <1>3 DEF read
    <3>2. Top(t) \in Frame /\ r \in Ring!Slots
      BY <2>1, StackLen DEF LockInv, TypeOK, Ring!TypeOK
    <3> DEFINE f == [Top(t) EXCEPT !.pc = "copy", !.slot = r]
    <3>3. f \in Frame /\ f.pc = "copy" /\ f.slot = r
      BY <3>2 DEF Frame
    <3> HIDE DEF f
    <3>4. Turned(t, f)
      <4>1. Continue(t, f)
        BY <3>1 DEF f
      <4> QED
        BY <2>1, <3>3, <4>1, ContinueTurns DEF LockInv
    <3>5. Top(t)' = f
      BY <3>4 DEF Turned, Top
    <3>6. stack'[t] # << >>
      <4>1. stack'[t] \in Seq(Frame) /\ Len(stack'[t]) = Len(stack[t])
        BY <3>4 DEF Turned
      <4>2. Len(stack[t]) > 0
        BY <2>1, StackLen DEF LockInv
      <4> QED
        BY <4>1, <4>2, EmptySeq
    <3> QED
      BY <3>1, <3>3, <3>5, <3>6 DEF At, Busy
  <2>6. Messages' = <<elements'[Top(t)'.slot]>> \o Ring!Queue'
    BY <2>5, CopiedOneNext DEF CopiedOne
  <2> QED
    BY <1>3, <2>2, <2>4, <2>5, <2>6 DEF read
<1>4. ASSUME NEW t \in Thread, copy(t) PROVE Abstract!Next
  <2>1. At(t, "copy") /\ Busy(t) /\ Moves(t) /\ ~read(t)
    BY <1>4 DEF copy, read, At, Moves
  <2> DEFINE e == elements[Top(t).slot]
  <2>2. e \in Msg
    <3>1. Top(t).slot \in Ring!Slots
      BY <2>1, StackLen DEF LockInv, Frame
    <3> QED
      BY <3>1 DEF LockInv, TypeOK, Ring!TypeOK
  <2>3. Messages = <<e>> \o Ring!Queue
    BY <2>1, CopiedOneNow DEF CopiedOne
  <2>4. Messages' = Ring!Queue
    <3>1. Messages' = Ring!Queue'
      BY <2>1, NoneCopiesNext
    <3>2. Ring!Queue' = Ring!Queue
      BY <1>4, SameRing DEF copy
    <3> QED
      BY <3>1, <3>2
  <2>5. got' = e
    BY <1>4 DEF copy
  <2> HIDE DEF e
  <2>6. Ring!Queue \in Seq(Msg)
    BY RingHoldsNow DEF LockInv, RingHolds
  <2>7. Messages # << >> /\ Head(Messages) = e /\ Tail(Messages) = Ring!Queue
    BY <2>2, <2>3, <2>6, HeadTailOfPair
  <2>8. Abstract!Take
    BY <2>4, <2>5, <2>7 DEF Abstract!Take
  <2> QED
    BY <2>8 DEF Abstract!Next
<1>5. ASSUME NEW t \in Thread,
             \/ lock(t) \/ unlock(t) \/ assign(t) \/ test(t) \/ tell(t) \/ return(t)
                \/ countMessages(t)
             \/ \E m \in Msg : callPut(t, m)
             \/ \E n \in 1 .. Capacity : callPoll(t, n)
             \/ \E d \in Delegate \cup {Nobody} : callSet(t, d)
      PROVE  Messages' = Messages /\ got' = got
  BY <1>5, QuietStep
<1>6. CASE UNCHANGED vars
  <2>1. UNCHANGED <<elements, r, w, got, stack>>
    BY <1>6 DEF vars
  <2>2. \A u \in Thread : /\ At(u, "copy")' <=> At(u, "copy")
                          /\ At(u, "copy") => Top(u)' = Top(u)
    BY <2>1 DEF At, Top, Busy
  <2>3. Messages' = Messages
    BY <2>1, <2>2, SameMessages
  <2> QED
    BY <2>1, <2>3
<1> QED
  BY <1>1, <1>2, <1>3, <1>4, <1>5, <1>6 DEF Next, Step

LEMMA InitIsQueueInit == Init => Abstract!Init
<1> SUFFICES ASSUME Init PROVE Abstract!Init
  OBVIOUS
<1>1. InCopy = {}
  BY DEF Init, InCopy, At, Busy
<1>2. Ring!count = 0
  BY DEF Init, Ring!Init, Ring!count
<1>3. Ring!Queue = << >>
  BY <1>2 DEF Ring!Queue
<1> QED
  BY <1>1, <1>3, MailboxAssumption DEF Messages, Init, Ring!Init, Abstract!Init

\* Whatever the threads do and whatever the delegates call back, for every
\* capacity the mailbox is a bounded queue: no message is lost, doubled, torn or
\* overtaken, although a put() writes and a poll() reads in several steps.
THEOREM MailboxIsQueue == Spec => IsQueue
<1>1. LockInv /\ LockInv' /\ SeenInv /\ [Next]_vars => [Abstract!Next]_<<Messages, got>>
  BY StepIsQueueStep
<1> QED
  BY <1>1, InitIsQueueInit, LockInvInit, LockInvStep, SeenInit, SeenStep, PTL
     DEF Spec, IsQueue, Abstract!Spec
============================================================================
