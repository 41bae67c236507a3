------------------------------ MODULE Mailbox ------------------------------
(* The message queue between threads (include/utl/storage/Mailbox.h): a ring *)
(* buffer behind a recursive mutex, and a delegate that is called while the  *)
(* mutex is held.                                                            *)
(*                                                                           *)
(* A call is a frame on the stack of its thread and goes through its body    *)
(* step by step, so that what the mutex protects is visible: reads and       *)
(* writes of the pointers and of the slots are steps of their own.  A        *)
(* delegate may call the mailbox back, which puts a second frame on the      *)
(* stack of the same thread.                                                 *)
EXTENDS Integers, Sequences, FiniteSets

CONSTANTS Thread,
          Delegate,     \* the delegates clients install
          Nobody,       \* the null pointer, and the owner of a free mutex
          Msg,          \* template parameter 'Msg'
          Default,      \* Msg()
          Capacity,     \* template parameter 'Capacity'
          MaxDepth      \* bound on the number of nested calls of a thread

ASSUME NobodyAssumption   == Nobody \notin Thread \cup Delegate
ASSUME MailboxAssumption  == /\ Capacity \in Nat /\ Capacity >= 2
                             /\ Default \in Msg
                             /\ MaxDepth \in Nat \ {0}

VARIABLES elements, r, w,   \* the ring buffer 'queue'
          got,              \* what the last poll() handed out
          delegate,         \* the installed delegate
          owner, depth,     \* the recursive mutex
          stack,            \* the calls each thread is in, innermost first
          retired           \* delegates that were uninstalled by a finished call

ringVars == <<elements, r, w, got>>
lockVars == <<owner, depth>>
vars     == <<elements, r, w, got, delegate, owner, depth, stack, retired>>

Ring == INSTANCE RingBuffer WITH T <- Msg, Other <- {}

\* A call: its operation, where it is, its message, the number of messages it
\* still wants or the slot it reads, the delegate it is about, and whether the
\* callback it makes may still call the mailbox itself.
Frame == [op : {"put", "poll", "set"},
          pc : {"lock", "test", "store", "advance", "tell", "calling", "count",
                "read", "copy", "assign", "unlock"},
          msg : Msg, n : 0 .. Capacity, slot : Ring!Slots,
          who : Delegate \cup {Nobody}, reenter : BOOLEAN]

TypeOK == /\ Ring!TypeOK
          /\ delegate \in Delegate \cup {Nobody}
          /\ owner \in Thread \cup {Nobody}
          /\ depth \in 0 .. MaxDepth
          /\ stack \in [Thread -> Seq(Frame)]
          /\ \A t \in Thread : Len(stack[t]) <= MaxDepth
          /\ retired \subseteq Delegate

Init == /\ Ring!Init
        /\ delegate = Nobody
        /\ owner = Nobody
        /\ depth = 0
        /\ stack = [t \in Thread |-> << >>]
        /\ retired = {}

---------------------------------------------------------------------------
(* Frames                                                                    *)

Busy(t)   == stack[t] # << >>
Top(t)    == stack[t][1]
At(t, pc) == Busy(t) /\ Top(t).pc = pc

\* The call on top goes on as the frame f.
Continue(t, f) == stack' = [stack EXCEPT ![t][1] = f]
GoTo(t, pc)    == Continue(t, [Top(t) EXCEPT !.pc = pc])

\* Calls come from the application, or from the delegate in a callback.
MayCall(t) == \/ ~Busy(t)
              \/ At(t, "calling") /\ Top(t).reenter /\ Len(stack[t]) < MaxDepth

NoFrame == [op |-> "poll", pc |-> "lock", msg |-> Default, n |-> 0, slot |-> 0,
            who |-> Nobody, reenter |-> TRUE]

\* A callback calls the mailbox at most once before it returns.
Call(t, f) == /\ MayCall(t)
              /\ stack' = [stack EXCEPT ![t] =
                    <<f>> \o IF Busy(t)
                             THEN <<[Top(t) EXCEPT !.reenter = FALSE]>> \o Tail(@)
                             ELSE @]
              /\ UNCHANGED <<ringVars, delegate, lockVars, retired>>

callPut(t, m)  == Call(t, [NoFrame EXCEPT !.op = "put", !.msg = m])
callPoll(t, n) == Call(t, [NoFrame EXCEPT !.op = "poll", !.n = n])
callSet(t, d)  == Call(t, [NoFrame EXCEPT !.op = "set", !.who = d])

---------------------------------------------------------------------------
(* SYNCHRONIZED: the mutex is taken on entry, as often as the owner likes,   *)
(* and given back on return.                                                 *)

FirstStep == [put |-> "test", poll |-> "count", set |-> "assign"]

\* Mutants of lock: whoever comes gets the mutex; the owner does not get it twice.
lockOpen(t) == /\ At(t, "lock")
               /\ owner' = t
               /\ depth' = depth + 1
               /\ GoTo(t, FirstStep[Top(t).op])
               /\ UNCHANGED <<ringVars, delegate, retired>>

lockOnce(t) == /\ At(t, "lock")
               /\ owner = Nobody
               /\ owner' = t
               /\ depth' = depth + 1
               /\ GoTo(t, FirstStep[Top(t).op])
               /\ UNCHANGED <<ringVars, delegate, retired>>

lock(t) == /\ At(t, "lock")
           /\ owner \in {Nobody, t}
           /\ owner' = t
           /\ depth' = depth + 1
           /\ GoTo(t, FirstStep[Top(t).op])
           /\ UNCHANGED <<ringVars, delegate, retired>>

\* A delegate counts as retired once the outermost call that replaced it is
\* over: its owner may now destroy it.
unlock(t) == /\ At(t, "unlock")
             /\ depth' = depth - 1
             /\ owner' = IF depth = 1 THEN Nobody ELSE owner
             /\ stack' = [stack EXCEPT ![t] = Tail(@)]
             /\ retired' = IF Top(t).op = "set" /\ Len(stack[t]) = 1
                           THEN retired \cup ({Top(t).who} \ {delegate, Nobody})
                           ELSE retired
             /\ UNCHANGED <<ringVars, delegate>>

---------------------------------------------------------------------------
(* setDelegate(d), and clearDelegate() for d = Nobody                        *)

\* The frame keeps the delegate that was there before.
assign(t) == /\ At(t, "assign")
             /\ delegate' = Top(t).who
             /\ retired' = retired \ {Top(t).who}
             /\ Continue(t, [Top(t) EXCEPT !.pc = "unlock", !.who = delegate])
             /\ UNCHANGED <<ringVars, lockVars>>

---------------------------------------------------------------------------
(* put(msg)                                                                  *)

\* Mutant of test: one slot is taken for more than there are.
testLate(t) == /\ At(t, "test")
               /\ GoTo(t, IF Ring!count = Capacity THEN "tell" ELSE "store")
               /\ UNCHANGED <<ringVars, delegate, lockVars, retired>>

\* A full queue drops the message, and the delegate is told that instead.
test(t) == /\ At(t, "test")
           /\ GoTo(t, IF Ring!isFull THEN "tell" ELSE "store")
           /\ UNCHANGED <<ringVars, delegate, lockVars, retired>>

\* RingBuffer::write(), slot first, pointer second.
store(t) == /\ At(t, "store")
            /\ elements' = [elements EXCEPT ![w] = Top(t).msg]
            /\ GoTo(t, "advance")
            /\ UNCHANGED <<r, w, got, delegate, lockVars, retired>>

\* Mutant of advance: the write pointer does not wrap.
advanceNoWrap(t) == /\ At(t, "advance")
                    /\ w' = w + 1
                    /\ Continue(t, [Top(t) EXCEPT !.pc = "tell", !.n = 1])
                    /\ UNCHANGED <<elements, r, got, delegate, lockVars, retired>>

\* The frame notes that the message is in.
advance(t) == /\ At(t, "advance")
              /\ w' = Ring!next(w)
              /\ Continue(t, [Top(t) EXCEPT !.pc = "tell", !.n = 1])
              /\ UNCHANGED <<elements, r, got, delegate, lockVars, retired>>

\* Mutant of tell: the delegate is called after the mutex has been released.
tellUnlocked(t) == /\ At(t, "tell")
                   /\ owner' = Nobody
                   /\ depth' = 0
                   /\ IF delegate = Nobody
                      THEN GoTo(t, "unlock")
                      ELSE Continue(t, [Top(t) EXCEPT !.pc = "calling", !.who = delegate])
                   /\ UNCHANGED <<ringVars, delegate, retired>>

\* messageArrived() or mailboxFull() is called, the mutex is not released.
tell(t) == /\ At(t, "tell")
           /\ IF delegate = Nobody
              THEN GoTo(t, "unlock")
              ELSE Continue(t, [Top(t) EXCEPT !.pc = "calling", !.who = delegate])
           /\ UNCHANGED <<ringVars, delegate, lockVars, retired>>

return(t) == /\ At(t, "calling")
             /\ GoTo(t, "unlock")
             /\ UNCHANGED <<ringVars, delegate, lockVars, retired>>

---------------------------------------------------------------------------
(* poll(msg), which is poll(1, buffer), and poll(count, buffer)              *)

countMessages(t) ==
    /\ At(t, "count")
    /\ LET n == IF Ring!count < Top(t).n THEN Ring!count ELSE Top(t).n
       IN  Continue(t, [Top(t) EXCEPT !.pc = IF n = 0 THEN "unlock" ELSE "read",
                                      !.n = n])
    /\ UNCHANGED <<ringVars, delegate, lockVars, retired>>

\* RingBuffer::read() moves the pointer and returns a reference to the slot ...
read(t) == /\ At(t, "read")
           /\ r' = Ring!next(r)
           /\ Continue(t, [Top(t) EXCEPT !.pc = "copy", !.slot = r])
           /\ UNCHANGED <<elements, w, got, delegate, lockVars, retired>>

\* ... which the caller copies from.
copy(t) == /\ At(t, "copy")
           /\ got' = elements[Top(t).slot]
           /\ Continue(t, [Top(t) EXCEPT !.pc = IF Top(t).n = 1 THEN "unlock" ELSE "read",
                                         !.n = Top(t).n - 1])
           /\ UNCHANGED <<elements, r, w, delegate, lockVars, retired>>

---------------------------------------------------------------------------
Step(t) == \/ lock(t) \/ unlock(t) \/ assign(t)
           \/ test(t) \/ store(t) \/ advance(t) \/ tell(t) \/ return(t)
           \/ countMessages(t) \/ read(t) \/ copy(t)

Next == \E t \in Thread :
           \/ Step(t)
           \/ \E m \in Msg : callPut(t, m)
           \/ \E n \in 1 .. Capacity : callPoll(t, n)
           \/ \E d \in Delegate \cup {Nobody} : callSet(t, d)

Spec == Init /\ [][Next]_vars

\* A thread that can go on does so, callbacks return.  Nothing is assumed of
\* the order in which the mutex serves those who wait.
FairSpec == Spec /\ \A t \in Thread : WF_vars(Step(t))

---------------------------------------------------------------------------
(* Properties                                                                *)

\* Messages in the queue.  One that is being copied out is still counted: the
\* pointer has passed it, the caller does not have it.
InCopy == {t \in Thread : At(t, "copy")}
Messages == IF InCopy = {} THEN Ring!Queue
            ELSE <<elements[Top(CHOOSE t \in InCopy : TRUE).slot]>> \o Ring!Queue

\* Whatever the threads do, and whatever the delegates call back, the mailbox
\* is a bounded queue: no message is lost, doubled, torn or overtaken.
Abstract == INSTANCE BoundedQueue WITH queue <- Messages, Item <- Msg, Copies <- {}

IsQueue == Abstract!Spec

\* "Called after a message has been successfully written to the queue" and
\* "because the queue is full": when the delegate is about to be told, that
\* is what the queue looks like; no other thread got in between.
DelegateToldTheTruth ==
    \A t \in Thread : At(t, "tell") =>
        IF Top(t).n = 1 THEN ~Ring!isEmpty /\ Ring!latest = Top(t).msg
                        ELSE Ring!isFull

\* A delegate whose removal has returned is in no callback and gets into none:
\* clearDelegate() waits for those that are under way, so its caller may
\* destroy the delegate.
ClearedIsQuiet ==
    \A t \in Thread : \A i \in DOMAIN stack[t] :
        stack[t][i].pc = "calling" => stack[t][i].who \notin retired

\* A mutex that is taken is given back: no callback into the mailbox and no
\* other thread keeps a call from its end.
LockReleased == owner # Nobody ~> owner = Nobody
============================================================================
