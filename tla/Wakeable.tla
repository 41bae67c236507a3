----------------------------- MODULE Wakeable ------------------------------
(* Threads that wait for each other's wake-up (src/abilities/Wakeable.cpp):  *)
(* one flag and one condition variable behind a mutex.  The mutex is modelled*)
(* as such, so that what it protects is visible; a condition variable gives  *)
(* it back and blocks in one step, wakes up without reason if it likes, and  *)
(* reports a timeout once the deadline has passed.                           *)
EXTENDS Integers, FiniteSets

CONSTANTS Thread,
          Nobody,      \* the owner of a free mutex
          MaxWakeUps   \* bound on the calls of wakeUp()

WakeableConstants == Nobody \notin Thread /\ IsFiniteSet(Thread) /\ MaxWakeUps \in Nat

VARIABLES ready,       \* the flag
          owner,       \* the owner of condMutex
          pc,          \* where each thread is
          late,        \* threads whose deadline has passed
          wakeUps,     \* how often the flag has been set (history)
          early        \* how many waits have ended because of the flag (history)

vars == <<ready, owner, pc, late, wakeUps, early>>

\* waitForWakeUp(): enter -> test -> block -> blocked -> woken -> test ..., reset
\* wakeUp():        lock -> set -> notify
Place == {"idle", "enter", "test", "block", "blocked", "woken", "reset",
          "lock", "set", "notify"}

TypeOK == /\ ready \in BOOLEAN
          /\ owner \in Thread \cup {Nobody}
          /\ pc \in [Thread -> Place]
          /\ late \subseteq Thread
          /\ wakeUps \in 0 .. MaxWakeUps
          /\ early \in Nat

Init == /\ ready = FALSE
        /\ owner = Nobody
        /\ pc = [t \in Thread |-> "idle"]
        /\ late = {}
        /\ wakeUps = 0
        /\ early = 0

GoTo(t, from, to) == pc[t] = from /\ pc' = [pc EXCEPT ![t] = to]

Acquire(t) == owner = Nobody /\ owner' = t

---------------------------------------------------------------------------
(* waitForWakeUp(timeout)                                                    *)

\* The deadline is fixed before the mutex is asked for ...
call(t) == /\ GoTo(t, "idle", "enter")
           /\ late' = late \ {t}
           /\ UNCHANGED <<ready, owner, wakeUps, early>>

\* ... and may pass anywhere from there on; the system clock may also be set.
expire(t) == /\ pc[t] \in {"enter", "test", "block", "blocked", "woken"}
             /\ late' = late \cup {t}
             /\ UNCHANGED <<ready, owner, pc, wakeUps, early>>

enter(t) == /\ GoTo(t, "enter", "test")
            /\ Acquire(t)
            /\ UNCHANGED <<ready, late, wakeUps, early>>

\* The predicate of wait_until().
test(t) == /\ GoTo(t, "test", IF ready THEN "reset" ELSE "block")
           /\ early' = IF ready THEN early + 1 ELSE early
           /\ UNCHANGED <<ready, owner, late, wakeUps>>

\* The mutex is given back and the thread blocks, in one step.
block(t) == /\ GoTo(t, "block", "blocked")
            /\ owner' = Nobody
            /\ UNCHANGED <<ready, late, wakeUps, early>>

\* Out of time, or for no reason.
wakeByItself(t) == /\ GoTo(t, "blocked", "woken")
                   /\ UNCHANGED <<ready, owner, late, wakeUps, early>>

\* With the mutex back the wait is over when a timeout is reported; otherwise
\* the predicate is asked again.
relock(t) == /\ \/ GoTo(t, "woken", "test")
                \/ t \in late /\ GoTo(t, "woken", "reset")
             /\ Acquire(t)
             /\ UNCHANGED <<ready, late, wakeUps, early>>

\* Mutant of reset: the flag stays set.
resetNothing(t) == /\ GoTo(t, "reset", "idle")
                   /\ owner' = Nobody
                   /\ UNCHANGED <<ready, late, wakeUps, early>>

\* The flag is taken back in any case, and the mutex released.
reset(t) == /\ GoTo(t, "reset", "idle")
            /\ ready' = FALSE
            /\ owner' = Nobody
            /\ UNCHANGED <<late, wakeUps, early>>

---------------------------------------------------------------------------
(* wakeUp()                                                                  *)

\* The calls that have not set the flag yet, for the bound.
Setters == {u \in Thread : pc[u] \in {"lock", "set"}}

wakeUp(t) == /\ Cardinality(Setters) + wakeUps < MaxWakeUps
             /\ GoTo(t, "idle", "lock")
             /\ UNCHANGED <<ready, owner, late, wakeUps, early>>

\* Mutant of lock: the flag is set without the mutex.
lockNothing(t) == /\ GoTo(t, "lock", "set")
                  /\ UNCHANGED <<ready, owner, late, wakeUps, early>>

lock(t) == /\ GoTo(t, "lock", "set")
           /\ Acquire(t)
           /\ UNCHANGED <<ready, late, wakeUps, early>>

set(t) == /\ GoTo(t, "set", "notify")
          /\ ready' = TRUE
          /\ owner' = IF owner = t THEN Nobody ELSE owner
          /\ wakeUps' = wakeUps + 1
          /\ UNCHANGED <<late, early>>

Blocked == {t \in Thread : pc[t] = "blocked"}

\* Mutant of notify: nobody is told.
notifyNobody(t) == /\ GoTo(t, "notify", "idle")
                   /\ UNCHANGED <<ready, owner, late, wakeUps, early>>

\* notify_one() comes after the mutex has been released.
notify(t) == /\ pc[t] = "notify"
             /\ \/ /\ Blocked = {}
                   /\ pc' = [pc EXCEPT ![t] = "idle"]
                \/ \E u \in Blocked : pc' = [pc EXCEPT ![t] = "idle", ![u] = "woken"]
             /\ UNCHANGED <<ready, owner, late, wakeUps, early>>

---------------------------------------------------------------------------
\* What a thread does once it has called one of the two functions.
Step(t) == \/ enter(t) \/ test(t) \/ block(t) \/ relock(t) \/ reset(t)
           \/ lock(t) \/ set(t) \/ notify(t)

Next == \E t \in Thread : \/ Step(t) \/ call(t) \/ wakeUp(t)
                          \/ expire(t) \/ wakeByItself(t)

Spec == Init /\ [][Next]_vars

\* Threads go on when they can.  No deadline need ever pass, and nothing is
\* assumed of the order in which the mutex serves those who wait.
Fairness == \A t \in Thread : WF_vars(Step(t))

FairSpec == Spec /\ Fairness

---------------------------------------------------------------------------
(* Properties                                                                *)

\* No wake-up is lost between the test of the flag and the block: while the
\* flag is set and somebody sleeps, a thread is on its way that will wake one
\* of the sleepers, or that will take the flag.
NobodySleepsOn ==
    ready /\ Blocked # {} =>
        \E t \in Thread : pc[t] \in {"notify", "woken", "test", "reset"}

\* A wait that ends before its deadline has a wakeUp() of its own: no two
\* waits end on the same one, and none ends on a wake-up without reason.
OneWaitPerWakeUp ==
    early + (IF ready /\ \A t \in Thread : pc[t] # "reset" THEN 1 ELSE 0) <= wakeUps

\* A flag that is set while somebody sleeps is taken, without any deadline.
FlagIsTaken == ready /\ Blocked # {} ~> ~ready
============================================================================
