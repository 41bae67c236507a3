------------------------------- MODULE Backed -------------------------------
(* A value with a snapshot (include/utl/wrappers/Backed.h).  The snapshot is *)
(* read, taken and dropped under a mutex, the value behind it is not: it     *)
(* changes at any time, also between the getter's reading it and the store   *)
(* of what was read.                                                         *)
(*                                                                           *)
(* A value is represented by its age: each change of `value`, the one in     *)
(* clear() included, makes the next number.  Older then means smaller.       *)
EXTENDS Integers, FiniteSets

CONSTANTS Thread,
          Nobody,       \* the owner of a free mutex
          Nothing,      \* an empty optional
          MaxChanges    \* bound on the changes of the value

VARIABLES value,        \* what the getter returns
          cache,        \* the snapshot
          live,         \* what current() has read last
          owner,        \* the mutex of SYNCHRONIZED
          call,         \* the call each thread is in
          sure          \* what a snapshot has to be as new as (history)

vars == <<value, cache, live, owner, call, sure>>

Values == 0 .. MaxChanges

BackedConstants == /\ Nobody \notin Thread
                   /\ IsFiniteSet(Thread)
                   /\ MaxChanges \in Nat
                   /\ Nothing \notin Values

\* A call: the operation, where it is, what its getter has returned, and what
\* the value was when it was called.
Call == [op : {"none", "backed", "record", "invalidate", "clear", "current"},
         pc : {"enter", "get", "store", "wipe", "leave"},
         got : Values, from : Values]

NoCall == [op |-> "none", pc |-> "enter", got |-> 0, from |-> 0]

TypeOK == /\ value \in Values
          /\ cache \in Values \cup {Nothing}
          /\ live \in Values
          /\ owner \in Thread \cup {Nobody}
          /\ call \in [Thread -> Call]
          /\ sure \in Values

Init == /\ value = 0
        /\ cache = Nothing
        /\ live = 0
        /\ owner = Nobody
        /\ call = [t \in Thread |-> NoCall]
        /\ sure = 0

In(t, op, pc) == call[t].op = op /\ call[t].pc = pc
GoTo(t, pc)   == call' = [call EXCEPT ![t].pc = pc]

---------------------------------------------------------------------------
\* The bound, which counts the calls of clear() that are under way.
Clearing  == {t \in Thread : call[t].op = "clear" /\ call[t].pc # "leave"}
MayChange == value + Cardinality(Clearing) < MaxChanges

\* The application changes the value, or what a bound getter reads, without
\* any lock.
change == /\ MayChange
          /\ value' = value + 1
          /\ UNCHANGED <<cache, live, owner, call, sure>>

start(t, op) ==
    /\ call[t].op = "none"
    /\ op = "clear" => MayChange
    /\ call' = [call EXCEPT ![t] =
                    [op |-> op, pc |-> IF op = "current" THEN "get" ELSE "enter",
                     got |-> 0, from |-> value]]
    /\ UNCHANGED <<value, cache, live, owner, sure>>

\* Where the call goes on once it has the mutex: backed() looks for a snapshot.
FirstStep(op) == CASE op = "backed" -> IF cache = Nothing THEN "get" ELSE "leave"
                   [] op = "record" -> "get"
                   [] op \in {"invalidate", "clear"} -> "wipe"

\* Mutant of enter: SYNCHRONIZED is missing in invalidate().
enterOpen(t) == /\ call[t].op \notin {"none", "current"}
                /\ call[t].pc = "enter"
                /\ owner = Nobody \/ call[t].op = "invalidate"
                /\ owner' = IF owner = Nobody THEN t ELSE owner
                /\ GoTo(t, FirstStep(call[t].op))
                /\ UNCHANGED <<value, cache, live, sure>>

enter(t) == /\ call[t].op \notin {"none", "current"}
            /\ call[t].pc = "enter"
            /\ owner = Nobody
            /\ owner' = t
            /\ GoTo(t, FirstStep(call[t].op))
            /\ UNCHANGED <<value, cache, live, sure>>

\* getter(), whose result is stored in a step of its own.
get(t) == /\ call[t].op \in {"backed", "record", "current"}
          /\ call[t].pc = "get"
          /\ call' = [call EXCEPT ![t].pc = "store", ![t].got = value]
          /\ UNCHANGED <<value, cache, live, owner, sure>>

storeSnapshot(t) == /\ In(t, "backed", "store") \/ In(t, "record", "store")
                    /\ cache' = call[t].got
                    /\ GoTo(t, "leave")
                    /\ UNCHANGED <<value, live, owner, sure>>

\* current() takes no lock and is over.
storeLive(t) == /\ In(t, "current", "store")
                /\ live' = call[t].got
                /\ call' = [call EXCEPT ![t] = NoCall]
                /\ UNCHANGED <<value, cache, owner, sure>>

\* invalidate(), and clear(), which also resets the value.
wipe(t) == /\ \/ In(t, "invalidate", "wipe") /\ UNCHANGED value
              \/ In(t, "clear", "wipe") /\ value' = value + 1
           /\ cache' = Nothing
           /\ GoTo(t, "leave")
           /\ UNCHANGED <<live, owner, sure>>

\* The mutex is released on return; backed() returns a reference into the
\* optional, which the caller reads from without the mutex.  Once record(),
\* invalidate() or clear() is over, its caller is sure of what was there when it
\* called.
leave(t) == /\ call[t].op # "none"
            /\ call[t].pc = "leave"
            /\ owner' = IF owner = t THEN Nobody ELSE owner
            /\ call' = [call EXCEPT ![t] = NoCall]
            /\ sure' = IF call[t].op # "backed" /\ call[t].from > sure
                       THEN call[t].from ELSE sure
            /\ UNCHANGED <<value, cache, live>>

---------------------------------------------------------------------------
Next == \/ change
        \/ \E t \in Thread :
              \/ \E op \in {"backed", "record", "invalidate", "clear", "current"} :
                    start(t, op)
              \/ enter(t) \/ get(t) \/ storeSnapshot(t) \/ storeLive(t)
              \/ wipe(t) \/ leave(t)

Spec == Init /\ [][Next]_vars

---------------------------------------------------------------------------
(* Properties                                                                *)

\* "Force the snapshot to be recomputed in the next backed() call": once
\* invalidate() or record() has returned, no snapshot shows what the value was
\* before they were called, whatever a backed() under way had already read.
SnapshotIsFresh == cache # Nothing => cache >= sure
============================================================================
