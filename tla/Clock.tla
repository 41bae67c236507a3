------------------------------- MODULE Clock --------------------------------
(* A clock that can be stopped (src/chrono/Clock.cpp).  Time::now() does not  *)
(* run backwards; it passes between two calls, not within one.               *)
EXTENDS Integers

CONSTANT MaxTime        \* bound on the time

ClockConstants == MaxTime \in Nat

VARIABLES start, elapsed, paused,
          now,          \* Time::now()
          ran,          \* the time the clock ran since it was restarted (history)
          shown         \* what the last call returned (history)

vars == <<start, elapsed, paused, now, ran, shown>>

TypeOK == /\ start \in 0 .. now
          /\ elapsed \in 0 .. now
          /\ paused \in BOOLEAN
          /\ now \in 0 .. MaxTime
          /\ ran \in 0 .. now
          /\ shown \in 0 .. now

\* A clock starts when it is made.
Init == /\ start = 0
        /\ elapsed = 0
        /\ paused = FALSE
        /\ now = 0
        /\ ran = 0
        /\ shown = 0

\* Mutant of updated: the pause counts as well.
updatedAlways == elapsed + (now - start)

\* elapsed after updateElapsed().
updated == IF paused THEN elapsed ELSE elapsed + (now - start)

getElapsedTime == /\ elapsed' = updated
                  /\ start' = now
                  /\ shown' = updated
                  /\ UNCHANGED <<paused, now, ran>>

stop == /\ elapsed' = updated
        /\ start' = now
        /\ paused' = TRUE
        /\ shown' = updated
        /\ UNCHANGED <<now, ran>>

go == /\ elapsed' = updated
      /\ start' = now
      /\ paused' = FALSE
      /\ shown' = updated
      /\ UNCHANGED <<now, ran>>

restart == /\ shown' = updated
           /\ start' = now
           /\ elapsed' = 0
           /\ paused' = FALSE
           /\ ran' = 0
           /\ UNCHANGED now

tick == /\ now' \in now + 1 .. MaxTime
        /\ ran' = IF paused THEN ran ELSE ran + (now' - now)
        /\ UNCHANGED <<start, elapsed, paused, shown>>

Next == getElapsedTime \/ stop \/ go \/ restart \/ tick

Spec == Init /\ [][Next]_vars

---------------------------------------------------------------------------
(* Properties                                                                *)

\* Running time is counted once and a pause never, in whatever order the clock
\* is stopped, stopped again, read, started and restarted: each call returns
\* the time the clock ran since the last restart.
CountsRunningTime == [][getElapsedTime \/ stop \/ go \/ restart => shown' = ran]_vars
============================================================================
