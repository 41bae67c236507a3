------------------------------ MODULE Wrappers ------------------------------
(* The small stateful classes next to each other: Wakeable, Backed, Sticky,  *)
(* Animated and Clock.  They do not interact, so one of them moves in each   *)
(* behaviour, which one is chosen at the start, and the others stay as made. *)
EXTENDS Integers, FiniteSets

CONSTANTS Thread, Nobody, MaxWakeUps,             \* Wakeable
          Sharer, Nothing, MaxChanges,            \* Backed: the threads that share it
          T, Default, Stickiness, MaxTime,        \* Sticky, and the bound of the clocks
          Maxima, One, MaxSteps                   \* Animated

VARIABLES part,
          ready, owner, pc, late, wakeUps, early,                   \* Wakeable
          value, cache, live, mutex, call, sure,                    \* Backed
          oldValue, change, newValue, now, since, prompt,           \* Sticky
          current, maximum, delta, todo, target,                    \* Animated
          start, elapsed, paused, time, ran, shown                  \* Clock

Wake  == INSTANCE Wakeable
Back  == INSTANCE Backed WITH Thread <- Sharer, owner <- mutex
Stick == INSTANCE Sticky
Anim  == INSTANCE Animated
Clk   == INSTANCE Clock WITH now <- time

ASSUME WakeableAssumption == Wake!WakeableConstants
ASSUME BackedAssumption   == Back!BackedConstants
ASSUME StickyAssumption   == Stick!StickyConstants
ASSUME AnimatedAssumption == Anim!AnimatedConstants
ASSUME ClockAssumption    == Clk!ClockConstants

Parts == {"Wakeable", "Backed", "Sticky", "Animated", "Clock"}

wakeVars  == <<ready, owner, pc, late, wakeUps, early>>
backVars  == <<value, cache, live, mutex, call, sure>>
stickVars == <<oldValue, change, newValue, now, since, prompt>>
animVars  == <<current, maximum, delta, todo, target>>
clkVars   == <<start, elapsed, paused, time, ran, shown>>

vars == <<part, wakeVars, backVars, stickVars, animVars, clkVars>>

Init == /\ part \in Parts
        /\ Wake!Init /\ Back!Init /\ Stick!Init /\ Anim!Init /\ Clk!Init

Next == /\ UNCHANGED part
        /\ \/ /\ part = "Wakeable" /\ Wake!Next
              /\ UNCHANGED <<backVars, stickVars, animVars, clkVars>>
           \/ /\ part = "Backed" /\ Back!Next
              /\ UNCHANGED <<wakeVars, stickVars, animVars, clkVars>>
           \/ /\ part = "Sticky" /\ Stick!Next
              /\ UNCHANGED <<wakeVars, backVars, animVars, clkVars>>
           \/ /\ part = "Animated" /\ Anim!Next
              /\ UNCHANGED <<wakeVars, backVars, stickVars, clkVars>>
           \/ /\ part = "Clock" /\ Clk!Next
              /\ UNCHANGED <<wakeVars, backVars, stickVars, animVars>>

Spec == Init /\ [][Next]_vars

\* Only the waits need fairness.
FairSpec == Spec /\ Wake!Fairness

---------------------------------------------------------------------------
(* Properties, each stated in the module of its part                         *)

\* Every member of the five classes stays in its range.
TypeOK == /\ part \in Parts
          /\ Wake!TypeOK /\ Back!TypeOK /\ Stick!TypeOK /\ Anim!TypeOK /\ Clk!TypeOK

\* Wakeable: no thread sleeps on while the flag is set and nobody is on the way.
NobodySleepsOn == Wake!NobodySleepsOn

\* Wakeable: a wait that ends early has a wake-up of its own.
OneWaitPerWakeUp == Wake!OneWaitPerWakeUp

\* Wakeable: a flag that is set while somebody sleeps is taken.
FlagIsTaken == Wake!FlagIsTaken

\* Backed: after invalidate() no snapshot is older than the call.
SnapshotIsFresh == Back!SnapshotIsFresh

\* Sticky: a value shown at once stays for the whole interval.
StaysVisible == Stick!StaysVisible

\* Sticky: a value that was visible for the interval gives way to the newest.
TakesEffect == Stick!TakesEffect

\* Animated: a fade ends where and when it should.
FadeArrives == Anim!FadeArrives

\* Clock: running time is counted once, pauses never.
CountsRunningTime == Clk!CountsRunningTime
=============================================================================
