------------------------------- MODULE Sticky -------------------------------
(* A value that stays visible for a while (include/utl/wrappers/Sticky.h).   *)
(* set() is called at the current time, as the invariant of the class        *)
(* demands; the value shown is what get() returns at the current time.       *)
EXTENDS Integers

CONSTANTS T,            \* the values
          Default,      \* T{}
          Stickiness,
          MaxTime       \* bound on the time

StickyConstants == Default \in T /\ Stickiness \in Nat /\ MaxTime \in Nat

VARIABLES oldValue, change, newValue,
          now,          \* the current time
          since,        \* when the value shown changed last (history)
          prompt        \* whether set() changed it at once (history)

vars == <<oldValue, change, newValue, now, since, prompt>>

TypeOK == /\ oldValue \in T /\ newValue \in T
          /\ change \in 0 .. now
          /\ now \in 0 .. MaxTime
          /\ since \in 0 .. now
          /\ prompt \in BOOLEAN

Init == /\ oldValue = Default /\ newValue = Default /\ change = 0
        /\ now = 0
        /\ since = 0
        /\ prompt = FALSE

get(when) == IF when - change >= Stickiness THEN newValue ELSE oldValue

Shown == get(now)

\* Mutant of override: the old value is always overridden.
overrideAlways(v) == v

\* Override the old value immediately when it was stable long enough.
override(v) == IF now - change >= Stickiness THEN v ELSE oldValue

set(v) == /\ IF v = newValue
             THEN UNCHANGED <<oldValue, newValue, change>>
             ELSE /\ oldValue' = override(v)
                  /\ newValue' = v
                  /\ change' = now
          /\ UNCHANGED now
          /\ IF Shown' = Shown THEN UNCHANGED <<since, prompt>>
                               ELSE since' = now /\ prompt' = TRUE

init == /\ oldValue' = Default
        /\ change' = 0
        /\ newValue' = Default
        /\ since' = now
        /\ prompt' = FALSE
        /\ UNCHANGED now

\* Time passes, by one or more units.
tick == /\ now' \in now + 1 .. MaxTime
        /\ UNCHANGED <<oldValue, newValue, change>>
        /\ IF Shown' = Shown THEN UNCHANGED <<since, prompt>>
                             ELSE since' = change + Stickiness /\ prompt' = FALSE

Next == (\E v \in T : set(v)) \/ init \/ tick

Spec == Init /\ [][Next]_vars

---------------------------------------------------------------------------
(* Properties                                                                *)

\* "The previous value remains visible until the configured stickiness
\* interval has elapsed": a value that set() made visible at once stays
\* visible for the whole interval, however many assignments follow.
StaysVisible ==
    [][(Shown' # Shown /\ prompt /\ ~init) => now' - since >= Stickiness]_vars

\* "... after which the new value takes effect": once the value shown has been
\* visible for the stickiness interval, it gives way to the value assigned last.
TakesEffect == now - since >= Stickiness => Shown = newValue
============================================================================
