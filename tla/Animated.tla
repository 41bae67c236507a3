------------------------------ MODULE Animated ------------------------------
(* A value that fades in and out (include/utl/wrappers/Animated.h).  The     *)
(* doubles are whole numbers of a small unit, and an addition is off by one  *)
(* unit either way: n steps of a n-th do not have to sum up to the whole.    *)
EXTENDS Integers

CONSTANTS Maxima,       \* the values that operator= assigns
          One,          \* 1.0, the value of a new object
          MaxSteps      \* bound on the number of steps of a fade

\* Dividing by a number of steps is exact in these units, and the rounding
\* errors of a fade do not add up to a step.
AnimatedConstants ==
    /\ MaxSteps \in Nat
    /\ One \in Maxima
    /\ \A m \in Maxima : /\ m \in Nat
                         /\ \A n \in 1 .. MaxSteps : m % n = 0 /\ (m = 0 \/ n < m \div n)

VARIABLES current, maximum, delta,
          todo,         \* the steps left before the fade has to be over (history)
          target        \* where it ends (history)

vars == <<current, maximum, delta, todo, target>>

Sizes == {0} \cup {m \div n : m \in Maxima, n \in 1 .. MaxSteps}

TypeOK == /\ maximum \in Maxima
          /\ current \in 0 .. maximum
          /\ delta \in Sizes \cup {-d : d \in Sizes}
          /\ todo \in 0 .. MaxSteps + 1
          /\ target \in {0, maximum}

Init == /\ maximum = One
        /\ current = One
        /\ delta = 0
        /\ todo = 0
        /\ target = One

assign(other) == /\ maximum' = other
                 /\ current' = other
                 /\ delta' = 0
                 /\ todo' = 0
                 /\ target' = other

\* The fade is over after `steps` shifts, or after one more if rounding errors
\* have kept it from its end.
Fade(end, steps) == /\ todo' = IF steps = 0 THEN 0 ELSE steps + 1
                    /\ target' = end
                    /\ UNCHANGED maximum

fadeOut(steps) == /\ IF steps = 0
                     THEN current' = 0 /\ delta' = 0
                     ELSE delta' = -(maximum \div steps) /\ UNCHANGED current
                  /\ Fade(0, steps)

\* Mutant of fadeIn: the speed is not reset when there is nothing to fade.
fadeInFast(steps) == /\ IF steps = 0
                        THEN current' = maximum /\ UNCHANGED delta
                        ELSE delta' = maximum \div steps /\ UNCHANGED current
                     /\ Fade(maximum, steps)

fadeIn(steps) == /\ IF steps = 0
                    THEN current' = maximum /\ delta' = 0
                    ELSE delta' = maximum \div steps /\ UNCHANGED current
                 /\ Fade(maximum, steps)

\* Nothing is rounded when nothing is added.
Moved == IF delta = 0 THEN {current} ELSE current + delta - 1 .. current + delta + 1

\* Mutant of notBelowZero: what rounding has left over stays.
justMoved(x) == x

notBelowZero(x) == IF x > 0 THEN x ELSE 0

shift == /\ \/ /\ delta < 0 /\ current # 0
               /\ \E x \in Moved : current' = notBelowZero(x)
            \/ /\ delta > 0 /\ current # maximum
               /\ \E x \in Moved : current' = IF x < maximum THEN x ELSE maximum
            \/ /\ ~(delta < 0 /\ current # 0) /\ ~(delta > 0 /\ current # maximum)
               /\ UNCHANGED current
         /\ todo' = IF todo = 0 THEN 0 ELSE todo - 1
         /\ UNCHANGED <<maximum, delta, target>>

Next == \/ \E m \in Maxima : assign(m)
        \/ \E n \in 0 .. MaxSteps : fadeOut(n) \/ fadeIn(n)
        \/ shift

Spec == Init /\ [][Next]_vars

---------------------------------------------------------------------------
(* Properties                                                                *)

\* A fade is over after one step more than it was given at the latest, from
\* wherever the fade before it was interrupted, and stays where it has ended:
\* no rounding error is left over, and none moves the value out of its range.
FadeArrives == todo = 0 => current = target
============================================================================
