-------------------------- MODULE Wrappers_proofs --------------------------
(* Proofs about the small stateful classes, for every number of threads, of  *)
(* wake-ups, changes and steps, and for all values and times.                *)
(*                                                                           *)
(* Each class is proved about on its own, from its own specification, which  *)
(* the first section derives from that of the composition.  The last section *)
(* has what follows for the composition.                                     *)
EXTENDS Wrappers, FiniteSetTheorems, TLAPS

---------------------------------------------------------------------------
(* The parts                                                                 *)

\* A step of the composition is a step of one part, and leaves the others.
LEMMA PartSteps ==
    [Next]_vars => /\ [Wake!Next]_(Wake!vars) /\ [Back!Next]_(Back!vars)
                   /\ [Stick!Next]_(Stick!vars) /\ [Anim!Next]_(Anim!vars)
                   /\ [Clk!Next]_(Clk!vars)
<1> USE DEF vars, wakeVars, backVars, stickVars, animVars, clkVars
<1> SUFFICES ASSUME [Next]_vars
             PROVE  /\ [Wake!Next]_(Wake!vars) /\ [Back!Next]_(Back!vars)
                    /\ [Stick!Next]_(Stick!vars) /\ [Anim!Next]_(Anim!vars)
                    /\ [Clk!Next]_(Clk!vars)
  OBVIOUS
<1>1. [Wake!Next]_(Wake!vars)
  BY DEF Next, Wake!vars
<1>2. [Back!Next]_(Back!vars)
  BY DEF Next, Back!vars
<1>3. [Stick!Next]_(Stick!vars)
  BY DEF Next, Stick!vars
<1>4. [Anim!Next]_(Anim!vars)
  BY DEF Next, Anim!vars
<1>5. [Clk!Next]_(Clk!vars)
  BY DEF Next, Clk!vars
<1> QED
  BY <1>1, <1>2, <1>3, <1>4, <1>5

\* Next to each other the five classes behave as each does alone: they share no
\* state, so that what is proved of one holds wherever it is used.
THEOREM PartsAsAlone == Spec => Wake!Spec /\ Back!Spec /\ Stick!Spec /\ Anim!Spec /\ Clk!Spec
<1>1. Init => Wake!Init /\ Back!Init /\ Stick!Init /\ Anim!Init /\ Clk!Init
  BY DEF Init
<1> QED
  BY <1>1, PartSteps, PTL DEF Spec, Wake!Spec, Back!Spec, Stick!Spec, Anim!Spec, Clk!Spec

---------------------------------------------------------------------------
(* Wakeable: types                                                           *)

\* An instance has its own copy of the operators on finite sets.
LEMMA WakeableSets ==
    ASSUME NEW S
    PROVE  Wake!IsFiniteSet(S) = IsFiniteSet(S) /\ Wake!Cardinality(S) = Cardinality(S)
BY DEF IsFiniteSet, Wake!IsFiniteSet, Cardinality, Wake!Cardinality

LEMMA WakeableFacts == Nobody \notin Thread /\ IsFiniteSet(Thread) /\ MaxWakeUps \in Nat
BY WakeableAssumption, WakeableSets DEF Wake!WakeableConstants

\* The bound leaves room for each wake-up that is under way.
WakeUpsWithinBound == Cardinality(Wake!Setters) + wakeUps <= MaxWakeUps

LEMMA SettersFinite ==
    IsFiniteSet(Wake!Setters) /\ Cardinality(Wake!Setters) \in Nat
<1>1. IsFiniteSet(Wake!Setters)
  BY WakeableFacts, FS_Subset DEF Wake!Setters
<1> QED
  BY <1>1, FS_CardinalityType

\* Only wakeUp(), lock() and set() change who is under way.
LEMMA SettersChange ==
    ASSUME Wake!TypeOK, NEW t \in Thread
    PROVE  /\ Wake!wakeUp(t) => Wake!Setters' = Wake!Setters \cup {t}
           /\ Wake!set(t) => t \in Wake!Setters /\ Wake!Setters' = Wake!Setters \ {t}
           /\ Wake!lock(t) => Wake!Setters' = Wake!Setters
<1> USE DEF Wake!TypeOK, Wake!Setters
<1>1. ASSUME Wake!wakeUp(t) PROVE Wake!Setters' = Wake!Setters \cup {t}
  BY <1>1 DEF Wake!wakeUp, Wake!GoTo
<1>2. ASSUME Wake!set(t) PROVE t \in Wake!Setters /\ Wake!Setters' = Wake!Setters \ {t}
  BY <1>2 DEF Wake!set, Wake!GoTo
<1>3. ASSUME Wake!lock(t) PROVE Wake!Setters' = Wake!Setters
  BY <1>3 DEF Wake!lock, Wake!GoTo
<1> QED
  BY <1>1, <1>2, <1>3

\* All other steps leave them, and the number of wake-ups, alone.
LEMMA SettersStay ==
    ASSUME Wake!TypeOK, NEW t \in Thread,
           \/ Wake!call(t) \/ Wake!expire(t) \/ Wake!enter(t) \/ Wake!test(t)
           \/ Wake!block(t) \/ Wake!wakeByItself(t)
           \/ Wake!relock(t) \/ Wake!reset(t) \/ Wake!notify(t)
    PROVE  Wake!Setters' = Wake!Setters /\ wakeUps' = wakeUps
<1> USE DEF Wake!TypeOK, Wake!Setters, Wake!GoTo
<1>1. CASE Wake!call(t) \/ Wake!expire(t) \/ Wake!enter(t)
  BY <1>1 DEF Wake!call, Wake!expire, Wake!enter
<1>2. CASE Wake!test(t) \/ Wake!block(t) \/ Wake!wakeByItself(t)
  BY <1>2 DEF Wake!test, Wake!block, Wake!wakeByItself
<1>3. CASE Wake!relock(t) \/ Wake!reset(t)
  BY <1>3 DEF Wake!relock, Wake!reset
<1>4. CASE Wake!notify(t)
  BY <1>4 DEF Wake!notify, Wake!Blocked
<1> QED
  BY <1>1, <1>2, <1>3, <1>4

LEMMA WakeableTypeStep ==
    Wake!TypeOK /\ WakeUpsWithinBound /\ [Wake!Next]_(Wake!vars)
        => Wake!TypeOK' /\ WakeUpsWithinBound'
<1> SUFFICES ASSUME Wake!TypeOK, WakeUpsWithinBound, [Wake!Next]_(Wake!vars)
             PROVE  Wake!TypeOK' /\ WakeUpsWithinBound'
  OBVIOUS
<1> USE DEF Wake!TypeOK, Wake!Place
<1>1. ASSUME NEW t \in Thread, Wake!call(t) \/ Wake!expire(t)
\/ Wake!enter(t) PROVE Wake!TypeOK'
  BY <1>1 DEF Wake!call, Wake!expire, Wake!enter, Wake!GoTo, Wake!Acquire
<1>2. ASSUME NEW t \in Thread, Wake!test(t) \/ Wake!block(t)
\/ Wake!wakeByItself(t) PROVE Wake!TypeOK'
  BY <1>2 DEF Wake!test, Wake!block, Wake!wakeByItself, Wake!GoTo
<1>3. ASSUME NEW t \in Thread, Wake!relock(t) \/ Wake!reset(t) PROVE Wake!TypeOK'
  BY <1>3 DEF Wake!relock, Wake!reset, Wake!GoTo, Wake!Acquire
<1>4. ASSUME NEW t \in Thread, Wake!notify(t) PROVE Wake!TypeOK'
  BY <1>4 DEF Wake!notify, Wake!Blocked
<1>5. ASSUME NEW t \in Thread, Wake!wakeUp(t) PROVE Wake!TypeOK' /\ WakeUpsWithinBound'
  <2>1. Wake!TypeOK'
    BY <1>5 DEF Wake!wakeUp, Wake!GoTo
  <2>2. Cardinality(Wake!Setters') <= Cardinality(Wake!Setters) + 1
    <3>1. Wake!Setters' = Wake!Setters \cup {t}
      BY <1>5, SettersChange
    <3>2. Cardinality(Wake!Setters \cup {t}) =
            IF t \in Wake!Setters THEN Cardinality(Wake!Setters)
                                  ELSE Cardinality(Wake!Setters) + 1
      BY SettersFinite, FS_AddElement
    <3> QED
      BY <3>1, <3>2, SettersFinite
  <2>3. Cardinality(Wake!Setters') \in Nat
    <3>1. IsFiniteSet(Wake!Setters')
      BY WakeableFacts, FS_Subset DEF Wake!Setters
    <3> QED
      BY <3>1, FS_CardinalityType
  <2> QED
    BY WakeableFacts, WakeableSets, <1>5, <2>1, <2>2, <2>3, SettersFinite
       DEF Wake!wakeUp, WakeUpsWithinBound
<1>6. ASSUME NEW t \in Thread, Wake!lock(t) PROVE Wake!TypeOK' /\ WakeUpsWithinBound'
  <2>1. Wake!TypeOK'
    BY <1>6 DEF Wake!lock, Wake!GoTo, Wake!Acquire
  <2>2. Wake!Setters' = Wake!Setters /\ wakeUps' = wakeUps
    BY <1>6, SettersChange DEF Wake!lock
  <2> QED
    BY <2>1, <2>2 DEF WakeUpsWithinBound
<1>7. ASSUME NEW t \in Thread, Wake!set(t) PROVE Wake!TypeOK' /\ WakeUpsWithinBound'
  <2>1. t \in Wake!Setters /\ Wake!Setters' = Wake!Setters \ {t}
    BY <1>7, SettersChange
  <2>2. Cardinality(Wake!Setters') = Cardinality(Wake!Setters) - 1
    BY <2>1, SettersFinite, FS_RemoveElement
  <2>3. Cardinality(Wake!Setters) - 1 \in Nat
    <3>1. Cardinality(Wake!Setters') \in Nat
      BY <2>1, SettersFinite, FS_RemoveElement, FS_CardinalityType
    <3> QED
      BY <2>2, <3>1
  <2>4. wakeUps' = wakeUps + 1
    BY <1>7 DEF Wake!set
  <2>5. wakeUps' \in 0 .. MaxWakeUps /\ WakeUpsWithinBound'
    BY WakeableFacts, <2>2, <2>3, <2>4, SettersFinite DEF WakeUpsWithinBound
  <2>6. pc' \in [Thread -> Wake!Place] /\ owner' \in Thread \cup {Nobody} /\ ready' \in BOOLEAN
    BY <1>7 DEF Wake!set, Wake!GoTo
  <2> QED
    BY <1>7, <2>5, <2>6 DEF Wake!set
<1>8. CASE UNCHANGED Wake!vars
  BY <1>8 DEF Wake!vars, WakeUpsWithinBound, Wake!Setters
<1> QED
  BY <1>1, <1>2, <1>3, <1>4, <1>5, <1>6, <1>7, <1>8, SettersStay
     DEF Wake!Next, Wake!Step, WakeUpsWithinBound

\* Every variable keeps its type, and the bound on the calls of wakeUp() is kept
\* although it is tested when they begin.
LEMMA WakeableTypes ==
    Wake!Spec => [](Wake!TypeOK /\ WakeUpsWithinBound)
<1>1. Wake!Init => Wake!TypeOK /\ WakeUpsWithinBound
  <2> SUFFICES ASSUME Wake!Init PROVE Wake!TypeOK /\ WakeUpsWithinBound
    OBVIOUS
  <2>1. Wake!Setters = {}
    BY DEF Wake!Init, Wake!Setters
  <2>2. Cardinality(Wake!Setters) = 0
    BY <2>1, FS_EmptySet
  <2>3. WakeUpsWithinBound
    BY WakeableFacts, <2>2 DEF Wake!Init, WakeUpsWithinBound
  <2>4. pc \in [Thread -> Wake!Place]
    BY DEF Wake!Init, Wake!Place
  <2>5. 0 \in 0 .. MaxWakeUps
    BY WakeableFacts
  <2>6. Wake!TypeOK
    BY <2>4, <2>5 DEF Wake!Init, Wake!TypeOK
  <2> QED
    BY <2>3, <2>6
<1>2. Wake!TypeOK /\ WakeUpsWithinBound /\ [Wake!Next]_(Wake!vars)
         => (Wake!TypeOK /\ WakeUpsWithinBound)'
  BY WakeableTypeStep
<1> QED
  BY <1>1, <1>2, PTL DEF Wake!Spec

---------------------------------------------------------------------------
(* Wakeable: mutual exclusion, and what it protects                          *)

\* The places where a thread has the mutex.
Holding == {"test", "block", "reset", "set"}

\* A thread at one of these places owns the mutex, and a thread that has found
\* the flag down, and is about to block, can rely on its staying down.
Protected == \A t \in Thread : /\ pc[t] \in Holding => owner = t
                               /\ pc[t] = "block" => ~ready

LEMMA ProtectedStep ==
    Wake!TypeOK /\ Protected /\ [Wake!Next]_(Wake!vars) => Protected'
<1> SUFFICES ASSUME Wake!TypeOK, Protected, [Wake!Next]_(Wake!vars) PROVE Protected'
  OBVIOUS
<1> USE DEF Wake!TypeOK, Protected, Holding
<1>1. ASSUME NEW t \in Thread, Wake!call(t) \/ Wake!expire(t) \/ Wake!wakeUp(t) PROVE Protected'
  BY <1>1 DEF Wake!call, Wake!expire, Wake!wakeUp, Wake!GoTo
<1>2. ASSUME NEW t \in Thread, Wake!enter(t) \/ Wake!relock(t) \/ Wake!lock(t) PROVE Protected'
  <2>1. \A u \in Thread : pc[u] \notin Holding
    BY WakeableFacts, <1>2 DEF Wake!enter, Wake!relock, Wake!lock, Wake!Acquire
  <2>2. \A u \in Thread : u = t \/ pc'[u] = pc[u]
    BY <1>2 DEF Wake!enter, Wake!relock, Wake!lock, Wake!GoTo
  <2>3. owner' = t /\ ready' = ready /\ pc'[t] # "block"
    BY <1>2 DEF Wake!enter, Wake!relock, Wake!lock, Wake!GoTo, Wake!Acquire
  <2> QED
    BY <2>1, <2>2, <2>3
<1>3. ASSUME NEW t \in Thread, Wake!test(t) \/ Wake!wakeByItself(t) PROVE Protected'
  BY <1>3 DEF Wake!test, Wake!wakeByItself, Wake!GoTo
<1>4. ASSUME NEW t \in Thread, Wake!block(t) \/ Wake!reset(t) \/ Wake!set(t) PROVE Protected'
  <2>1. owner = t
    BY <1>4 DEF Wake!block, Wake!reset, Wake!set, Wake!GoTo
  <2>2. \A u \in Thread : u = t \/ (pc'[u] = pc[u] /\ pc[u] \notin Holding)
    BY <1>4, <2>1 DEF Wake!block, Wake!reset, Wake!set, Wake!GoTo
  <2>3. pc'[t] \notin Holding
    BY <1>4 DEF Wake!block, Wake!reset, Wake!set, Wake!GoTo
  <2> QED
    BY <2>2, <2>3
<1>5. ASSUME NEW t \in Thread, Wake!notify(t) PROVE Protected'
  BY <1>5 DEF Wake!notify, Wake!Blocked
<1>6. CASE UNCHANGED Wake!vars
  BY <1>6 DEF Wake!vars
<1> QED
  BY <1>1, <1>2, <1>3, <1>4, <1>5, <1>6 DEF Wake!Next, Wake!Step

---------------------------------------------------------------------------
(* Wakeable: no wake-up is lost                                              *)

LEMMA SleepersStep ==
    Wake!TypeOK /\ Protected /\ Wake!NobodySleepsOn /\ [Wake!Next]_(Wake!vars)
        => Wake!NobodySleepsOn'
<1> SUFFICES ASSUME Wake!TypeOK, Protected, Wake!NobodySleepsOn, [Wake!Next]_(Wake!vars)
             PROVE  Wake!NobodySleepsOn'
  OBVIOUS
<1> USE DEF Wake!TypeOK, Wake!NobodySleepsOn, Wake!Blocked
<1>1. ASSUME NEW t \in Thread, Wake!call(t) \/ Wake!expire(t) \/ Wake!wakeUp(t)
\/ Wake!enter(t) \/ Wake!lock(t)
      PROVE  Wake!NobodySleepsOn'
  BY <1>1 DEF Wake!call, Wake!expire, Wake!wakeUp, Wake!enter, Wake!lock, Wake!GoTo
<1>2. ASSUME NEW t \in Thread, Wake!test(t) \/ Wake!wakeByItself(t) \/ Wake!relock(t)
      PROVE  Wake!NobodySleepsOn'
  <2>1. CASE Wake!test(t)
    <3>1. ready => pc'[t] = "reset"
      BY <2>1 DEF Wake!test, Wake!GoTo
    <3> QED
      BY <2>1, <3>1 DEF Wake!test
  <2>2. CASE Wake!wakeByItself(t)
    <3>1. pc'[t] = "woken"
      BY <2>2 DEF Wake!wakeByItself, Wake!GoTo
    <3> QED
      BY <3>1
  <2>3. CASE Wake!relock(t)
    <3>1. pc'[t] \in {"test", "reset"}
      BY <2>3 DEF Wake!relock, Wake!GoTo
    <3> QED
      BY <3>1
  <2> QED
    BY <1>2, <2>1, <2>2, <2>3
<1>3. ASSUME NEW t \in Thread, Wake!block(t) PROVE Wake!NobodySleepsOn'
  BY <1>3 DEF Wake!block, Wake!GoTo, Protected
<1>4. ASSUME NEW t \in Thread, Wake!reset(t) PROVE Wake!NobodySleepsOn'
  BY <1>4 DEF Wake!reset
<1>5. ASSUME NEW t \in Thread, Wake!set(t) PROVE Wake!NobodySleepsOn'
  BY <1>5 DEF Wake!set, Wake!GoTo
<1>6. ASSUME NEW t \in Thread, Wake!notify(t) PROVE Wake!NobodySleepsOn'
  BY <1>6 DEF Wake!notify
<1>7. CASE UNCHANGED Wake!vars
  BY <1>7 DEF Wake!vars
<1> QED
  BY <1>1, <1>2, <1>3, <1>4, <1>5, <1>6, <1>7 DEF Wake!Next, Wake!Step

\* While the flag is set, no thread sleeps without another on its way to wake
\* one or to take the flag: wakeUp() sets the flag under the mutex and notifies
\* after it, and a wait blocks and releases the mutex at once.
LEMMA WakeableSleepers ==
    Wake!Spec => []Wake!NobodySleepsOn
<1>1. Wake!Init => Protected /\ Wake!NobodySleepsOn
  BY DEF Wake!Init, Protected, Holding, Wake!NobodySleepsOn
<1>2. Wake!TypeOK /\ Protected /\ [Wake!Next]_(Wake!vars) => Protected'
  BY ProtectedStep
<1>3. Wake!TypeOK /\ Protected /\ Wake!NobodySleepsOn /\ [Wake!Next]_(Wake!vars)
         => Wake!NobodySleepsOn'
  BY SleepersStep
<1> QED
  BY <1>1, <1>2, <1>3, WakeableTypes, PTL DEF Wake!Spec

---------------------------------------------------------------------------
(* Wakeable: each wake-up ends one wait                                      *)

Taking == \E t \in Thread : pc[t] = "reset"

LEMMA OneWaitStep ==
    Wake!TypeOK /\ Protected /\ Wake!OneWaitPerWakeUp /\ [Wake!Next]_(Wake!vars)
        => Wake!OneWaitPerWakeUp'
<1> SUFFICES ASSUME Wake!TypeOK, Protected, Wake!OneWaitPerWakeUp, [Wake!Next]_(Wake!vars)
             PROVE  Wake!OneWaitPerWakeUp'
  OBVIOUS
<1> USE WakeableFacts DEF Wake!TypeOK
<1>1. ASSUME NEW t \in Thread,
             \/ Wake!call(t) \/ Wake!expire(t) \/ Wake!wakeUp(t) \/ Wake!enter(t)
             \/ Wake!lock(t)
             \/ Wake!block(t) \/ Wake!wakeByItself(t) \/ Wake!notify(t)
      PROVE  Wake!OneWaitPerWakeUp'
  <2>1. Taking' <=> Taking
    BY <1>1
       DEF Wake!call, Wake!expire, Wake!wakeUp, Wake!enter, Wake!lock, Wake!block,
           Wake!wakeByItself, Wake!notify, Wake!Blocked,
                Wake!GoTo, Taking
  <2>2. UNCHANGED <<ready, early, wakeUps>>
    BY <1>1
       DEF Wake!call, Wake!expire, Wake!wakeUp, Wake!enter, Wake!lock, Wake!block,
           Wake!wakeByItself, Wake!notify
  <2> QED
    BY <2>1, <2>2 DEF Wake!OneWaitPerWakeUp, Taking
<1>2. ASSUME NEW t \in Thread, Wake!test(t) PROVE Wake!OneWaitPerWakeUp'
  <2>1. ASSUME NEW u \in Thread, pc[u] = "reset" PROVE FALSE
    <3>1. owner = u
      BY <2>1 DEF Protected, Holding
    <3>2. owner = t /\ pc[t] = "test"
      BY <1>2 DEF Protected, Holding, Wake!test, Wake!GoTo
    <3> QED
      BY <2>1, <3>1, <3>2
  <2>2. ready => Taking'
    BY <1>2 DEF Wake!test, Wake!GoTo, Taking
  <2> QED
    BY <1>2, <2>1, <2>2 DEF Wake!test, Wake!OneWaitPerWakeUp, Taking
<1>3. ASSUME NEW t \in Thread, Wake!relock(t) PROVE Wake!OneWaitPerWakeUp'
  <2>1. Taking => Taking'
    BY <1>3 DEF Wake!relock, Wake!GoTo, Taking
  <2> QED
    BY <1>3, <2>1 DEF Wake!relock, Wake!OneWaitPerWakeUp, Taking
<1>4. ASSUME NEW t \in Thread, Wake!reset(t) PROVE Wake!OneWaitPerWakeUp'
  BY <1>4 DEF Wake!reset, Wake!OneWaitPerWakeUp
<1>5. ASSUME NEW t \in Thread, Wake!set(t) PROVE Wake!OneWaitPerWakeUp'
  BY <1>5 DEF Wake!set, Wake!OneWaitPerWakeUp
<1>6. CASE UNCHANGED Wake!vars
  BY <1>6 DEF Wake!vars, Wake!OneWaitPerWakeUp
<1> QED
  BY <1>1, <1>2, <1>3, <1>4, <1>5, <1>6 DEF Wake!Next, Wake!Step

\* No two waits end early on one wakeUp(), and none ends early without one.
LEMMA WakeableWaits ==
    Wake!Spec => []Wake!OneWaitPerWakeUp
<1>1. Wake!Init => Protected /\ Wake!OneWaitPerWakeUp
  BY DEF Wake!Init, Protected, Holding, Wake!OneWaitPerWakeUp
<1>2. Wake!TypeOK /\ Protected /\ [Wake!Next]_(Wake!vars) => Protected'
  BY ProtectedStep
<1>3. Wake!TypeOK /\ Protected /\ Wake!OneWaitPerWakeUp /\ [Wake!Next]_(Wake!vars)
         => Wake!OneWaitPerWakeUp'
  BY OneWaitStep
<1> QED
  BY <1>1, <1>2, <1>3, WakeableTypes, PTL DEF Wake!Spec

---------------------------------------------------------------------------
(* Backed: types                                                             *)

LEMMA BackedSets ==
    ASSUME NEW S
    PROVE  Back!IsFiniteSet(S) = IsFiniteSet(S) /\ Back!Cardinality(S) = Cardinality(S)
BY DEF IsFiniteSet, Back!IsFiniteSet, Cardinality, Back!Cardinality

LEMMA BackedFacts ==
    /\ Nobody \notin Sharer
    /\ IsFiniteSet(Sharer)
    /\ MaxChanges \in Nat
    /\ Nothing \notin Back!Values
BY BackedAssumption, BackedSets DEF Back!BackedConstants

\* The bound leaves room for each clear() that is under way.
ChangesWithinBound == value + Cardinality(Back!Clearing) <= MaxChanges

LEMMA ClearingFinite ==
    IsFiniteSet(Back!Clearing) /\ Cardinality(Back!Clearing) \in Nat
<1>1. IsFiniteSet(Back!Clearing)
  BY BackedFacts, FS_Subset DEF Back!Clearing
<1> QED
  BY <1>1, FS_CardinalityType

\* The steps that leave the value, and those on their way to change it, alone.
LEMMA ClearingStays ==
    ASSUME Back!TypeOK, NEW t \in Sharer,
           Back!enter(t) \/ Back!get(t) \/ Back!storeSnapshot(t) \/ Back!storeLive(t)
           \/ Back!leave(t)
    PROVE  Back!Clearing' = Back!Clearing /\ value' = value
<1> USE DEF Back!TypeOK, Back!Call, Back!Clearing, Back!GoTo
<1>1. CASE Back!enter(t)
  <2>1. call[t].op = "clear" => Back!FirstStep(call[t].op) = "wipe"
    BY DEF Back!FirstStep
  <2> QED
    BY <1>1, <2>1 DEF Back!enter
<1>2. CASE Back!get(t)
  BY <1>2 DEF Back!get
<1>3. CASE Back!storeSnapshot(t)
  BY <1>3 DEF Back!storeSnapshot, Back!In
<1>4. CASE Back!storeLive(t)
  BY <1>4 DEF Back!storeLive, Back!In, Back!NoCall
<1>5. CASE Back!leave(t)
  BY <1>5 DEF Back!leave, Back!NoCall
<1> QED
  BY <1>1, <1>2, <1>3, <1>4, <1>5

\* A call keeps its record type in the steps that move it on.
LEMMA CallTypes ==
    ASSUME Back!TypeOK, NEW t \in Sharer,
           \/ Back!enter(t) \/ Back!get(t) \/ Back!storeSnapshot(t) \/ Back!storeLive(t)
           \/ Back!wipe(t) \/ Back!leave(t)
           \/ \E op \in {"backed", "record", "invalidate", "clear", "current"} : Back!start(t, op)
    PROVE  call' \in [Sharer -> Back!Call]
<1> USE BackedFacts DEF Back!TypeOK, Back!Call, Back!GoTo, Back!Values
<1>1. CASE Back!enter(t)
  <2>1. call[t].op \in {"backed", "record", "invalidate", "clear"}
    BY <1>1 DEF Back!enter
  <2>2. Back!FirstStep(call[t].op) \in {"get", "leave", "wipe"}
    BY <2>1 DEF Back!FirstStep
  <2> QED
    BY <1>1, <2>2 DEF Back!enter
<1>2. CASE Back!get(t)
  BY <1>2 DEF Back!get
<1>3. CASE Back!storeSnapshot(t) \/ Back!wipe(t)
  BY <1>3 DEF Back!storeSnapshot, Back!wipe
<1>4. CASE Back!storeLive(t) \/ Back!leave(t)
  BY <1>4 DEF Back!storeLive, Back!leave, Back!NoCall
<1>5. ASSUME NEW op \in {"backed", "record", "invalidate", "clear", "current"}, Back!start(t, op)
      PROVE  call' \in [Sharer -> Back!Call]
  BY <1>5 DEF Back!start
<1> QED
  BY <1>1, <1>2, <1>3, <1>4, <1>5

\* start() of clear() takes its place within the bound.
LEMMA StartStep ==
    ASSUME Back!TypeOK, ChangesWithinBound, NEW t \in Sharer,
           NEW op \in {"backed", "record", "invalidate", "clear", "current"}, Back!start(t, op)
    PROVE  Back!TypeOK' /\ ChangesWithinBound'
<1> USE DEF Back!TypeOK, Back!Call
<1>1. Back!TypeOK'
  BY CallTypes DEF Back!start
<1>2. CASE op = "clear"
  <2>1. Back!Clearing' = Back!Clearing \cup {t} /\ t \notin Back!Clearing
    BY <1>2 DEF Back!start, Back!Clearing, Back!NoCall
  <2>2. Cardinality(Back!Clearing') = Cardinality(Back!Clearing) + 1
    BY <2>1, ClearingFinite, FS_AddElement
  <2> QED
    BY BackedFacts, BackedSets, <1>1, <1>2, <2>2, ClearingFinite
       DEF Back!start, Back!MayChange, ChangesWithinBound, Back!Values
<1>3. CASE op # "clear"
  <2>1. Back!Clearing' = Back!Clearing
    BY <1>3 DEF Back!start, Back!Clearing, Back!NoCall
  <2> QED
    BY <1>1, <2>1 DEF Back!start, ChangesWithinBound
<1> QED
  BY <1>2, <1>3

\* wipe() of clear() gives its place up.
LEMMA WipeStep ==
    ASSUME Back!TypeOK, ChangesWithinBound, NEW t \in Sharer, Back!wipe(t)
    PROVE  Back!TypeOK' /\ ChangesWithinBound'
<1> USE DEF Back!TypeOK, Back!Call, Back!GoTo
<1>1. call' \in [Sharer -> Back!Call] /\ cache' = Nothing
  BY CallTypes DEF Back!wipe
<1>2. CASE Back!In(t, "invalidate", "wipe")
  <2>1. Back!Clearing' = Back!Clearing /\ value' = value
    BY <1>2 DEF Back!wipe, Back!In, Back!Clearing
  <2> QED
    BY <1>1, <2>1 DEF Back!wipe, ChangesWithinBound
<1>3. CASE Back!In(t, "clear", "wipe")
  <2>1. t \in Back!Clearing /\ Back!Clearing' = Back!Clearing \ {t} /\ value' = value + 1
    BY <1>3 DEF Back!wipe, Back!In, Back!Clearing
  <2>2. /\ Cardinality(Back!Clearing') = Cardinality(Back!Clearing) - 1
        /\ Cardinality(Back!Clearing') \in Nat
    BY <2>1, ClearingFinite, FS_RemoveElement, FS_CardinalityType
  <2>3. value' \in Back!Values /\ ChangesWithinBound'
    BY BackedFacts, <2>1, <2>2, ClearingFinite DEF ChangesWithinBound, Back!Values
  <2> QED
    BY <1>1, <2>3 DEF Back!wipe
<1> QED
  BY <1>2, <1>3 DEF Back!wipe

LEMMA BackedTypeStep ==
    Back!TypeOK /\ ChangesWithinBound /\ [Back!Next]_(Back!vars)
        => Back!TypeOK' /\ ChangesWithinBound'
<1> SUFFICES ASSUME Back!TypeOK, ChangesWithinBound, [Back!Next]_(Back!vars)
             PROVE  Back!TypeOK' /\ ChangesWithinBound'
  OBVIOUS
<1>1. CASE Back!change
  <2>1. Back!Clearing' = Back!Clearing
    BY <1>1 DEF Back!change, Back!Clearing
  <2> QED
    BY BackedFacts, BackedSets, <1>1, <2>1, ClearingFinite
       DEF Back!TypeOK, Back!change, Back!MayChange, ChangesWithinBound, Back!Values
<1>2. ASSUME NEW t \in Sharer,
             Back!enter(t) \/ Back!get(t) \/ Back!storeSnapshot(t) \/ Back!storeLive(t)
             \/ Back!leave(t)
      PROVE  Back!TypeOK' /\ ChangesWithinBound'
  <2>1. Back!Clearing' = Back!Clearing /\ value' = value
    BY <1>2, ClearingStays
  <2>2. call' \in [Sharer -> Back!Call]
    BY <1>2, CallTypes
  <2>3. /\ cache' \in Back!Values \cup {Nothing}
        /\ live' \in Back!Values
        /\ mutex' \in Sharer \cup {Nobody}
        /\ sure' \in Back!Values
    BY <1>2
       DEF Back!TypeOK, Back!Call, Back!enter, Back!get, Back!storeSnapshot, Back!storeLive,
           Back!leave
  <2> QED
    BY <2>1, <2>2, <2>3 DEF Back!TypeOK, ChangesWithinBound
<1>3. CASE UNCHANGED Back!vars
  BY <1>3 DEF Back!vars, Back!TypeOK, ChangesWithinBound, Back!Clearing
<1> QED
  BY <1>1, <1>2, <1>3, StartStep, WipeStep DEF Back!Next

\* Every variable keeps its type; the bound on the changes of the value is kept
\* although it is tested when clear() begins.
LEMMA BackedTypes ==
    Back!Spec => [](Back!TypeOK /\ ChangesWithinBound)
<1>1. Back!Init => Back!TypeOK /\ ChangesWithinBound
  <2> SUFFICES ASSUME Back!Init PROVE Back!TypeOK /\ ChangesWithinBound
    OBVIOUS
  <2>1. Back!Clearing = {}
    BY DEF Back!Init, Back!Clearing, Back!NoCall
  <2>2. Cardinality(Back!Clearing) = 0
    BY <2>1, FS_EmptySet
  <2>3. Back!NoCall \in Back!Call
    BY BackedFacts DEF Back!NoCall, Back!Call, Back!Values
  <2> QED
    BY BackedFacts, <2>2, <2>3 DEF Back!Init, Back!TypeOK, ChangesWithinBound, Back!Values
<1>2. Back!TypeOK /\ ChangesWithinBound /\ [Back!Next]_(Back!vars)
         => (Back!TypeOK /\ ChangesWithinBound)'
  BY BackedTypeStep
<1> QED
  BY <1>1, <1>2, PTL DEF Back!Spec

---------------------------------------------------------------------------
(* Backed: mutual exclusion, and what it protects                            *)

\* Between taking the mutex and giving it back.
Inside(t) == call[t].op \notin {"none", "current"} /\ call[t].pc # "enter"

\* What a call may rely on: nobody else is inside; what its getter has read is
\* new enough, though it is not the value any more; and what it has done to the
\* snapshot is still there when it leaves.
Relies(t) ==
    /\ Inside(t) => mutex = t
    /\ call[t].from <= value
    /\ call[t].op = "current" => call[t].pc \in {"get", "store"}
    /\ call[t].op \in {"backed", "record"} /\ call[t].pc = "store" =>
          call[t].got >= sure /\ call[t].got >= call[t].from
    /\ call[t].op \in {"record", "invalidate", "clear"} /\ call[t].pc = "leave" =>
          cache = Nothing \/ cache >= call[t].from

SnapshotInv == /\ sure <= value
          /\ Back!SnapshotIsFresh
          /\ \A t \in Sharer : Relies(t)

\* Nobody else is inside with the owner of the mutex, or when it is taken.
LEMMA Alone ==
    ASSUME SnapshotInv, NEW t \in Sharer, Inside(t) \/ mutex = Nobody,
           NEW u \in Sharer, u # t
    PROVE  ~Inside(u)
BY BackedFacts DEF SnapshotInv, Relies

LEMMA FreshStep ==
    Back!TypeOK /\ Back!TypeOK' /\ SnapshotInv /\ [Back!Next]_(Back!vars) => SnapshotInv'
<1> SUFFICES ASSUME Back!TypeOK, Back!TypeOK', SnapshotInv, [Back!Next]_(Back!vars)
             PROVE  SnapshotInv'
  OBVIOUS
<1> USE DEF Back!TypeOK, Back!Call, Back!Values
<1>1. CASE Back!change
  BY BackedFacts, <1>1 DEF Back!change, SnapshotInv, Relies, Inside, Back!SnapshotIsFresh
<1>2. ASSUME NEW t \in Sharer,
             NEW op \in {"backed", "record", "invalidate", "clear", "current"},
             Back!start(t, op)
      PROVE  SnapshotInv'
  <2>1. /\ call'[t].op = op /\ call'[t].from = value
        /\ call'[t].pc = IF op = "current" THEN "get" ELSE "enter"
        /\ \A u \in Sharer \ {t} : call'[u] = call[u]
    BY <1>2 DEF Back!start, Back!NoCall
  <2>2. Relies(t)'
    BY <1>2, <2>1 DEF Back!start, Relies, Inside
  <2>3. \A u \in Sharer \ {t} : Relies(u)'
    BY <1>2, <2>1 DEF Back!start, SnapshotInv, Relies, Inside
  <2> QED
    BY <1>2, <2>2, <2>3 DEF Back!start, SnapshotInv, Back!SnapshotIsFresh
<1>3. ASSUME NEW t \in Sharer, Back!enter(t) PROVE SnapshotInv'
  <2>1. \A u \in Sharer : ~Inside(u)
    BY BackedFacts, <1>3 DEF Back!enter, SnapshotInv, Relies
  <2>2. /\ call[t].op \in {"backed", "record", "invalidate", "clear"}
        /\ call'[t] = [call[t] EXCEPT !.pc = Back!FirstStep(call[t].op)]
        /\ \A u \in Sharer \ {t} : call'[u] = call[u]
    BY <1>3 DEF Back!enter, Back!GoTo
  <2>3. Back!FirstStep(call[t].op) \in {"get", "wipe"} \/ call[t].op = "backed"
    BY <2>2 DEF Back!FirstStep
  <2>4. Back!FirstStep(call[t].op) # "store"
    BY <2>2 DEF Back!FirstStep
  <2>5. Relies(t)'
    BY <1>3, <2>2, <2>3, <2>4 DEF Back!enter, SnapshotInv, Relies, Inside
  <2>6. \A u \in Sharer \ {t} : Relies(u)'
    BY <1>3, <2>1, <2>2 DEF Back!enter, SnapshotInv, Relies, Inside
  <2> QED
    BY <1>3, <2>5, <2>6 DEF Back!enter, SnapshotInv, Back!SnapshotIsFresh
<1>4. ASSUME NEW t \in Sharer, Back!get(t) PROVE SnapshotInv'
  <2>1. /\ call'[t] = [call[t] EXCEPT !.pc = "store", !.got = value]
        /\ \A u \in Sharer \ {t} : call'[u] = call[u]
    BY <1>4 DEF Back!get
  <2>2. Relies(t)'
    BY <1>4, <2>1 DEF Back!get, SnapshotInv, Relies, Inside
  <2>3. \A u \in Sharer \ {t} : Relies(u)'
    BY <1>4, <2>1 DEF Back!get, SnapshotInv, Relies, Inside
  <2> QED
    BY <1>4, <2>2, <2>3 DEF Back!get, SnapshotInv, Back!SnapshotIsFresh
<1>5. ASSUME NEW t \in Sharer, Back!storeSnapshot(t) PROVE SnapshotInv'
  <2>1. /\ call[t].op \in {"backed", "record"} /\ call[t].pc = "store"
        /\ call'[t] = [call[t] EXCEPT !.pc = "leave"]
        /\ \A u \in Sharer \ {t} : call'[u] = call[u]
        /\ cache' = call[t].got /\ value' = value /\ sure' = sure /\ mutex' = mutex
    BY <1>5 DEF Back!storeSnapshot, Back!In, Back!GoTo
  <2>2. Relies(t)' /\ Back!SnapshotIsFresh'
    BY <2>1 DEF SnapshotInv, Relies, Inside, Back!SnapshotIsFresh
  <2>3. \A u \in Sharer \ {t} : Relies(u)'
    BY <2>1, Alone DEF SnapshotInv, Relies, Inside
  <2> QED
    BY <2>1, <2>2, <2>3 DEF SnapshotInv
<1>6. ASSUME NEW t \in Sharer, Back!storeLive(t) PROVE SnapshotInv'
  <2>1. /\ call'[t] = Back!NoCall
        /\ \A u \in Sharer \ {t} : call'[u] = call[u]
    BY <1>6 DEF Back!storeLive
  <2>2. Relies(t)'
    BY <1>6, <2>1 DEF Back!storeLive, Relies, Inside, Back!NoCall
  <2>3. \A u \in Sharer \ {t} : Relies(u)'
    BY <1>6, <2>1 DEF Back!storeLive, SnapshotInv, Relies, Inside
  <2> QED
    BY <1>6, <2>2, <2>3 DEF Back!storeLive, SnapshotInv, Back!SnapshotIsFresh
<1>7. ASSUME NEW t \in Sharer, Back!wipe(t) PROVE SnapshotInv'
  <2>1. /\ call[t].op \in {"invalidate", "clear"} /\ call[t].pc = "wipe"
        /\ call'[t] = [call[t] EXCEPT !.pc = "leave"]
        /\ \A u \in Sharer \ {t} : call'[u] = call[u]
        /\ cache' = Nothing /\ value <= value' /\ sure' = sure /\ mutex' = mutex
    BY <1>7 DEF Back!wipe, Back!In, Back!GoTo
  <2>2. Relies(t)' /\ Back!SnapshotIsFresh'
    BY <2>1 DEF SnapshotInv, Relies, Inside, Back!SnapshotIsFresh
  <2>3. \A u \in Sharer \ {t} : Relies(u)'
    BY <2>1, Alone DEF SnapshotInv, Relies, Inside
  <2> QED
    BY <2>1, <2>2, <2>3 DEF SnapshotInv
<1>8. ASSUME NEW t \in Sharer, Back!leave(t) PROVE SnapshotInv'
  <2>1. /\ call[t].op \in {"backed", "record", "invalidate", "clear"}
        /\ Inside(t) /\ call'[t] = Back!NoCall
        /\ \A u \in Sharer \ {t} : call'[u] = call[u] /\ ~Inside(u)
        /\ value' = value /\ cache' = cache
    BY <1>8, Alone DEF Back!leave, SnapshotInv, Relies, Inside
  <2>2. Relies(t)'
    BY <2>1 DEF Relies, Inside, Back!NoCall
  <2>3. \A u \in Sharer \ {t} : Relies(u)'
    BY <2>1 DEF SnapshotInv, Relies, Inside
  <2>4. sure' <= value' /\ Back!SnapshotIsFresh'
    BY <1>8, <2>1 DEF Back!leave, SnapshotInv, Relies, Back!SnapshotIsFresh
  <2> QED
    BY <2>2, <2>3, <2>4 DEF SnapshotInv
<1>9. CASE UNCHANGED Back!vars
  BY <1>9 DEF Back!vars, SnapshotInv, Relies, Inside, Back!SnapshotIsFresh
<1> QED
  BY <1>1, <1>2, <1>3, <1>4, <1>5, <1>6, <1>7, <1>8, <1>9 DEF Back!Next

\* Once invalidate(), record() or clear() has returned, no snapshot is older
\* than the call, whatever a backed() under way had already read: the getter
\* runs under the mutex, so what it returns is stored before anybody else can
\* drop the snapshot.
LEMMA BackedSnapshots ==
    Back!Spec => []Back!SnapshotIsFresh
<1>1. Back!Init => SnapshotInv
  BY DEF Back!Init, Back!NoCall, SnapshotInv, Relies, Inside, Back!SnapshotIsFresh
<1>2. Back!TypeOK /\ Back!TypeOK' /\ SnapshotInv /\ [Back!Next]_(Back!vars) => SnapshotInv'
  BY FreshStep
<1>3. SnapshotInv => Back!SnapshotIsFresh
  BY DEF SnapshotInv
<1> QED
  BY <1>1, <1>2, <1>3, BackedTypes, PTL DEF Back!Spec

---------------------------------------------------------------------------
(* Sticky                                                                    *)

\* What set() has made visible at once has not been assigned to before: the
\* assignments that follow count the interval from a later time.
StickyInv == Stick!TypeOK /\ (prompt => since <= change)

\* The values shown before and after a step.
LEMMA Showing ==
    /\ Stick!Shown  = IF now - change >= Stickiness THEN newValue ELSE oldValue
    /\ Stick!Shown' = IF now' - change' >= Stickiness THEN newValue' ELSE oldValue'
BY DEF Stick!Shown, Stick!get

LEMMA StickyNumbers ==
    StickyInv => /\ now \in 0 .. MaxTime /\ change \in 0 .. now /\ since \in 0 .. now
                 /\ MaxTime \in Nat /\ Stickiness \in Nat
BY StickyAssumption DEF StickyInv, Stick!TypeOK, Stick!StickyConstants

\* What the steps do to the history.
LEMMA StickySetStep == ASSUME StickyInv, NEW v \in T, Stick!set(v) PROVE StickyInv'
<1>1. /\ now \in 0 .. MaxTime /\ change \in 0 .. now /\ since \in 0 .. now
      /\ MaxTime \in Nat /\ Stickiness \in Nat
  BY StickyNumbers
<1>2. oldValue' \in T /\ newValue' \in T
  BY DEF Stick!set, Stick!override, StickyInv, Stick!TypeOK
<1>3. /\ now' = now
      /\ \/ oldValue' = oldValue /\ newValue' = newValue /\ change' = change
         \/ change' = now
  BY DEF Stick!set
<1>4. \/ since' = since /\ prompt' = prompt
      \/ since' = now /\ prompt' = TRUE /\ change' = now
  BY <1>3, Showing DEF Stick!set
<1>5. now' \in 0 .. MaxTime /\ change' \in 0 .. now' /\ since' \in 0 .. now'
  BY <1>1, <1>3, <1>4
<1>6. prompt' \in BOOLEAN
  BY <1>4 DEF StickyInv, Stick!TypeOK
<1>7. prompt' => since' <= change'
  <2>1. CASE since' = since /\ prompt' = prompt
    BY <1>1, <1>3, <2>1 DEF StickyInv
  <2>2. CASE since' = now /\ change' = now
    BY <1>1, <2>2
  <2> QED
    BY <1>4, <2>1, <2>2
<1> QED
  BY <1>2, <1>5, <1>6, <1>7 DEF StickyInv, Stick!TypeOK

LEMMA StickyTickStep == StickyInv /\ Stick!tick => StickyInv'
<1> SUFFICES ASSUME StickyInv, Stick!tick PROVE StickyInv'
  OBVIOUS
<1>1. /\ now \in 0 .. MaxTime /\ change \in 0 .. now /\ since \in 0 .. now
      /\ MaxTime \in Nat /\ Stickiness \in Nat
  BY StickyNumbers
<1>2. PICK n \in now + 1 .. MaxTime : n = now'
  BY DEF Stick!tick
<1>3. oldValue' = oldValue /\ newValue' = newValue /\ change' = change
  BY DEF Stick!tick
<1>4. Stick!Shown' = IF n - change >= Stickiness THEN newValue ELSE oldValue
  BY <1>2, <1>3, Showing
<1>5. Stick!Shown' # Stick!Shown => n - change >= Stickiness
  BY <1>1, <1>4, Showing
<1>6. \/ since' = since /\ prompt' = prompt
      \/ since' = change + Stickiness /\ prompt' = FALSE /\ n - change >= Stickiness
  BY <1>5 DEF Stick!tick
<1>7. n \in 0 .. MaxTime /\ change' \in 0 .. n /\ since' \in 0 .. n
  BY <1>1, <1>3, <1>6
<1>8. prompt' \in BOOLEAN
  BY <1>6 DEF StickyInv, Stick!TypeOK
<1>9. prompt' => since' <= change'
  BY <1>3, <1>6 DEF StickyInv
<1>10. oldValue' \in T /\ newValue' \in T
  BY <1>3 DEF StickyInv, Stick!TypeOK
<1> QED
  BY <1>2, <1>7, <1>8, <1>9, <1>10 DEF StickyInv, Stick!TypeOK

LEMMA StickyStep == StickyInv /\ [Stick!Next]_(Stick!vars) => StickyInv'
<1> SUFFICES ASSUME StickyInv, [Stick!Next]_(Stick!vars) PROVE StickyInv'
  OBVIOUS
<1>1. CASE Stick!init
  <2>1. now' = now /\ change' = 0 /\ since' = now /\ oldValue' = Default /\ newValue' = Default
    BY <1>1 DEF Stick!init
  <2>2. now' \in 0 .. MaxTime /\ change' \in 0 .. now' /\ since' \in 0 .. now'
    BY <2>1, StickyNumbers
  <2>3. prompt' = FALSE
    BY <1>1 DEF Stick!init
  <2>4. Default \in T
    BY StickyAssumption DEF Stick!StickyConstants
  <2> QED
    BY <2>1, <2>2, <2>3, <2>4 DEF StickyInv, Stick!TypeOK
<1>2. CASE UNCHANGED Stick!vars
  BY <1>2 DEF Stick!vars, StickyInv, Stick!TypeOK
<1> QED
  BY <1>1, <1>2, StickySetStep, StickyTickStep DEF Stick!Next

LEMMA StickyInvariant == Stick!Spec => []StickyInv
<1>1. Stick!Init => StickyInv
  <2> SUFFICES ASSUME Stick!Init PROVE StickyInv
    OBVIOUS
  <2>1. now \in 0 .. MaxTime /\ change \in 0 .. now /\ since \in 0 .. now
    BY StickyAssumption DEF Stick!Init, Stick!StickyConstants
  <2>2. prompt = FALSE /\ oldValue \in T /\ newValue \in T
    BY StickyAssumption DEF Stick!Init, Stick!StickyConstants
  <2> QED
    BY <2>1, <2>2 DEF StickyInv, Stick!TypeOK
<1> QED
  BY <1>1, StickyStep, PTL DEF Stick!Spec

\* A value that became visible at once is not replaced before its time.
LEMMA VisibleStep ==
    StickyInv /\ [Stick!Next]_(Stick!vars)
        => [(Stick!Shown' # Stick!Shown /\ prompt /\ ~Stick!init)
               => now' - since >= Stickiness]_(Stick!vars)
<1> SUFFICES ASSUME StickyInv, Stick!Next, Stick!Shown' # Stick!Shown, prompt, ~Stick!init
             PROVE  now' - since >= Stickiness
  OBVIOUS
<1>1. /\ now \in 0 .. MaxTime /\ change \in 0 .. now /\ since \in 0 .. now
      /\ MaxTime \in Nat /\ Stickiness \in Nat
  BY StickyNumbers
<1>2. since <= change
  BY DEF StickyInv
<1>3. ASSUME NEW v \in T, Stick!set(v) PROVE now' - since >= Stickiness
  <2>1. /\ now' = now
        /\ \/ oldValue' = oldValue /\ newValue' = newValue /\ change' = change
           \/ oldValue' = Stick!override(v) /\ newValue' = v /\ change' = now
    BY <1>3 DEF Stick!set
  <2>2. now - change >= Stickiness
    BY <1>1, <2>1, Showing DEF Stick!override
  <2> QED
    BY <1>1, <1>2, <2>1, <2>2
<1>4. CASE Stick!tick
  <2>1. PICK n \in now + 1 .. MaxTime : n = now'
    BY <1>4 DEF Stick!tick
  <2>2. Stick!Shown' = IF n - change >= Stickiness THEN newValue ELSE oldValue
    BY <1>4, <2>1, Showing DEF Stick!tick
  <2>3. n - change >= Stickiness
    BY <1>1, <2>2, Showing
  <2>4. n - since >= Stickiness
    BY <1>1, <1>2, <2>3
  <2> QED
    BY <2>1, <2>4
<1> QED
  BY <1>3, <1>4 DEF Stick!Next

---------------------------------------------------------------------------
(* Animated                                                                  *)

\* While a fade is on, what is left of it fits into the steps that are left,
\* even if each of them loses one unit to rounding.
FadeFits ==
    /\ delta = 0 => current = target
    /\ delta < 0 => target = 0 /\ current <= todo * (-delta - 1)
    /\ delta > 0 => target = maximum /\ maximum - current <= todo * (delta - 1)

FadeInv == Anim!TypeOK /\ FadeFits

\* Dividing by the number of steps is exact, and a step is more than the
\* rounding errors of all of them.
LEMMA StepSizes ==
    ASSUME NEW m \in Maxima, NEW n \in 1 .. MaxSteps
    PROVE  /\ m \in Nat /\ m \div n \in Nat /\ m \div n \in Anim!Sizes
           /\ m = n * (m \div n)
           /\ m = 0 \/ n < m \div n
<1> USE AnimatedAssumption DEF Anim!AnimatedConstants
<1>1. m \in Nat /\ n \in Nat \ {0} /\ m % n = 0 /\ (m = 0 \/ n < m \div n)
  OBVIOUS
<1>2. m \div n \in Nat /\ m = (n * (m \div n)) + (m % n)
  BY <1>1
<1>3. m \div n \in Anim!Sizes
  BY DEF Anim!Sizes
<1> QED
  BY <1>1, <1>2, <1>3

LEMMA SizesAreNumbers == Anim!Sizes \subseteq Nat
BY StepSizes DEF Anim!Sizes

LEMMA FadeTypes == FadeInv => /\ maximum \in Nat /\ current \in 0 .. maximum /\ delta \in Int
                              /\ todo \in Nat /\ target \in Nat
<1> SUFFICES ASSUME FadeInv
             PROVE  /\ maximum \in Nat /\ current \in 0 .. maximum /\ delta \in Int
                    /\ todo \in Nat /\ target \in Nat
  OBVIOUS
<1> USE AnimatedAssumption DEF FadeInv, Anim!TypeOK, Anim!AnimatedConstants
<1>1. maximum \in Nat
  OBVIOUS
<1>2. delta \in Int
  BY SizesAreNumbers
<1> QED
  BY <1>1, <1>2

\* A new fade has one step more than it needs; that is room enough for the
\* rounding errors of all the others.
LEMMA FadeStarts ==
    ASSUME FadeInv, NEW n \in 0 .. MaxSteps, Anim!fadeOut(n) \/ Anim!fadeIn(n)
    PROVE  FadeInv'
<1> DEFINE d == maximum \div n
<1>1. /\ maximum \in Nat /\ current \in 0 .. maximum /\ maximum \in Maxima
      /\ maximum' = maximum
  BY FadeTypes DEF FadeInv, Anim!TypeOK, Anim!fadeOut, Anim!fadeIn, Anim!Fade
<1>2. CASE n = 0
  <2>1. current' = target' /\ delta' = 0 /\ todo' = 0 /\ target' \in {0, maximum}
    BY <1>2 DEF Anim!fadeOut, Anim!fadeIn, Anim!Fade
  <2> QED
    BY <1>1, <2>1, AnimatedAssumption
       DEF FadeInv, FadeFits, Anim!TypeOK, Anim!Sizes, Anim!AnimatedConstants
<1>3. CASE n # 0
  <2>1. n \in 1 .. MaxSteps /\ MaxSteps \in Nat
    BY <1>3, AnimatedAssumption DEF Anim!AnimatedConstants
  <2>2. /\ d \in Nat /\ d \in Anim!Sizes
        /\ maximum = n * d /\ (maximum = 0 \/ n < d)
    BY <1>1, <2>1, StepSizes
  <2> HIDE DEF d
  <2>3. todo' = n + 1 /\ current' = current
    BY <1>3 DEF Anim!fadeOut, Anim!fadeIn, Anim!Fade
  <2>4. maximum <= (n + 1) * (d - 1) \/ maximum = 0
    <3>1. (n + 1) * (d - 1) = n * d + (d - 1 - n)
      BY <2>1, <2>2
    <3> QED
      BY <2>1, <2>2, <3>1
  <2>5. d = 0 <=> maximum = 0
    BY <2>1, <2>2
  <2>6. \/ delta' = -d /\ target' = 0
        \/ delta' = d /\ target' = maximum
    BY <1>3 DEF Anim!fadeOut, Anim!fadeIn, Anim!Fade, d
  <2>7. Anim!TypeOK'
    BY <1>1, <2>1, <2>2, <2>3, <2>6 DEF Anim!TypeOK
  <2>8. FadeFits'
    BY <1>1, <2>1, <2>2, <2>3, <2>4, <2>5, <2>6 DEF FadeFits
  <2> QED
    BY <2>7, <2>8 DEF FadeInv
<1> QED
  BY <1>2, <1>3

\* A step of a fade gets nearer to its end by what it adds less one unit, and
\* not past the end.
LEMMA FadeShifts == FadeInv /\ Anim!shift => FadeInv'
<1> SUFFICES ASSUME FadeInv, Anim!shift PROVE FadeInv'
  OBVIOUS
<1>1. /\ maximum \in Nat /\ current \in 0 .. maximum /\ delta \in Int
      /\ todo \in Nat /\ target \in Nat
  BY FadeTypes
<1>2. /\ maximum' = maximum /\ delta' = delta /\ target' = target
      /\ todo' = IF todo = 0 THEN 0 ELSE todo - 1
  BY DEF Anim!shift
<1>3. delta # 0 => Anim!Moved = current + delta - 1 .. current + delta + 1
  BY DEF Anim!Moved
<1>4. FadeFits
  BY DEF FadeInv
<1>5. current' \in 0 .. maximum /\ FadeFits'
  <2>1. CASE delta < 0 /\ current # 0
    <3>1. PICK x \in current + delta - 1 .. current + delta + 1 :
             current' = IF x > 0 THEN x ELSE 0
      BY <1>1, <1>3, <2>1 DEF Anim!shift, Anim!notBelowZero
    <3>2. todo # 0 /\ current <= todo * (-delta - 1)
      BY <1>1, <1>4, <2>1 DEF FadeFits
    <3>3. (todo - 1) * (-delta - 1) = todo * (-delta - 1) - (-delta - 1)
      BY <1>1
    <3>4. 0 <= (todo - 1) * (-delta - 1)
      BY <1>1, <2>1, <3>2
    <3> QED
      BY <1>1, <1>2, <1>4, <2>1, <3>1, <3>2, <3>3, <3>4 DEF FadeFits
  <2>2. CASE delta > 0 /\ current # maximum
    <3>1. PICK x \in current + delta - 1 .. current + delta + 1 :
             current' = IF x < maximum THEN x ELSE maximum
      BY <1>1, <1>3, <2>2 DEF Anim!shift
    <3>2. todo # 0 /\ maximum - current <= todo * (delta - 1)
      BY <1>1, <1>4, <2>2 DEF FadeFits
    <3>3. (todo - 1) * (delta - 1) = todo * (delta - 1) - (delta - 1)
      BY <1>1
    <3>4. 0 <= (todo - 1) * (delta - 1)
      BY <1>1, <2>2, <3>2
    <3> QED
      BY <1>1, <1>2, <1>4, <2>2, <3>1, <3>2, <3>3, <3>4 DEF FadeFits
  <2>3. CASE ~(delta < 0 /\ current # 0) /\ ~(delta > 0 /\ current # maximum)
    <3>1. current' = current
      BY <2>3 DEF Anim!shift
    <3>2. delta < 0 => 0 <= todo' * (-delta - 1)
      BY <1>1, <1>2
    <3>3. delta > 0 => 0 <= todo' * (delta - 1)
      BY <1>1, <1>2
    <3> QED
      BY <1>1, <1>2, <1>4, <2>3, <3>1, <3>2, <3>3 DEF FadeFits
  <2> QED
    BY <2>1, <2>2, <2>3
<1>6. Anim!TypeOK'
  <2>1. todo \in 0 .. MaxSteps + 1 /\ MaxSteps \in Nat
    BY AnimatedAssumption DEF FadeInv, Anim!TypeOK, Anim!AnimatedConstants
  <2>2. todo' \in 0 .. MaxSteps + 1
    BY <1>2, <2>1
  <2> QED
    BY <1>2, <1>5, <2>2 DEF FadeInv, Anim!TypeOK
<1> QED
  BY <1>5, <1>6 DEF FadeInv

LEMMA FadeStep == FadeInv /\ [Anim!Next]_(Anim!vars) => FadeInv'
<1> SUFFICES ASSUME FadeInv, [Anim!Next]_(Anim!vars) PROVE FadeInv'
  OBVIOUS
<1>1. ASSUME NEW m \in Maxima, Anim!assign(m) PROVE FadeInv'
  <2>1. m \in Nat /\ MaxSteps \in Nat
    BY AnimatedAssumption DEF Anim!AnimatedConstants
  <2> QED
    BY <1>1, <2>1 DEF Anim!assign, FadeInv, FadeFits, Anim!TypeOK, Anim!Sizes
<1>2. CASE UNCHANGED Anim!vars
  BY <1>2 DEF Anim!vars, FadeInv, FadeFits, Anim!TypeOK
<1> QED
  BY <1>1, <1>2, FadeStarts, FadeShifts DEF Anim!Next

LEMMA FadeInvariant == Anim!Spec => []FadeInv
<1>1. Anim!Init => FadeInv
  <2>1. One \in Maxima /\ One \in Nat /\ MaxSteps \in Nat
    BY AnimatedAssumption DEF Anim!AnimatedConstants
  <2> QED
    BY <2>1 DEF Anim!Init, FadeInv, FadeFits, Anim!TypeOK, Anim!Sizes
<1> QED
  BY <1>1, FadeStep, PTL DEF Anim!Spec

LEMMA FadeEnds == FadeInv => Anim!FadeArrives
<1> SUFFICES ASSUME FadeInv, todo = 0 PROVE current = target
  BY DEF Anim!FadeArrives
<1>1. current \in 0 .. maximum /\ maximum \in Nat /\ delta \in Int
  BY FadeTypes
<1>2. 0 * (-delta - 1) = 0 /\ 0 * (delta - 1) = 0
  BY <1>1
<1> QED
  BY <1>1, <1>2 DEF FadeInv, FadeFits

---------------------------------------------------------------------------
(* Clock                                                                     *)

\* What the clock would show now is the time it ran.
ClockInv == Clk!TypeOK /\ ran = Clk!updated

\* The calls that bring elapsed up to date.
ClockCall == Clk!getElapsedTime \/ Clk!stop \/ Clk!go \/ Clk!restart

LEMMA ClockCallStep == ClockInv /\ ClockCall => ClockInv' /\ shown' = ran
<1> SUFFICES ASSUME ClockInv, ClockCall PROVE ClockInv' /\ shown' = ran
  OBVIOUS
<1>1. /\ shown' = ran /\ start' = time /\ time' = time
      /\ \/ elapsed' = ran /\ ran' = ran
         \/ elapsed' = 0 /\ ran' = 0
  BY DEF ClockInv, ClockCall, Clk!getElapsedTime, Clk!stop, Clk!go, Clk!restart
<1>2. paused' \in BOOLEAN
  BY DEF ClockInv, Clk!TypeOK, ClockCall, Clk!getElapsedTime, Clk!stop, Clk!go, Clk!restart
<1>3. time \in 0 .. MaxTime /\ ran \in 0 .. time /\ MaxTime \in Nat
  BY ClockAssumption DEF ClockInv, Clk!TypeOK, Clk!ClockConstants
<1>4. /\ time' \in 0 .. MaxTime /\ start' \in 0 .. time' /\ elapsed' \in 0 .. time'
      /\ ran' \in 0 .. time' /\ shown' \in 0 .. time'
  BY <1>1, <1>3
<1>5. Clk!TypeOK'
  BY <1>2, <1>4 DEF Clk!TypeOK
<1>6. (Clk!updated)' = elapsed'
  <2>1. PICK e \in Nat : e = elapsed'
    BY <1>3, <1>4
  <2>2. (Clk!updated)' = IF paused' THEN e ELSE e + (time - time)
    BY <1>1, <2>1 DEF Clk!updated
  <2>3. e + (time - time) = e
    BY <1>3
  <2> QED
    BY <2>1, <2>2, <2>3
<1> QED
  BY <1>1, <1>5, <1>6 DEF ClockInv

LEMMA ClockStep == ClockInv /\ [Clk!Next]_(Clk!vars) => ClockInv'
<1> SUFFICES ASSUME ClockInv, [Clk!Next]_(Clk!vars) PROVE ClockInv'
  OBVIOUS
<1>1. CASE Clk!tick
  <2>1. /\ time \in 0 .. MaxTime /\ start \in 0 .. time /\ elapsed \in 0 .. time
        /\ ran \in 0 .. time /\ shown \in 0 .. time /\ MaxTime \in Nat
    BY ClockAssumption DEF ClockInv, Clk!TypeOK, Clk!ClockConstants
  <2>2. PICK n \in time + 1 .. MaxTime : n = time'
    BY <1>1 DEF Clk!tick
  <2>3. /\ start' = start /\ elapsed' = elapsed /\ shown' = shown /\ paused' = paused
        /\ ran' = IF paused THEN ran ELSE ran + (n - time)
    BY <1>1, <2>2 DEF Clk!tick
  <2>4. ran = IF paused THEN elapsed ELSE elapsed + (time - start)
    BY DEF ClockInv, Clk!updated
  <2>5. (Clk!updated)' = IF paused THEN elapsed ELSE elapsed + (n - start)
    BY <2>2, <2>3 DEF Clk!updated
  <2>6. ran' = (Clk!updated)'
    <3>1. elapsed + (time - start) + (n - time) = elapsed + (n - start)
      BY <2>1
    <3> QED
      BY <2>3, <2>4, <2>5, <3>1
  <2>7. ran' \in 0 .. n
    BY <2>1, <2>3
  <2>8. n \in 0 .. MaxTime /\ start \in 0 .. n /\ elapsed \in 0 .. n /\ shown \in 0 .. n
    BY <2>1
  <2>9. paused' \in BOOLEAN
    BY <2>3 DEF ClockInv, Clk!TypeOK
  <2>10. Clk!TypeOK'
    BY <2>2, <2>3, <2>7, <2>8, <2>9 DEF Clk!TypeOK
  <2> QED
    BY <2>6, <2>10 DEF ClockInv
<1>2. CASE UNCHANGED Clk!vars
  BY <1>2 DEF Clk!vars, ClockInv, Clk!TypeOK, Clk!updated
<1> QED
  BY <1>1, <1>2, ClockCallStep DEF Clk!Next, ClockCall

LEMMA ClockInvariant == Clk!Spec => []ClockInv
<1>1. Clk!Init => ClockInv
  <2> SUFFICES ASSUME Clk!Init PROVE ClockInv
    OBVIOUS
  <2>1. /\ time \in 0 .. MaxTime /\ start \in 0 .. time /\ elapsed \in 0 .. time
        /\ ran \in 0 .. time /\ shown \in 0 .. time
    BY ClockAssumption DEF Clk!Init, Clk!ClockConstants
  <2>2. paused \in BOOLEAN
    BY DEF Clk!Init
  <2>3. ran = Clk!updated
    BY DEF Clk!Init, Clk!updated
  <2> QED
    BY <2>1, <2>2, <2>3 DEF ClockInv, Clk!TypeOK
<1> QED
  BY <1>1, ClockStep, PTL DEF Clk!Spec

---------------------------------------------------------------------------
(* The composition                                                           *)

\* Every member of the five classes stays in its range, for all of the sets
\* and bounds that the classes are given.
THEOREM TypesCorrect == Spec => []TypeOK
<1>1. Init => part \in Parts
  BY DEF Init
<1>2. part \in Parts /\ [Next]_vars => (part \in Parts)'
  BY DEF Next, vars
<1>3. Spec => [](part \in Parts)
  BY <1>1, <1>2, PTL DEF Spec
<1>4. StickyInv => Stick!TypeOK
  BY DEF StickyInv
<1>5. FadeInv => Anim!TypeOK
  BY DEF FadeInv
<1>6. ClockInv => Clk!TypeOK
  BY DEF ClockInv
<1> QED
  BY <1>3, <1>4, <1>5, <1>6, PartsAsAlone, WakeableTypes, BackedTypes, StickyInvariant,
     FadeInvariant, ClockInvariant, PTL DEF TypeOK

\* While the flag is set, no thread sleeps without another on its way to wake
\* one or to take the flag: wakeUp() sets the flag under the mutex and notifies
\* after it, and a wait blocks and releases the mutex at once.
THEOREM SleepersAreWoken == Spec => []NobodySleepsOn
BY PartsAsAlone, WakeableSleepers, PTL DEF NobodySleepsOn

\* No two waits end early on one wakeUp(), and none ends early without one.
THEOREM WaitsHaveWakeUps == Spec => []OneWaitPerWakeUp
BY PartsAsAlone, WakeableWaits, PTL DEF OneWaitPerWakeUp

\* Once invalidate(), record() or clear() has returned, no snapshot is older
\* than the call, whatever a backed() under way had already read: the getter
\* runs under the mutex, so what it returns is stored before anybody else can
\* drop the snapshot.
THEOREM SnapshotsAreFresh == Spec => []SnapshotIsFresh
BY PartsAsAlone, BackedSnapshots, PTL DEF SnapshotIsFresh

\* What set() has made visible at once stays visible for the whole interval,
\* whatever the stickiness, however often set() is called meanwhile: each call
\* makes the interval start anew.
THEOREM ShownStaysVisible == Spec => StaysVisible
<1>1. Stick!Spec => Stick!StaysVisible
  BY StickyInvariant, VisibleStep, PTL DEF Stick!Spec, Stick!StaysVisible
<1> QED
  BY <1>1, PartsAsAlone DEF StaysVisible

\* A fade of any length, begun from wherever the one before was interrupted, is
\* where it should be after one step more than it was given, and stays there.
THEOREM FadesArrive == Spec => []FadeArrives
BY PartsAsAlone, FadeInvariant, FadeEnds, PTL DEF FadeArrives

\* Each call returns the time the clock ran since it was restarted, in whatever
\* order it is stopped, started, read and restarted.
THEOREM ClockCountsRunningTime == Spec => CountsRunningTime
<1>1. ClockInv => [ClockCall => shown' = ran]_(Clk!vars)
  BY ClockCallStep
<1>2. Clk!Spec => Clk!CountsRunningTime
  BY <1>1, ClockInvariant, PTL DEF Clk!Spec, Clk!CountsRunningTime, ClockCall
<1> QED
  BY <1>2, PartsAsAlone DEF CountsRunningTime
============================================================================
