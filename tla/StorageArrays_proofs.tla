------------------------ MODULE StorageArrays_proofs -----------------------
(* Proofs about the arrays of storage: SortedArray and ResizableRingBuffer,  *)
(* for every capacity, all keys and all elements.                            *)
EXTENDS StorageFiles_proofs, FiniteSetTheorems, NaturalsInduction

---------------------------------------------------------------------------
(* Natural numbers                                                           *)

\* Every set of numbers that is not empty has a least one.
LEMMA LeastNumber ==
    ASSUME NEW S \in SUBSET Nat, S # {}
    PROVE  \E x \in S : \A y \in S : x <= y
<1> DEFINE R == OpToRel(<, Nat)
<1>1. IsWellFoundedOn(R, Nat)
  BY NatLessThanWellFounded
<1>2. PICK x \in S : \A y \in S : ~ (<<y, x>> \in R)
  BY <1>1, WFMin
<1>3. \A y \in S : ~ (y < x)
  BY <1>2 DEF OpToRel
<1> QED
  BY <1>3

---------------------------------------------------------------------------
(* SortedArray                                                               *)

LEMMA SortedArrayFacts ==
    /\ Capacity \in Nat \ {0}
    /\ MaxArrivals \in Nat
    /\ Key \subseteq Int
    /\ \A other \in OtherArray :
          /\ other \in [elements : [Sort!Slots -> Sort!T], keys : [Sort!Slots -> Key],
                        w : 0 .. Capacity]
          /\ Sort!Ordered(other.elements, other.keys, other.w)
          /\ \A i, j \in 0 .. other.w - 1 : other.elements[i] = other.elements[j] => i = j
BY SortedArrayAssumption DEF Sort!SortedArrayConstants

LEMMA SortedArrayRanges ==
    ASSUME Sort!TypeOK
    PROVE  /\ count \in 0 .. Capacity /\ count \in Nat /\ Capacity \in Nat
           /\ \A i \in 0 .. count - 1 : i \in Sort!Slots
           /\ \A i \in Sort!Slots : keys[i] \in Int /\ sorted[i] \in Int
<1>1. count \in 0 .. Capacity /\ count \in Nat /\ Capacity \in Nat
  BY SortedArrayFacts DEF Sort!TypeOK
<1>2. \A i \in Sort!Slots : keys[i] \in Key /\ sorted[i] \in Sort!T
  BY DEF Sort!TypeOK
<1>3. Key \subseteq Int /\ Sort!T \subseteq Int
  BY SortedArrayFacts DEF Sort!T
<1>4. \A i \in 0 .. count - 1 : i \in Sort!Slots
  BY <1>1 DEF Sort!Slots
<1> QED
  BY <1>1, <1>2, <1>3, <1>4

\* No element is in the array twice.
EachOnce == \A i, j \in 0 .. count - 1 : sorted[i] = sorted[j] => i = j

SortedInv == /\ Sort!TypeOK
             /\ Sort!Ordered(sorted, keys, count)
             /\ EachOnce

\* The next arrival is behind all that are there.
LEMMA LatestIsLater ==
    ASSUME Sort!TypeOK
    PROVE  /\ Sort!Latest \in 1 .. MaxArrivals + 1
           /\ \A i \in 0 .. count - 1 : sorted[i] < Sort!Latest
<1> DEFINE Later == {x \in 1 .. MaxArrivals + 1 : \A y \in Sort!Content : y < x}
<1>1. Sort!Content \subseteq 0 .. MaxArrivals
  BY SortedArrayFacts DEF Sort!TypeOK, Sort!Content, Sort!Slots, Sort!T
<1>2. MaxArrivals + 1 \in Later
  BY <1>1, SortedArrayFacts
<1>3. Later \in SUBSET Nat
  BY SortedArrayFacts
<1>4. PICK x \in Later : \A y \in Later : x <= y
  <2> HIDE DEF Later
  <2> QED
    BY <1>2, <1>3, LeastNumber
<1>5. x = 1 \/ x - 1 \in Sort!Content
  <2> SUFFICES ASSUME x # 1 PROVE x - 1 \in Sort!Content
    OBVIOUS
  <2>1. x - 1 \in 1 .. MaxArrivals + 1 /\ ~(x <= x - 1)
    BY <1>3, SortedArrayFacts
  <2>2. x - 1 \notin Later
    BY <1>4, <2>1
  <2>3. PICK y \in Sort!Content : ~(y < x - 1)
    BY <2>1, <2>2
  <2>4. y < x /\ y \in Int /\ x \in Int
    BY <1>1, <1>3, <2>3
  <2>5. y = x - 1
    BY <2>3, <2>4
  <2> QED
    BY <2>3, <2>5
<1>6. \E z \in 1 .. MaxArrivals + 1 : /\ \A y \in Sort!Content : y < z
                                      /\ z = 1 \/ z - 1 \in Sort!Content
  BY <1>4, <1>5
<1>7. Sort!Latest \in 1 .. MaxArrivals + 1 /\ \A y \in Sort!Content : y < Sort!Latest
  BY <1>6 DEF Sort!Latest
<1> QED
  BY <1>7 DEF Sort!Content

\* insert() finds a position: that behind the last key that is not larger.
LEMMA PositionExists ==
    ASSUME SortedInv, NEW key \in Key
    PROVE  /\ Sort!position(key) \in 0 .. count
           /\ \A i \in Sort!position(key) .. count - 1 : keys[i] > key
           /\ \A i \in 0 .. Sort!position(key) - 1 : keys[i] <= key
<1> DEFINE Places == {m \in 0 .. count : \A i \in m .. count - 1 : keys[i] > key}
<1>0. /\ count \in 0 .. Capacity /\ count \in Nat /\ key \in Int
      /\ \A i \in 0 .. count - 1 : keys[i] \in Int
  BY SortedArrayRanges, SortedArrayFacts DEF SortedInv
<1>1. count \in Places /\ Places \in SUBSET Nat
  BY <1>0
<1>2. PICK m \in Places : \A x \in Places : m <= x
  <2> HIDE DEF Places
  <2> QED
    BY <1>1, LeastNumber
<1>3. m = 0 \/ keys[m - 1] <= key
  <2> SUFFICES ASSUME m # 0, keys[m - 1] > key PROVE FALSE
    BY <1>0, <1>2
  <2>1. m - 1 \in 0 .. count /\ ~(m <= m - 1)
    BY <1>0, <1>2
  <2>2. \A i \in m - 1 .. count - 1 : keys[i] > key
    <3> TAKE i \in m - 1 .. count - 1
    <3>1. i = m - 1 \/ i \in m .. count - 1
      BY <1>0, <1>2
    <3> QED
      BY <1>2, <3>1
  <2> QED
    BY <1>2, <2>1, <2>2
<1>4. \E x \in 0 .. count : /\ \A i \in x .. count - 1 : keys[i] > key
                            /\ x = 0 \/ keys[x - 1] <= key
  BY <1>2, <1>3
<1> DEFINE p == Sort!position(key)
<1>5. /\ p \in 0 .. count
      /\ \A i \in p .. count - 1 : keys[i] > key
      /\ p = 0 \/ keys[p - 1] <= key
  BY <1>4 DEF Sort!position
<1>6. ASSUME NEW i \in 0 .. p - 1 PROVE keys[i] <= key
  <2>1. i = p - 1 \/ i < p - 1
    BY <1>5
  <2>2. p - 1 \in 0 .. count - 1 /\ i \in 0 .. count - 1 /\ keys[p - 1] <= key
    BY <1>0, <1>5, <1>6
  <2>3. i < p - 1 => keys[i] <= keys[p - 1]
    BY <1>0, <2>2 DEF SortedInv, Sort!Ordered
  <2> QED
    BY <1>0, <2>1, <2>2, <2>3
<1> QED
  BY <1>5, <1>6

\* Every entry is where it was, one place further up, or new.
LEMMA SortedInsert ==
    ASSUME SortedInv, NEW key \in Key, NEW p \in 0 .. count, NEW x \in Sort!T,
           count # Capacity,
           \A i \in 0 .. count - 1 : sorted[i] < x,
           \A i \in p .. count - 1 : keys[i] > key,
           \A i \in 0 .. p - 1 : keys[i] <= key,
           sorted' = Sort!Shifted(sorted, p, x), keys' = Sort!Shifted(keys, p, key),
           count' = count + 1
    PROVE  SortedInv'
<1> DEFINE From(i) == IF i < p THEN i ELSE i - 1
<1>0. /\ count \in Nat /\ count < Capacity /\ Capacity \in Nat /\ p \in Nat /\ key \in Int
      /\ \A i \in 0 .. count - 1 : keys[i] \in Int /\ sorted[i] \in Int /\ i \in Sort!Slots
      /\ x \in Int
  <2>1. x \in Int /\ p \in Nat /\ count < Capacity
    BY SortedArrayRanges, SortedArrayFacts DEF SortedInv, Sort!T
  <2> QED
    BY <2>1, SortedArrayRanges, SortedArrayFacts DEF SortedInv
<1>1. Sort!TypeOK'
  <2>1. \A i \in Sort!Slots : p < i => i - 1 \in Sort!Slots
    BY <1>0 DEF Sort!Slots
  <2>2. sorted' \in [Sort!Slots -> Sort!T]
    BY <2>1 DEF SortedInv, Sort!TypeOK, Sort!Shifted
  <2>3. keys' \in [Sort!Slots -> Key]
    BY <2>1 DEF SortedInv, Sort!TypeOK, Sort!Shifted
  <2>4. count' \in 0 .. Capacity
    BY <1>0
  <2> QED
    BY <2>2, <2>3, <2>4 DEF Sort!TypeOK, Sort!Slots, Sort!T
<1>2. ASSUME NEW i \in 0 .. count
      PROVE  /\ i = p => sorted'[i] = x /\ keys'[i] = key
             /\ i # p => /\ From(i) \in 0 .. count - 1
                         /\ sorted'[i] = sorted[From(i)] /\ keys'[i] = keys[From(i)]
  <2>1. i \in Sort!Slots
    BY <1>0 DEF Sort!Slots
  <2>2. i # p => From(i) \in 0 .. count - 1
    BY <1>0
  <2> QED
    BY <1>0, <2>1, <2>2 DEF Sort!Shifted
<1>3. \A i, j \in 0 .. count : i # p /\ j # p /\ i < j => From(i) < From(j)
  BY <1>0
<1>4. 0 .. count' - 1 = 0 .. count
  BY <1>0
<1>5. ASSUME NEW i \in 0 .. count, NEW j \in 0 .. count, i < j
      PROVE  \/ keys'[i] < keys'[j]
             \/ keys'[i] = keys'[j] /\ sorted'[i] < sorted'[j]
  <2>1. CASE i # p /\ j # p
    BY <1>2, <1>3, <1>5, <2>1 DEF SortedInv, Sort!Ordered
  <2>2. CASE i = p
    <3>1. j # p /\ From(j) \in p .. count - 1
      BY <1>0, <1>5, <2>2
    <3> QED
      BY <1>0, <1>2, <2>2, <3>1
  <2>3. CASE j = p
    <3>1. i # p /\ From(i) = i /\ i \in 0 .. p - 1 /\ i \in 0 .. count - 1
      BY <1>0, <1>5, <2>3
    <3>2. keys'[i] = keys[i] /\ sorted'[i] = sorted[i] /\ keys'[j] = key /\ sorted'[j] = x
      BY <1>2, <2>3, <3>1
    <3>3. keys[i] <= key /\ sorted[i] < x /\ keys[i] \in Int
      BY <1>0, <3>1
    <3> QED
      BY <1>0, <3>2, <3>3
  <2> QED
    BY <2>1, <2>2, <2>3
<1>6. Sort!Ordered(sorted, keys, count)'
  BY <1>4, <1>5 DEF Sort!Ordered
<1>7. ASSUME NEW i \in 0 .. count, NEW j \in 0 .. count, sorted'[i] = sorted'[j]
      PROVE  i = j
  <2>1. CASE i # p /\ j # p
    <3>1. From(i) = From(j)
      BY <1>2, <1>7, <2>1 DEF SortedInv, EachOnce
    <3> QED
      BY <1>0, <2>1, <3>1
  <2>2. CASE i = p \/ j = p
    BY <1>0, <1>2, <1>7, <2>2
  <2> QED
    BY <2>1, <2>2
<1>8. EachOnce'
  BY <1>4, <1>7 DEF EachOnce
<1> QED
  BY <1>1, <1>6, <1>8 DEF SortedInv

LEMMA SortedStep == SortedInv /\ [Sort!Next]_(Sort!vars) => SortedInv'
<1> SUFFICES ASSUME SortedInv, [Sort!Next]_(Sort!vars) PROVE SortedInv'
  OBVIOUS
<1>0. /\ count \in 0 .. Capacity /\ count \in Nat /\ Capacity \in Nat
      /\ sorted \in [Sort!Slots -> Sort!T] /\ keys \in [Sort!Slots -> Key]
  BY SortedArrayFacts DEF SortedInv, Sort!TypeOK
<1>1. ASSUME NEW key \in Key, Sort!insert(key) PROVE SortedInv'
  BY <1>1, PositionExists, LatestIsLater, SortedInsert
     DEF SortedInv, Sort!insert, Sort!isFull
<1>2. ASSUME NEW key \in Key, Sort!write(key) PROVE SortedInv'
  <2>1. /\ count # Capacity /\ Sort!Latest \in Sort!T
        /\ count > 0 => keys[count - 1] <= key
    BY <1>2 DEF Sort!write, Sort!isFull
  <2>2. /\ sorted' = [sorted EXCEPT ![count] = Sort!Latest]
        /\ keys' = [keys EXCEPT ![count] = key] /\ count' = count + 1
    BY <1>2 DEF Sort!write
  <2>3. \A i \in Sort!Slots : ~(count < i /\ i <= count)
    BY <1>0 DEF Sort!Slots
  <2>4. /\ sorted' = Sort!Shifted(sorted, count, Sort!Latest)
        /\ keys' = Sort!Shifted(keys, count, key)
    BY <1>0, <2>2, <2>3 DEF Sort!Shifted
  <2>5. \A i \in 0 .. count - 1 : keys[i] <= key
    <3> TAKE i \in 0 .. count - 1
    <3>1. count - 1 \in 0 .. count - 1 /\ keys[count - 1] <= key /\ key \in Int
      BY <1>0, <2>1, SortedArrayFacts
    <3>2. keys[i] \in Int /\ keys[count - 1] \in Int
      BY <1>0, <3>1, SortedArrayRanges DEF SortedInv
    <3>3. i < count - 1 => keys[i] <= keys[count - 1]
      BY <3>1, <3>2 DEF SortedInv, Sort!Ordered
    <3>4. i = count - 1 \/ i < count - 1
      BY <1>0
    <3> QED
      BY <3>1, <3>2, <3>3, <3>4
  <2>6. count \in 0 .. count /\ count .. count - 1 = {}
    BY <1>0
  <2> QED
    BY <2>1, <2>2, <2>4, <2>5, <2>6, LatestIsLater, SortedInsert DEF SortedInv
<1>3. ASSUME NEW offset \in 0 .. Capacity, Sort!align(offset) PROVE SortedInv'
  <2>1. offset <= count /\ count' = offset /\ sorted' = sorted /\ keys' = keys
    BY <1>3 DEF Sort!align
  <2>2. 0 .. count' - 1 \subseteq 0 .. count - 1
    BY <1>0, <2>1
  <2> QED
    BY <2>1, <2>2 DEF SortedInv, Sort!TypeOK, Sort!Ordered, EachOnce, Sort!Slots
<1>4. ASSUME NEW other \in OtherArray, Sort!assign(other) PROVE SortedInv'
  BY <1>4, SortedArrayFacts DEF Sort!assign, SortedInv, Sort!TypeOK, Sort!Ordered, EachOnce,
     Sort!Slots, Sort!T
<1>5. ASSUME NEW t \in Sort!T, Sort!clear \/ Sort!clearWith(t) PROVE SortedInv'
  <2>1. /\ count' = 0 /\ keys' = keys /\ sorted' \in [Sort!Slots -> Sort!T]
    BY <1>0, <1>5 DEF Sort!clear, Sort!clearWith
  <2>2. 0 .. 0 - 1 = {} /\ 0 \in 0 .. Capacity
    BY <1>0
  <2> QED
    BY <2>1, <2>2 DEF SortedInv, Sort!TypeOK, Sort!Ordered, EachOnce, Sort!Slots, Sort!T
<1>6. CASE UNCHANGED Sort!vars
  BY <1>6 DEF Sort!vars, SortedInv, Sort!TypeOK, Sort!Ordered, EachOnce, Sort!Slots, Sort!T
<1>7. 0 \in Sort!T
  BY SortedArrayFacts DEF Sort!T
<1> QED
  BY <1>1, <1>2, <1>3, <1>4, <1>5, <1>6, <1>7 DEF Sort!Next

LEMMA SortedInvariant == Sort!Spec => []SortedInv
<1>1. Sort!Init => SortedInv
  <2> SUFFICES ASSUME Sort!Init PROVE SortedInv
    OBVIOUS
  <2>1. 0 \in Sort!T /\ count \in 0 .. Capacity /\ 0 .. count - 1 = {}
    BY SortedArrayFacts DEF Sort!Init, Sort!T
  <2>2. sorted \in [Sort!Slots -> Sort!T] /\ keys \in [Sort!Slots -> Key]
    BY <2>1 DEF Sort!Init
  <2> QED
    BY <2>1, <2>2 DEF SortedInv, Sort!TypeOK, Sort!Ordered, EachOnce
<1> QED
  BY <1>1, SortedStep, PTL DEF Sort!Spec

LEMMA SortedArraySets ==
    ASSUME NEW S
    PROVE  Sort!Cardinality(S) = Cardinality(S)
BY DEF IsFiniteSet, Sort!IsFiniteSet, Cardinality, Sort!Cardinality

LEMMA SortedIsStable == SortedInv => Sort!StableOrder
<1> SUFFICES ASSUME SortedInv PROVE Sort!Cardinality(Sort!Content) = count
  BY DEF SortedInv, Sort!StableOrder
<1> DEFINE f == [i \in 1 .. count |-> sorted[i - 1]]
<1>1. count \in Nat
  BY SortedArrayFacts DEF SortedInv, Sort!TypeOK
<1>2. \A i \in 1 .. count : i - 1 \in 0 .. count - 1
  BY <1>1
<1>3. \A i \in 0 .. count - 1 : i + 1 \in 1 .. count /\ (i + 1) - 1 = i
  BY <1>1
<1>4. f \in [1 .. count -> Sort!Content]
  BY <1>2 DEF Sort!Content
<1>5. \A i, j \in 1 .. count : f[i] = f[j] => i = j
  <2> TAKE i, j \in 1 .. count
  <2>1. f[i] = f[j] => i - 1 = j - 1
    BY <1>2 DEF SortedInv, EachOnce
  <2> QED
    BY <1>1, <2>1
<1>6. \A x \in Sort!Content : \E i \in 1 .. count : f[i] = x
  BY <1>3 DEF Sort!Content
<1>7. ExistsBijection(1 .. count, Sort!Content)
  <2> HIDE DEF f
  <2>1. f \in Injection(1 .. count, Sort!Content)
    BY <1>4, <1>5 DEF Injection, IsInjective
  <2>2. f \in Surjection(1 .. count, Sort!Content)
    BY <1>4, <1>6 DEF Surjection
  <2> QED
    BY <2>1, <2>2 DEF ExistsBijection, Bijection
<1> QED
  BY <1>1, <1>7, FS_CountingElements, SortedArraySets

---------------------------------------------------------------------------
(* ResizableRingBuffer: the buffer of a fixed capacity                       *)

LEMMA RingFacts == /\ \A c \in Capacities : c \in Nat /\ c >= 2
                   /\ Default \in Item
BY RingAssumption DEF Ring!ResizableConstants

RingOther(c) == {o \in OtherRing : DOMAIN o.elements = 0 .. c - 1}

LEMMA RingOthers ==
    ASSUME NEW c \in Capacities, NEW o \in RingOther(c)
    PROVE  o.elements \in [0 .. c - 1 -> Item] /\ o.r \in 0 .. c - 1 /\ o.w \in 0 .. c - 1
<1>1. PICK d \in Capacities :
        o \in [elements : [0 .. d - 1 -> Item], r : 0 .. d - 1, w : 0 .. d - 1]
  BY RingAssumption DEF RingOther, Ring!ResizableConstants
<1>2. 0 .. d - 1 = 0 .. c - 1
  BY <1>1 DEF RingOther
<1>3. c \in Nat /\ d \in Nat /\ d >= 2 /\ c >= 2
  BY RingFacts
<1>4. d - 1 \in 0 .. c - 1 /\ c - 1 \in 0 .. d - 1
  <2>1. d - 1 \in 0 .. d - 1 /\ c - 1 \in 0 .. c - 1
    BY <1>3
  <2> QED
    BY <1>2, <2>1
<1>5. c = d
  BY <1>3, <1>4
<1> QED
  BY <1>1, <1>5

---------------------------------------------------------------------------
(* Indices                                                                   *)

LEMMA RingNextInSlots ==
    ASSUME NEW c \in Capacities
    PROVE  \A i \in Ring!Fixed(c)!Slots :
              /\ Ring!Fixed(c)!next(i) \in Ring!Fixed(c)!Slots
              /\ Ring!Fixed(c)!prev(i) \in Ring!Fixed(c)!Slots
BY RingFacts DEF Ring!Fixed!Slots, Ring!Fixed!next, Ring!Fixed!prev

LEMMA RingModInSlots ==
    ASSUME NEW c \in Capacities, NEW m \in Nat
    PROVE  m % c \in Ring!Fixed(c)!Slots
BY RingFacts DEF Ring!Fixed!Slots

\* Every place where the code adds an offset to a pointer wraps at most once.
LEMMA RingWrapOnce ==
    ASSUME NEW c \in Capacities, NEW i \in Ring!Fixed(c)!Slots, NEW m \in Ring!Fixed(c)!Slots
    PROVE  (i + m) % c = IF i + m < c THEN i + m ELSE i + m - c
BY RingFacts DEF Ring!Fixed!Slots

---------------------------------------------------------------------------
(* Types                                                                     *)

LEMMA RingTypeStep ==
    ASSUME NEW c \in Capacities, Ring!Fixed(c)!TypeOK, [Ring!Fixed(c)!Next]_(Ring!Fixed(c)!vars)
    PROVE  Ring!Fixed(c)!TypeOK'
<1>0. c \in Nat /\ c >= 2
  BY RingFacts
<1> USE RingNextInSlots DEF Ring!Fixed!TypeOK
<1>1. CASE Ring!Fixed(c)!clear
  BY <1>1, <1>0 DEF Ring!Fixed!clear, Ring!Fixed!Slots
<1>2. CASE Ring!Fixed(c)!read
  BY <1>2 DEF Ring!Fixed!read
<1>3. CASE Ring!Fixed(c)!skip
  BY <1>3 DEF Ring!Fixed!skip
<1>4. ASSUME NEW x \in Item, Ring!Fixed(c)!clearWith(x) PROVE Ring!Fixed(c)!TypeOK'
  BY <1>4, <1>0 DEF Ring!Fixed!clearWith, Ring!Fixed!Slots
<1>5. ASSUME NEW x \in Item, Ring!Fixed(c)!readOr(x) PROVE Ring!Fixed(c)!TypeOK'
  BY <1>5 DEF Ring!Fixed!readOr, Ring!Fixed!read
<1>6. ASSUME NEW x \in Item, Ring!Fixed(c)!write(x) PROVE Ring!Fixed(c)!TypeOK'
  BY <1>6 DEF Ring!Fixed!write
<1>7. ASSUME NEW x \in Item, Ring!Fixed(c)!put(x) PROVE Ring!Fixed(c)!TypeOK'
  BY <1>7 DEF Ring!Fixed!put
<1>8. ASSUME NEW m \in Ring!Fixed(c)!Slots, Ring!Fixed(c)!align(m) PROVE Ring!Fixed(c)!TypeOK'
  <2>1. r + m \in Nat
    BY DEF Ring!Fixed!Slots
  <2> QED
    BY <1>8, <2>1, RingModInSlots DEF Ring!Fixed!align
<1>9. ASSUME NEW m \in Ring!Fixed(c)!Slots, Ring!Fixed(c)!skipMany(m)
      PROVE  Ring!Fixed(c)!TypeOK'
  <2>1. r + m \in Nat
    BY DEF Ring!Fixed!Slots
  <2> QED
    BY <1>9, <2>1, RingModInSlots DEF Ring!Fixed!skipMany
<1>10. ASSUME NEW other \in RingOther(c), Ring!Fixed(c)!assign(other)
       PROVE  Ring!Fixed(c)!TypeOK'
  BY <1>10, RingOthers DEF Ring!Fixed!assign, Ring!Fixed!Slots
<1>11. CASE UNCHANGED Ring!Fixed(c)!vars
  BY <1>11 DEF Ring!Fixed!vars
<1>12. \A m \in 0 .. Ring!Fixed(c)!count : m \in Ring!Fixed(c)!Slots
  BY <1>0 DEF Ring!Fixed!Slots, Ring!Fixed!count
<1>13. CASE Ring!Fixed(c)!TakeOut
  BY <1>1, <1>2, <1>13 DEF Ring!Fixed!TakeOut
<1>14. CASE Ring!Fixed(c)!PutIn
  BY <1>4, <1>5, <1>6, <1>7, <1>14 DEF Ring!Fixed!PutIn
<1>15. CASE Ring!Fixed(c)!ForwardInOrder \/ Ring!Fixed(c)!PlaceInOrder
  BY <1>3, <1>8, <1>9, <1>12, <1>15 DEF Ring!Fixed!ForwardInOrder, Ring!Fixed!PlaceInOrder
<1> QED
  BY <1>10, <1>11, <1>13, <1>14, <1>15 DEF Ring!Fixed!Next, RingOther

---------------------------------------------------------------------------
(* Contents                                                                  *)

LEMMA RingSlotInSlots ==
    ASSUME NEW c \in Capacities, Ring!Fixed(c)!TypeOK
    PROVE  \A k \in Ring!Fixed(c)!Slots : Ring!Fixed(c)!Slot(k) \in Ring!Fixed(c)!Slots
BY RingFacts DEF Ring!Fixed!TypeOK, Ring!Fixed!Slots, Ring!Fixed!Slot

\* What the content of the buffer is, element by element.
RingContents(c) ==
    /\ Ring!Fixed(c)!count \in Ring!Fixed(c)!Slots
    /\ Ring!Fixed(c)!Queue \in Seq(Item)
    /\ Len(Ring!Fixed(c)!Queue) = Ring!Fixed(c)!count
    /\ \A k \in 1 .. Ring!Fixed(c)!count :
          Ring!Fixed(c)!Queue[k] = elements[Ring!Fixed(c)!Slot(k - 1)]

LEMMA RingQueueContents ==
    ASSUME NEW c \in Capacities, Ring!Fixed(c)!TypeOK
    PROVE  RingContents(c)
<1>0. c \in Nat /\ c >= 2
  BY RingFacts
<1>1. Ring!Fixed(c)!count \in Ring!Fixed(c)!Slots
  BY <1>0 DEF Ring!Fixed!TypeOK, Ring!Fixed!Slots, Ring!Fixed!count
<1>2. \A k \in 1 .. Ring!Fixed(c)!count : elements[Ring!Fixed(c)!Slot(k - 1)] \in Item
  <2> TAKE k \in 1 .. Ring!Fixed(c)!count
  <2>1. k - 1 \in Ring!Fixed(c)!Slots
    BY <1>1, <1>0 DEF Ring!Fixed!Slots
  <2> QED
    BY <2>1, RingSlotInSlots DEF Ring!Fixed!TypeOK
<1>3. Ring!Fixed(c)!Queue \in [1 .. Ring!Fixed(c)!count -> Item]
  BY <1>2 DEF Ring!Fixed!Queue
<1> QED
  BY <1>1, <1>3 DEF Ring!Fixed!Queue, Ring!Fixed!Slots, RingContents

\* A sequence that is another one from place m + 1 on is a suffix of it.
LEMMA SuffixIsSubSeq ==
    ASSUME NEW S, NEW s \in Seq(S), NEW t \in Seq(S), NEW m \in Nat,
           m <= Len(s), Len(t) = Len(s) - m,
           \A k \in 1 .. Len(s) - m : t[k] = s[k + m]
    PROVE  t = SubSeq(s, m + 1, Len(s))
<1>1. Len(SubSeq(s, m + 1, Len(s))) = Len(t) /\ SubSeq(s, m + 1, Len(s)) \in Seq(S)
  OBVIOUS
<1>2. \A k \in 1 .. Len(t) : SubSeq(s, m + 1, Len(s))[k] = t[k]
  OBVIOUS
<1> QED
  BY <1>1, <1>2

\* Moving the read pointer n elements on drops the n oldest elements.
LEMMA RingDrop ==
    ASSUME NEW c \in Capacities, Ring!Fixed(c)!TypeOK, RingContents(c), RingContents(c)',
           NEW m \in Ring!Fixed(c)!Slots, m <= Ring!Fixed(c)!count,
           elements' = elements, w' = w, r' = Ring!Fixed(c)!Slot(m)
    PROVE  Ring!Fixed(c)!Queue' = SubSeq(Ring!Fixed(c)!Queue, m + 1, Len(Ring!Fixed(c)!Queue))
<1>0. c \in Nat /\ c >= 2
  BY RingFacts
<1>1. Ring!Fixed(c)!count' = Ring!Fixed(c)!count - m
  BY <1>0 DEF Ring!Fixed!TypeOK, Ring!Fixed!Slots, Ring!Fixed!Slot, Ring!Fixed!count
<1>2. \A k \in 1 .. Ring!Fixed(c)!count - m :
         Ring!Fixed(c)!Slot(k - 1)' = Ring!Fixed(c)!Slot(k + m - 1)
  <2> TAKE k \in 1 .. Ring!Fixed(c)!count - m
  <2>1. Ring!Fixed(c)!count \in 0 .. c - 1 /\ m \in 0 .. c - 1 /\ r \in 0 .. c - 1
    BY DEF RingContents, Ring!Fixed!Slots, Ring!Fixed!TypeOK
  <2>2. k \in Nat /\ k >= 1 /\ k + m <= c - 1
    BY <1>0, <2>1
  <2>3. r' = IF r + m < c THEN r + m ELSE r + m - c
    BY DEF Ring!Fixed!Slot
  <2>4. CASE r + m < c
    BY <1>0, <2>1, <2>2, <2>3, <2>4 DEF Ring!Fixed!Slot
  <2>5. CASE ~(r + m < c)
    BY <1>0, <2>1, <2>2, <2>3, <2>5 DEF Ring!Fixed!Slot
  <2> QED
    BY <2>4, <2>5
<1>3. \A k \in 1 .. Ring!Fixed(c)!count - m :
         Ring!Fixed(c)!Queue'[k] = Ring!Fixed(c)!Queue[k + m]
  <2> TAKE k \in 1 .. Ring!Fixed(c)!count - m
  <2>1. /\ k \in 1 .. Ring!Fixed(c)!count' /\ k + m \in 1 .. Ring!Fixed(c)!count
        /\ (k + m) - 1 = k + m - 1
    BY <1>0, <1>1 DEF RingContents, Ring!Fixed!Slots
  <2>2. Ring!Fixed(c)!Queue'[k] = elements'[Ring!Fixed(c)!Slot(k - 1)']
    BY <2>1 DEF RingContents
  <2>3. Ring!Fixed(c)!Queue[k + m] = elements[Ring!Fixed(c)!Slot(k + m - 1)]
    BY <2>1 DEF RingContents
  <2> QED
    BY <1>2, <2>2, <2>3
<1>4. /\ Ring!Fixed(c)!Queue \in Seq(Item) /\ Ring!Fixed(c)!Queue' \in Seq(Item)
      /\ Len(Ring!Fixed(c)!Queue) = Ring!Fixed(c)!count
      /\ Len(Ring!Fixed(c)!Queue') = Ring!Fixed(c)!count - m
      /\ m \in Nat /\ Ring!Fixed(c)!count \in Nat
  BY <1>0, <1>1 DEF RingContents, Ring!Fixed!Slots
<1>5. m <= Len(Ring!Fixed(c)!Queue)
  BY <1>4
<1>6. /\ Len(Ring!Fixed(c)!Queue') = Len(Ring!Fixed(c)!Queue) - m
      /\ \A k \in 1 .. Len(Ring!Fixed(c)!Queue) - m :
            Ring!Fixed(c)!Queue'[k] = Ring!Fixed(c)!Queue[k + m]
  BY <1>3, <1>4
<1> QED
  BY <1>4, <1>5, <1>6, SuffixIsSubSeq

\* Writing to the slot at the write pointer and moving that on adds an element.
LEMMA RingWrite ==
    ASSUME NEW c \in Capacities, Ring!Fixed(c)!TypeOK, RingContents(c), RingContents(c)',
           NEW x \in Item, ~Ring!Fixed(c)!isFull,
           elements' = [elements EXCEPT ![w] = x], w' = Ring!Fixed(c)!next(w), r' = r
    PROVE  Ring!Fixed(c)!Queue' = Append(Ring!Fixed(c)!Queue, x)
<1>0. c \in Nat /\ c >= 2
  BY RingFacts
<1>1. Ring!Fixed(c)!count' = Ring!Fixed(c)!count + 1
  BY <1>0
     DEF Ring!Fixed!TypeOK, Ring!Fixed!Slots, Ring!Fixed!isFull, Ring!Fixed!count,
         Ring!Fixed!next
<1>2. \A k \in 1 .. Ring!Fixed(c)!count :
        Ring!Fixed(c)!Slot(k - 1)' = Ring!Fixed(c)!Slot(k - 1) /\ Ring!Fixed(c)!Slot(k - 1) # w
  BY <1>0
     DEF Ring!Fixed!TypeOK, Ring!Fixed!Slots, Ring!Fixed!Slot, Ring!Fixed!count, RingContents
<1>3. \A k \in Nat : k = Ring!Fixed(c)!count => Ring!Fixed(c)!Slot(k)' = w
  BY <1>0 DEF Ring!Fixed!TypeOK, Ring!Fixed!Slots, Ring!Fixed!Slot, Ring!Fixed!count
<1>4. ASSUME NEW k \in 1 .. Ring!Fixed(c)!count
      PROVE  Ring!Fixed(c)!Queue'[k] = Ring!Fixed(c)!Queue[k]
  <2>1. k \in 1 .. Ring!Fixed(c)!count' /\ k - 1 \in Ring!Fixed(c)!Slots
    BY <1>1, <1>0 DEF RingContents, Ring!Fixed!Slots
  <2>2. Ring!Fixed(c)!Queue'[k] = elements'[Ring!Fixed(c)!Slot(k - 1)']
    BY <2>1 DEF RingContents
  <2>3. Ring!Fixed(c)!Queue[k] = elements[Ring!Fixed(c)!Slot(k - 1)]
    BY DEF RingContents
  <2> QED
    BY <2>1, <2>2, <2>3, <1>2, RingSlotInSlots DEF Ring!Fixed!TypeOK
<1>5. Ring!Fixed(c)!Queue'[Ring!Fixed(c)!count + 1] = x
  <2> DEFINE m == Ring!Fixed(c)!count
  <2>1. m \in Nat /\ m + 1 \in 1 .. Ring!Fixed(c)!count' /\ m + 1 - 1 = m
    BY <1>1, <1>0 DEF RingContents, Ring!Fixed!Slots
  <2> QED
    BY <2>1, <1>1, <1>3 DEF RingContents, Ring!Fixed!TypeOK
<1> QED
  BY <1>1, <1>4, <1>5 DEF RingContents, Ring!Fixed!Slots

\* put() into a full buffer costs the oldest element.
LEMMA RingPush ==
    ASSUME NEW c \in Capacities, Ring!Fixed(c)!TypeOK, RingContents(c), RingContents(c)',
           NEW x \in Item, Ring!Fixed(c)!isFull,
           elements' =
             [elements EXCEPT ![w] = x], w' = Ring!Fixed(c)!next(w), r' = Ring!Fixed(c)!next(r)
    PROVE  Ring!Fixed(c)!Queue' = Append(Tail(Ring!Fixed(c)!Queue), x)
<1>0. c \in Nat /\ c >= 2
  BY RingFacts
<1>1. Ring!Fixed(c)!count' = Ring!Fixed(c)!count /\ Ring!Fixed(c)!count = c - 1
  BY <1>0
     DEF Ring!Fixed!TypeOK, Ring!Fixed!Slots, Ring!Fixed!isFull, Ring!Fixed!count,
         Ring!Fixed!next
<1>2. \A k \in 1 .. Ring!Fixed(c)!count - 1 :
        Ring!Fixed(c)!Slot(k - 1)' = Ring!Fixed(c)!Slot(k) /\ Ring!Fixed(c)!Slot(k) # w
  BY <1>0
     DEF Ring!Fixed!TypeOK, Ring!Fixed!Slots, Ring!Fixed!Slot, Ring!Fixed!count, RingContents,
         Ring!Fixed!next, Ring!Fixed!isFull
<1>3. \A k \in Nat : k = Ring!Fixed(c)!count - 1 => Ring!Fixed(c)!Slot(k)' = w
  BY <1>0
     DEF Ring!Fixed!TypeOK, Ring!Fixed!Slots, Ring!Fixed!Slot, Ring!Fixed!count,
         Ring!Fixed!next, Ring!Fixed!isFull
<1>4. ASSUME NEW k \in 1 .. Ring!Fixed(c)!count - 1
      PROVE  Ring!Fixed(c)!Queue'[k] = Ring!Fixed(c)!Queue[k + 1]
  <2>1. /\ k \in 1 .. Ring!Fixed(c)!count' /\ k \in Ring!Fixed(c)!Slots
        /\ k + 1 \in 1 .. Ring!Fixed(c)!count /\ k + 1 - 1 = k
    BY <1>1, <1>0 DEF Ring!Fixed!Slots
  <2>2. Ring!Fixed(c)!Queue'[k] = elements'[Ring!Fixed(c)!Slot(k - 1)']
    BY <2>1 DEF RingContents
  <2>3. Ring!Fixed(c)!Queue[k + 1] = elements[Ring!Fixed(c)!Slot(k)]
    BY <2>1 DEF RingContents
  <2> QED
    BY <2>1, <2>2, <2>3, <1>2, RingSlotInSlots DEF Ring!Fixed!TypeOK
<1>5. Ring!Fixed(c)!Queue'[Ring!Fixed(c)!count] = x
  <2>1. Ring!Fixed(c)!count - 1 \in Nat /\ Ring!Fixed(c)!count \in 1 .. Ring!Fixed(c)!count'
    BY <1>1, <1>0
  <2> QED
    BY <2>1, <1>1, <1>3 DEF RingContents, Ring!Fixed!TypeOK
<1> QED
  BY <1>1, <1>4, <1>5, <1>0 DEF RingContents, Ring!Fixed!Slots

---------------------------------------------------------------------------
(* The buffer is a queue                                                     *)

\* Each operation, from any state of the right type.
LEMMA RingPromises ==
    ASSUME NEW c \in Capacities, Ring!Fixed(c)!TypeOK, Ring!Fixed(c)!TypeOK', RingContents(c),
           RingContents(c)'
    PROVE  Ring!Fixed(c)!Promises
<1>0. c \in Nat /\ c >= 2
  BY RingFacts
<1> USE <1>0 DEF Ring!Fixed!TypeOK, Ring!Fixed!Abstract!Room
<1>1. RingContents(c) /\ RingContents(c)'
  OBVIOUS
<1>2. ASSUME Ring!Fixed(c)!read PROVE Ring!Fixed(c)!Abstract!Take
  <2>1. /\ Ring!Fixed(c)!count # 0 /\ Ring!Fixed(c)!Slot(0) = r
        /\ Ring!Fixed(c)!next(r) = Ring!Fixed(c)!Slot(1) /\ 1 \in Ring!Fixed(c)!Slots
    BY <1>2
       DEF Ring!Fixed!read, Ring!Fixed!isEmpty, Ring!Fixed!count, Ring!Fixed!Slot,
           Ring!Fixed!Slots, Ring!Fixed!next
  <2>2. Ring!Fixed(c)!Queue # << >> /\ Head(Ring!Fixed(c)!Queue) = elements[r]
    <3>1. 1 \in 1 .. Ring!Fixed(c)!count /\ Len(Ring!Fixed(c)!Queue) > 0 /\ 1 - 1 = 0
      BY <1>1, <2>1 DEF RingContents, Ring!Fixed!Slots
    <3>2. Ring!Fixed(c)!Queue[1] = elements[Ring!Fixed(c)!Slot(1 - 1)]
      BY <1>1, <3>1 DEF RingContents
    <3>3. Ring!Fixed(c)!Queue[1] = elements[r]
      BY <2>1, <3>1, <3>2
    <3> QED
      BY <1>1, <3>1, <3>3 DEF RingContents
  <2>3. Ring!Fixed(c)!Queue' = SubSeq(Ring!Fixed(c)!Queue, 2, Len(Ring!Fixed(c)!Queue))
    <3>1. /\ elements' = elements /\ w' = w /\ r' = Ring!Fixed(c)!Slot(1)
          /\ 1 <= Ring!Fixed(c)!count /\ 1 + 1 = 2
      BY <1>1, <1>2, <2>1 DEF Ring!Fixed!read, RingContents, Ring!Fixed!Slots
    <3> HIDE DEF Ring!Fixed!TypeOK
    <3>2. Ring!Fixed(c)!Queue' = SubSeq(Ring!Fixed(c)!Queue, 1 + 1, Len(Ring!Fixed(c)!Queue))
      BY <1>1, <2>1, <3>1, RingDrop
    <3> QED
      BY <3>1, <3>2
  <2>4. Ring!Fixed(c)!Queue' = Tail(Ring!Fixed(c)!Queue)
    BY <1>1, <2>2, <2>3 DEF RingContents
  <2> QED
    BY <1>2, <2>2, <2>4 DEF Ring!Fixed!read, Ring!Fixed!Abstract!Take
<1>3. ASSUME NEW x \in Item, Ring!Fixed(c)!write(x) PROVE Ring!Fixed(c)!Abstract!Enqueue(x)
  <2>1. Ring!Fixed(c)!Queue' = Append(Ring!Fixed(c)!Queue, x)
    BY <1>1, <1>3, RingWrite DEF Ring!Fixed!write
  <2>2. Len(Ring!Fixed(c)!Queue) < Ring!Fixed(c)!Abstract!Room
    BY <1>1, <1>3 DEF Ring!Fixed!write, Ring!Fixed!isFull, RingContents, Ring!Fixed!Slots
  <2> QED
    BY <1>3, <2>1, <2>2 DEF Ring!Fixed!write, Ring!Fixed!Abstract!Enqueue
<1>4. ASSUME NEW x \in Item, Ring!Fixed(c)!put(x) PROVE Ring!Fixed(c)!Abstract!Push(x)
  <2>1. Ring!Fixed(c)!isFull <=> Ring!Fixed(c)!next(w) = r
    BY DEF Ring!Fixed!isFull, Ring!Fixed!next, Ring!Fixed!count, Ring!Fixed!Slots
  <2>2. CASE Ring!Fixed(c)!isFull
    <3>1. Ring!Fixed(c)!Queue' = Append(Tail(Ring!Fixed(c)!Queue), x)
      BY <1>1, <1>4, <2>1, <2>2, RingPush DEF Ring!Fixed!put
    <3>2. Len(Ring!Fixed(c)!Queue) = Ring!Fixed(c)!Abstract!Room
      BY <1>1, <2>2 DEF Ring!Fixed!isFull, RingContents
    <3> QED
      BY <1>4, <3>1, <3>2 DEF Ring!Fixed!put, Ring!Fixed!Abstract!Push
  <2>3. CASE ~Ring!Fixed(c)!isFull
    <3>1. Ring!Fixed(c)!Queue' = Append(Ring!Fixed(c)!Queue, x)
      BY <1>1, <1>4, <2>1, <2>3, RingWrite DEF Ring!Fixed!put
    <3>2. Len(Ring!Fixed(c)!Queue) # Ring!Fixed(c)!Abstract!Room
      BY <1>1, <2>3 DEF Ring!Fixed!isFull, RingContents
    <3> QED
      BY <1>4, <3>1, <3>2 DEF Ring!Fixed!put, Ring!Fixed!Abstract!Push
  <2> QED
    BY <2>2, <2>3
<1>5. ASSUME NEW x \in Item, Ring!Fixed(c)!readOr(x)
      PROVE  Ring!Fixed(c)!Abstract!Take \/ Ring!Fixed(c)!Abstract!TakeOr(x)
  <2>1. CASE Ring!Fixed(c)!isEmpty
    <3>1. w' = Ring!Fixed(c)!next(w) /\ r' = Ring!Fixed(c)!next(r)
      BY <1>5, <2>1 DEF Ring!Fixed!readOr
    <3>2. Ring!Fixed(c)!count = 0 /\ Ring!Fixed(c)!count' = 0
      BY <2>1, <3>1 DEF Ring!Fixed!isEmpty, Ring!Fixed!count, Ring!Fixed!next, Ring!Fixed!Slots
    <3>3. Ring!Fixed(c)!Queue = << >> /\ Ring!Fixed(c)!Queue' = << >>
      BY <1>1, <3>2 DEF RingContents
    <3> QED
      BY <1>5, <2>1, <3>3 DEF Ring!Fixed!readOr, Ring!Fixed!Abstract!TakeOr
  <2>2. CASE ~Ring!Fixed(c)!isEmpty
    BY <1>2, <1>5, <2>2 DEF Ring!Fixed!readOr
  <2> QED
    BY <2>1, <2>2
<1>6. ASSUME NEW m \in 0 .. Ring!Fixed(c)!count, Ring!Fixed(c)!skipMany(m)
      PROVE  Ring!Fixed(c)!Abstract!Drop(m)
  <2>0. m \in Ring!Fixed(c)!Slots /\ m <= Ring!Fixed(c)!count
    BY <1>1, <1>6 DEF RingContents, Ring!Fixed!Slots
  <2>1. r' = Ring!Fixed(c)!Slot(m)
    BY <1>6, <2>0, RingWrapOnce DEF Ring!Fixed!skipMany, Ring!Fixed!Slot
  <2>2. /\ Ring!Fixed(c)!Queue' = SubSeq(Ring!Fixed(c)!Queue, m + 1, Len(Ring!Fixed(c)!Queue))
        /\ m <= Len(Ring!Fixed(c)!Queue)
    BY <1>1, <1>6, <2>0, <2>1, RingDrop DEF Ring!Fixed!skipMany, RingContents
  <2> QED
    BY <1>6, <2>0, <2>2 DEF Ring!Fixed!skipMany, Ring!Fixed!Abstract!Drop
<1>7. ASSUME NEW m \in 0 .. Ring!Fixed(c)!count, Ring!Fixed(c)!align(m)
      PROVE  Ring!Fixed(c)!Abstract!Keep(m)
  <2>0. m \in Ring!Fixed(c)!Slots /\ m <= Ring!Fixed(c)!count
    BY <1>1, <1>7 DEF RingContents, Ring!Fixed!Slots
  <2>1. w' = Ring!Fixed(c)!Slot(m)
    BY <1>7, <2>0, RingWrapOnce DEF Ring!Fixed!align, Ring!Fixed!Slot
  <2>2. Ring!Fixed(c)!count' = m
    BY <1>7, <2>0, <2>1
       DEF Ring!Fixed!align, Ring!Fixed!Slot, Ring!Fixed!Slots, Ring!Fixed!count
  <2>3. /\ Ring!Fixed(c)!Queue' \in Seq(Item) /\ Len(Ring!Fixed(c)!Queue') = m
        /\ m <= Len(Ring!Fixed(c)!Queue)
    BY <1>1, <1>7, <2>0, <2>2 DEF RingContents, Ring!Fixed!Slots
  <2>4. \A k \in 1 .. m : Ring!Fixed(c)!Slot(k - 1)' = Ring!Fixed(c)!Slot(k - 1)
    BY <1>7, <2>0 DEF Ring!Fixed!align, Ring!Fixed!Slot
  <2>5. ASSUME NEW k \in 1 .. m PROVE Ring!Fixed(c)!Queue'[k] = Ring!Fixed(c)!Queue[k]
    <3>1. k \in 1 .. Ring!Fixed(c)!count' /\ k \in 1 .. Ring!Fixed(c)!count
      BY <1>1, <1>7, <2>0, <2>2 DEF RingContents, Ring!Fixed!Slots
    <3>2. /\ Ring!Fixed(c)!Queue'[k] = elements'[Ring!Fixed(c)!Slot(k - 1)']
          /\ Ring!Fixed(c)!Queue[k] = elements[Ring!Fixed(c)!Slot(k - 1)]
      BY <1>1, <3>1 DEF RingContents
    <3> QED
      BY <1>7, <2>4, <3>2 DEF Ring!Fixed!align
  <2>6. Ring!Fixed(c)!Queue' = SubSeq(Ring!Fixed(c)!Queue, 1, m)
    BY <1>1, <2>3, <2>5 DEF RingContents, Ring!Fixed!Slots
  <2> QED
    BY <1>7, <2>0, <2>3, <2>6 DEF Ring!Fixed!align, Ring!Fixed!Abstract!Keep
<1> HIDE DEF Ring!Fixed!TypeOK, Ring!Fixed!Abstract!Room
<1> QED
  BY <1>2, <1>3, <1>4, <1>5, <1>6, <1>7 DEF Ring!Fixed!Promises

\* One step of the buffer is one step of the queue.
LEMMA RingQueueStep ==
    ASSUME NEW c \in Capacities, Ring!Fixed(c)!TypeOK, Ring!Fixed(c)!TypeOK', RingContents(c),
           RingContents(c)', [Ring!Fixed(c)!Next]_(Ring!Fixed(c)!vars)
    PROVE  [Ring!Fixed(c)!Abstract!Next]_<<Ring!Fixed(c)!Queue, got>>
<1>0. c \in Nat /\ c >= 2
  BY RingFacts
<1>1. RingContents(c) /\ RingContents(c)' /\ Ring!Fixed(c)!Promises
  BY RingPromises
<1>2. Ring!Fixed(c)!Slots = 0 .. Ring!Fixed(c)!Abstract!Room
  BY DEF Ring!Fixed!Slots, Ring!Fixed!Abstract!Room
<1>3. ASSUME Ring!Fixed(c)!clear \/ \E x \in Item : Ring!Fixed(c)!clearWith(x)
      PROVE  Ring!Fixed(c)!Abstract!Next
  <2>1. Ring!Fixed(c)!count' = 0
    BY <1>3 DEF Ring!Fixed!clear, Ring!Fixed!clearWith, Ring!Fixed!count
  <2>2. Ring!Fixed(c)!Queue' = << >>
    BY <1>1, <2>1 DEF RingContents
  <2> QED
    BY <1>3, <2>2
       DEF Ring!Fixed!clear, Ring!Fixed!clearWith, Ring!Fixed!Abstract!Clear,
           Ring!Fixed!Abstract!Next
<1>4. ASSUME Ring!Fixed(c)!read PROVE Ring!Fixed(c)!Abstract!Next
  BY <1>1, <1>4 DEF Ring!Fixed!Promises, Ring!Fixed!Abstract!Next
<1>5. ASSUME NEW x \in Item,
             Ring!Fixed(c)!readOr(x) \/ Ring!Fixed(c)!write(x) \/ Ring!Fixed(c)!put(x)
      PROVE  Ring!Fixed(c)!Abstract!Next
  BY <1>1, <1>5 DEF Ring!Fixed!Promises, Ring!Fixed!Abstract!Next
<1>6. ASSUME ~Ring!Fixed(c)!isEmpty, Ring!Fixed(c)!skip
      PROVE  Ring!Fixed(c)!Abstract!Next
  <2>1. Ring!Fixed(c)!skipMany(1) /\ 1 <= Ring!Fixed(c)!count /\ 1 \in Ring!Fixed(c)!Slots
    <3>1. 1 \in Ring!Fixed(c)!Slots /\ 1 <= Ring!Fixed(c)!count
      BY <1>6, <1>0
         DEF Ring!Fixed!skip, Ring!Fixed!isEmpty, Ring!Fixed!count, Ring!Fixed!Slots,
             Ring!Fixed!TypeOK
    <3>2. (r + 1) % c = IF r + 1 < c THEN r + 1 ELSE r + 1 - c
      BY <3>1, RingWrapOnce DEF Ring!Fixed!TypeOK
    <3>3. (r + 1) % c = Ring!Fixed(c)!next(r)
      BY <3>2, <1>0 DEF Ring!Fixed!TypeOK, Ring!Fixed!Slots, Ring!Fixed!next
    <3> QED
      BY <1>6, <3>1, <3>3 DEF Ring!Fixed!skip, Ring!Fixed!skipMany
  <2> QED
    <3>1. 1 \in 0 .. Ring!Fixed(c)!count
      BY <1>1, <2>1 DEF RingContents, Ring!Fixed!Slots
    <3> QED
      BY <1>1, <1>2, <2>1, <3>1 DEF Ring!Fixed!Promises, Ring!Fixed!Abstract!Next
<1>7. ASSUME NEW m \in 0 .. Ring!Fixed(c)!count,
             Ring!Fixed(c)!skipMany(m) \/ Ring!Fixed(c)!align(m)
      PROVE  Ring!Fixed(c)!Abstract!Next
  <2>1. m \in Ring!Fixed(c)!Slots
    BY <1>0, <1>1 DEF RingContents, Ring!Fixed!Slots
  <2> QED
    BY <1>1, <1>2, <1>7, <2>1 DEF Ring!Fixed!Promises, Ring!Fixed!Abstract!Next
<1>8. ASSUME NEW other \in RingOther(c), Ring!Fixed(c)!assign(other)
      PROVE  Ring!Fixed(c)!Abstract!Next
  <2>1. Ring!Fixed(c)!Queue' = Ring!Fixed(c)!Held(other)
    BY <1>8
       DEF Ring!Fixed!assign, Ring!Fixed!Queue, Ring!Fixed!Held, Ring!Fixed!count,
           Ring!Fixed!Slot
  <2> QED
    BY <1>8, <2>1 DEF Ring!Fixed!assign, Ring!Fixed!Abstract!Assign, Ring!Fixed!Abstract!Next,
       RingOther
<1>9. CASE UNCHANGED Ring!Fixed(c)!vars
  BY <1>9 DEF Ring!Fixed!vars, Ring!Fixed!Queue, Ring!Fixed!count, Ring!Fixed!Slot
<1>10. CASE Ring!Fixed(c)!TakeOut
  BY <1>3, <1>4, <1>10 DEF Ring!Fixed!TakeOut
<1>11. CASE Ring!Fixed(c)!PutIn
  BY <1>3, <1>5, <1>11 DEF Ring!Fixed!PutIn
<1>12. CASE Ring!Fixed(c)!ForwardInOrder \/ Ring!Fixed(c)!PlaceInOrder
  BY <1>6, <1>7, <1>12 DEF Ring!Fixed!ForwardInOrder, Ring!Fixed!PlaceInOrder
<1> QED
  BY <1>8, <1>9, <1>10, <1>11, <1>12 DEF Ring!Fixed!Next, RingOther

---------------------------------------------------------------------------
(* ResizableRingBuffer                                                       *)

\* The content of the buffer is a queue, whatever its capacity.
LEMMA RingContentsAlways ==
    \A c \in Capacities : Ring!Fixed(c)!TypeOK => RingContents(c)
BY RingQueueContents

LEMMA ResizableTypeStep == Ring!TypeOK /\ [Ring!Next]_(Ring!vars) => Ring!TypeOK'
<1> SUFFICES ASSUME Ring!TypeOK, [Ring!Next]_(Ring!vars) PROVE Ring!TypeOK'
  OBVIOUS
<1>1. PICK c \in Capacities : capacity = c /\ Ring!Fixed(c)!TypeOK
  BY DEF Ring!TypeOK
<1>2. ASSUME [Ring!Fixed(c)!Next]_(Ring!Fixed(c)!vars), capacity' = capacity
      PROVE  Ring!TypeOK'
  <2>1. Ring!Fixed(c)!TypeOK'
    BY <1>1, <1>2, RingTypeStep
  <2> QED
    BY <1>1, <1>2, <2>1 DEF Ring!TypeOK
<1>3. CASE Ring!Operation
  <2>1. Ring!Fixed(c)!Next /\ capacity' = capacity
    BY <1>1, <1>3 DEF Ring!Operation
  <2> QED
    BY <1>2, <2>1
<1>4. ASSUME NEW cap \in Capacities, Ring!resize(cap) PROVE Ring!TypeOK'
  <2>1. cap \in Nat /\ cap >= 2 /\ Default \in Item
    BY RingFacts
  <2>2. /\ elements' \in [0 .. cap - 1 -> Item] /\ r' = 0 /\ w' = 0 /\ got' \in Item
        /\ capacity' = cap
    BY <1>1, <1>4, <2>1 DEF Ring!resize, Ring!Fixed!TypeOK
  <2>3. 0 \in 0 .. cap - 1
    BY <2>1
  <2>4. Ring!Fixed(cap)!TypeOK'
    BY <2>2, <2>3 DEF Ring!Fixed!TypeOK, Ring!Fixed!Slots
  <2> QED
    BY <2>2, <2>4 DEF Ring!TypeOK
<1>5. CASE UNCHANGED Ring!vars
  <2>1. UNCHANGED Ring!Fixed(c)!vars /\ capacity' = capacity
    BY <1>5 DEF Ring!vars, Ring!Fixed!vars
  <2> QED
    BY <1>2, <2>1
<1> QED
  BY <1>3, <1>4, <1>5 DEF Ring!Next

LEMMA ResizableTypes == Ring!Spec => []Ring!TypeOK
<1>1. Ring!Init => Ring!TypeOK
  <2> SUFFICES ASSUME Ring!Init PROVE Ring!TypeOK
    OBVIOUS
  <2>1. PICK c \in Capacities : capacity = c /\ Ring!Fixed(c)!Init
    BY DEF Ring!Init
  <2>2. c \in Nat /\ c >= 2 /\ Default \in Item /\ 0 \in 0 .. c - 1
    BY RingFacts
  <2>3. Ring!Fixed(c)!TypeOK
    BY <2>1, <2>2 DEF Ring!Fixed!Init, Ring!Fixed!TypeOK, Ring!Fixed!Slots
  <2> QED
    BY <2>1, <2>3 DEF Ring!TypeOK
<1> QED
  BY <1>1, ResizableTypeStep, PTL DEF Ring!Spec

\* What ResizableIsQueue says of a step.
QueueOrEmpty ==
    \A c, d \in Capacities :
       capacity = c /\ capacity' = d =>
          IF c = d
          THEN Ring!Fixed(c)!Abstract!Next \/ UNCHANGED <<Ring!Fixed(c)!Queue, got>>
          ELSE d - 1 = Ring!Fixed(d)!free' /\ UNCHANGED got

LEMMA ResizableStep ==
    ASSUME Ring!TypeOK, Ring!TypeOK',
           \A c \in Capacities : Ring!Fixed(c)!TypeOK => RingContents(c),
           (\A c \in Capacities : Ring!Fixed(c)!TypeOK => RingContents(c))',
           Ring!Next
    PROVE  QueueOrEmpty
<1> SUFFICES ASSUME NEW c \in Capacities, NEW d \in Capacities, capacity = c, capacity' = d
             PROVE  IF c = d
                    THEN \/ Ring!Fixed(c)!Abstract!Next
                         \/ UNCHANGED <<Ring!Fixed(c)!Queue, got>>
                    ELSE d - 1 = Ring!Fixed(d)!free' /\ UNCHANGED got
  BY DEF QueueOrEmpty
<1>1. CASE c = d
  <2>1. Ring!Fixed(c)!TypeOK /\ Ring!Fixed(c)!TypeOK'
    BY <1>1 DEF Ring!TypeOK
  <2>2. RingContents(c) /\ RingContents(c)'
    BY <2>1
  <2>3. Ring!Fixed(c)!Next
    BY <1>1 DEF Ring!Next, Ring!Operation, Ring!resize
  <2>4. [Ring!Fixed(c)!Abstract!Next]_<<Ring!Fixed(c)!Queue, got>>
    BY <2>1, <2>2, <2>3, RingQueueStep
  <2> QED
    BY <1>1, <2>4
<1>2. CASE c # d
  <2>1. PICK cap \in Capacities : Ring!resize(cap)
    BY <1>2 DEF Ring!Next, Ring!Operation
  <2>2. r' = 0 /\ w' = 0 /\ got' = got
    BY <2>1 DEF Ring!resize
  <2>3. d \in Nat
    BY RingFacts
  <2>4. Ring!Fixed(d)!count' = 0
    BY <2>2 DEF Ring!Fixed!count
  <2>5. Ring!Fixed(d)!free' = d - 1
    BY <2>3, <2>4 DEF Ring!Fixed!free
  <2> QED
    BY <1>2, <2>2, <2>5
<1> QED
  BY <1>1, <1>2

LEMMA ResizableQueue == Ring!Spec => Ring!ResizableIsQueue
<1>1. /\ Ring!TypeOK /\ Ring!TypeOK'
      /\ \A c \in Capacities : Ring!Fixed(c)!TypeOK => RingContents(c)
      /\ (\A c \in Capacities : Ring!Fixed(c)!TypeOK => RingContents(c))'
      /\ [Ring!Next]_(Ring!vars)
      => [QueueOrEmpty]_(Ring!vars)
  BY ResizableStep
<1> QED
  BY <1>1, ResizableTypes, RingContentsAlways, PTL
     DEF Ring!Spec, Ring!ResizableIsQueue, QueueOrEmpty

---------------------------------------------------------------------------
(* The composition                                                           *)

\* For every capacity and all keys: insert() and write() keep the array in the
\* order of its keys, equal keys first come, first served, and lose or double no
\* element while they move others up.
THEOREM ArrayIsStable == Spec => []StableOrder
BY PartsAsAlone, SortedInvariant, SortedIsStable, PTL DEF StableOrder

\* Whatever capacities it is given in turn, the buffer is a bounded queue of its
\* capacity of the moment, and resize() empties it.
THEOREM ResizableBufferIsQueue == Spec => ResizableIsQueue
BY PartsAsAlone, ResizableQueue DEF ResizableIsQueue
============================================================================
