---------------------------- MODULE SortedArray ----------------------------
(* The array with sorted insert (include/utl/storage/RingBuffer.h).  The     *)
(* elements stand for their arrival: each one that is added is larger than   *)
(* those that are there, so that one can see what came first.                *)
EXTENDS Integers, FiniteSets

CONSTANTS Capacity,     \* template parameter 'capacity'
          Key,
          Other,        \* the arrays operator= copies from
          MaxArrivals   \* bound on the elements

Slots == 0 .. Capacity - 1
T     == 0 .. MaxArrivals

\* The first n entries are sorted, equal keys in the order of arrival.
Ordered(es, ks, n) == \A i, j \in 0 .. n - 1 :
                         i < j => \/ ks[i] < ks[j]
                                  \/ ks[i] = ks[j] /\ es[i] < es[j]

SortedArrayConstants ==
    /\ Capacity \in Nat \ {0}
    /\ MaxArrivals \in Nat
    /\ Key \subseteq Int
    /\ \A other \in Other :
          /\ other \in [elements : [Slots -> T], keys : [Slots -> Key], w : 0 .. Capacity]
          /\ Ordered(other.elements, other.keys, other.w)
          /\ \A i, j \in 0 .. other.w - 1 : other.elements[i] = other.elements[j] => i = j

VARIABLES elements, keys,
          w             \* write pointer

vars == <<elements, keys, w>>

TypeOK == /\ elements \in [Slots -> T]
          /\ keys \in [Slots -> Key]
          /\ w \in 0 .. Capacity

\* Slots nobody has written hold anything; 0 and some key stand for it.
Init == /\ elements = [i \in Slots |-> 0]
        /\ \E k \in Key : keys = [i \in Slots |-> k]
        /\ w = 0

Content == {elements[i] : i \in 0 .. w - 1}
isFull  == w = Capacity

\* The element that arrives next.
Latest == CHOOSE x \in 1 .. MaxArrivals + 1 :
             /\ \A y \in Content : y < x
             /\ x = 1 \/ x - 1 \in Content

\* Mutant of position: an element goes in front of its equals.
positionFirst(key) == CHOOSE n \in 0 .. w : /\ \A i \in n .. w - 1 : keys[i] >= key
                                            /\ n = 0 \/ keys[n - 1] < key

\* From the end, as long as the key before is larger.
position(key) == CHOOSE n \in 0 .. w : /\ \A i \in n .. w - 1 : keys[i] > key
                                       /\ n = 0 \/ keys[n - 1] <= key

\* A free spot is created at n, and filled with x.
Shifted(f, n, x) == [i \in Slots |-> IF i = n THEN x
                                     ELSE IF n < i /\ i <= w THEN f[i - 1] ELSE f[i]]

insert(key) == /\ ~isFull /\ Latest \in T
               /\ elements' = Shifted(elements, position(key), Latest)
               /\ keys' = Shifted(keys, position(key), key)
               /\ w' = w + 1

\* write() puts an element at the end, which is for callers who know that no
\* key is larger.
write(key) == /\ ~isFull /\ Latest \in T
              /\ w > 0 => keys[w - 1] <= key
              /\ elements' = [elements EXCEPT ![w] = Latest]
              /\ keys' = [keys EXCEPT ![w] = key]
              /\ w' = w + 1

\* Moves the write pointer, here back to where elements are.
align(offset) == offset <= w /\ w' = offset /\ UNCHANGED <<elements, keys>>

assign(other) == /\ elements' = other.elements
                 /\ keys' = other.keys
                 /\ w' = other.w

clear == w' = 0 /\ UNCHANGED <<elements, keys>>

clearWith(t) == /\ elements' = [i \in Slots |-> t]
                /\ w' = 0
                /\ UNCHANGED keys

Next == \/ \E k \in Key : insert(k) \/ write(k)
        \/ \E n \in 0 .. Capacity : align(n)
        \/ \E other \in Other : assign(other)
        \/ clear
        \/ \E t \in T : clearWith(t)

Spec == Init /\ [][Next]_vars

---------------------------------------------------------------------------
(* Properties                                                                *)

\* The array is in the order of the keys, equal keys first come, first served,
\* and no element is lost or doubled while others are moved up.
StableOrder == Ordered(elements, keys, w) /\ Cardinality(Content) = w
============================================================================
