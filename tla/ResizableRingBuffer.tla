------------------------ MODULE ResizableRingBuffer -------------------------
(* The ring buffer whose capacity is a variable (include/utl/storage/        *)
(* RingBuffer.h).  Between two calls of resize() it does what the fixed-size *)
(* buffer of that capacity does; its code is the same but for the capacity.  *)
EXTENDS Integers, Sequences

CONSTANTS Capacities,   \* the capacities clients ask for
          T, Default,   \* the elements; T()
          Other         \* the buffers operator= copies from

ResizableConstants ==
    /\ \A c \in Capacities : c \in Nat /\ c >= 2
    /\ Default \in T
    /\ \A o \in Other : \E c \in Capacities :
          o \in [elements : [0 .. c - 1 -> T], r : 0 .. c - 1, w : 0 .. c - 1]

VARIABLES capacity, elements, r, w, got

vars == <<capacity, elements, r, w, got>>

\* operator= is modelled between buffers of equal capacity only.  Of a larger
\* buffer the code would copy pointers that may lie outside of its own array, of
\* a smaller one slots that do not exist; nothing in it compares the capacities.
Fixed(c) == INSTANCE RingBuffer
               WITH Capacity <- c,
                    Other <- {o \in Other : DOMAIN o.elements = 0 .. c - 1}

TypeOK == \E c \in Capacities : capacity = c /\ Fixed(c)!TypeOK

Init == \E c \in Capacities : capacity = c /\ Fixed(c)!Init

\* Mutant of resize: the pointers stay where they are.
resizeOnly(cap) == /\ cap # capacity
                   /\ capacity' = cap
                   /\ elements' = [i \in 0 .. cap - 1 |-> Default]
                   /\ UNCHANGED <<r, w, got>>

\* The content is given up.
resize(cap) == /\ cap # capacity
               /\ capacity' = cap
               /\ elements' = [i \in 0 .. cap - 1 |-> Default]
               /\ r' = 0 /\ w' = 0
               /\ UNCHANGED got

\* All operations of the fixed-size buffer.
Operation == \E c \in Capacities : /\ capacity = c
                                   /\ Fixed(c)!Next
                                   /\ UNCHANGED capacity

Next == Operation \/ \E cap \in Capacities : resize(cap)

Spec == Init /\ [][Next]_vars

---------------------------------------------------------------------------
(* Properties                                                                *)

\* A bounded queue of the capacity of the moment; resize() empties it, and what
\* it held does not come back.
ResizableIsQueue ==
    [][\A c, d \in Capacities :
          capacity = c /\ capacity' = d =>
             IF c = d
             THEN Fixed(c)!Abstract!Next \/ UNCHANGED <<Fixed(c)!Queue, got>>
             ELSE d - 1 = Fixed(d)!free' /\ UNCHANGED got]_vars
============================================================================
