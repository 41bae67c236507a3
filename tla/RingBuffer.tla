---------------------------- MODULE RingBuffer ----------------------------
(* The fixed-size ring buffer (include/utl/storage/RingBuffer.h).  The read  *)
(* pointer and the write pointer chase each other through the slots; equal   *)
(* pointers mean empty, so one slot always stays unused.  What the buffer    *)
(* promises is checked in SortedRingBuffer, the class that inherits from it. *)
EXTENDS Integers, Sequences

CONSTANTS Capacity,     \* template parameter 'capacity'
          T,            \* template parameter 'T': the elements
          Default,      \* T(): the slots are value-initialised
          Other         \* the buffers operator= copies from

VARIABLES elements,     \* the slots
          r, w,         \* read and write pointer
          got           \* what read() returned last

vars == <<elements, r, w, got>>

Slots == 0 .. Capacity - 1

\* Working with indices
next(i) == IF i < Capacity - 1 THEN i + 1 ELSE 0
prev(i) == IF i > 0 THEN i - 1 ELSE Capacity - 1

\* Querying the fill status
\* Mutant of count: an empty buffer counts as full of elements.
countFull == IF r >= w THEN Capacity - (r - w) ELSE w - r

count   == IF r > w THEN Capacity - (r - w) ELSE w - r
free    == Capacity - count - 1
isEmpty == r = w
isFull  == count = Capacity - 1

TypeOK == /\ elements \in [Slots -> T]
          /\ r \in Slots
          /\ w \in Slots
          /\ got \in T

Init == /\ elements = [i \in Slots |-> Default]
        /\ r = 0
        /\ w = 0
        /\ got = Default

---------------------------------------------------------------------------
clear == /\ r' = 0
         /\ w' = 0
         /\ UNCHANGED <<elements, got>>

clearWith(t) == /\ r' = 0
                /\ w' = 0
                /\ elements' = [i \in Slots |-> t]
                /\ UNCHANGED got

\* The write pointer is placed relative to the read pointer; whatever lies
\* between the two counts as content, old slots included.
align(offset) == /\ w' = (r + offset) % Capacity
                 /\ UNCHANGED <<elements, r, got>>

\* operator= copies the slots and both pointers of another buffer.
assign(other) == /\ elements' = other.elements
                 /\ r' = other.r
                 /\ w' = other.w
                 /\ UNCHANGED got

\* Mutant of read: hands out the newest element.
readLatest == /\ ~isEmpty
              /\ got' = elements[prev(w)]
              /\ r' = next(r)
              /\ UNCHANGED <<elements, w>>

read == /\ ~isEmpty
        /\ got' = elements[r]
        /\ r' = next(r)
        /\ UNCHANGED <<elements, w>>

\* An empty buffer is given the fallback first, which is then read.
readOr(fallback) ==
    IF isEmpty
    THEN /\ elements' = [elements EXCEPT ![w] = fallback]
         /\ got' = fallback
         /\ w' = next(w)
         /\ r' = next(r)
    ELSE read

write(x) == /\ ~isFull
            /\ elements' = [elements EXCEPT ![w] = x]
            /\ w' = next(w)
            /\ UNCHANGED <<r, got>>

\* Mutant of put: the read pointer is not pushed on.
putForgets(x) == /\ elements' = [elements EXCEPT ![w] = x]
                 /\ w' = next(w)
                 /\ UNCHANGED <<r, got>>

put(x) == /\ elements' = [elements EXCEPT ![w] = x]
          /\ w' = next(w)
          /\ r' = IF next(w) = r THEN next(r) ELSE r
          /\ UNCHANGED got

\* skip() looks neither at the write pointer nor at the count.
skip == /\ r' = next(r)
        /\ UNCHANGED <<elements, w, got>>

skipMany(n) == /\ r' = (r + n) % Capacity
               /\ UNCHANGED <<elements, w, got>>

\* Calls by type: those that take elements out or give them up, those that put
\* elements in, and those that place a pointer.  The latter are in order when
\* the pointers do not pass each other.
TakeOut == clear \/ read
PutIn   == \E x \in T : clearWith(x) \/ readOr(x) \/ write(x) \/ put(x)
Forward == skip \/ \E n \in Slots : skipMany(n)
ForwardInOrder == (~isEmpty /\ skip) \/ \E n \in 0 .. count : skipMany(n)
Place   == \E n \in Slots : align(n)
PlaceInOrder == \E n \in 0 .. count : align(n)

\* The calls of a client who minds the order of the pointers.
Next == \/ TakeOut
        \/ PutIn
        \/ ForwardInOrder
        \/ PlaceInOrder
        \/ \E other \in Other : assign(other)

---------------------------------------------------------------------------
\* The slot of the k-th element behind the read pointer, k counted from 0.
Slot(k) == IF r + k < Capacity THEN r + k ELSE r + k - Capacity

Queue == [k \in 1 .. count |-> elements[Slot(k - 1)]]

\* vector() walks from begin() to end(); Walk[n] is where it is after n steps.
Walk[n \in Nat] == IF n = 0 THEN r ELSE next(Walk[n - 1])

WalkLength == CHOOSE n \in 0 .. Capacity : /\ Walk[n] = w
                                           /\ \A m \in 0 .. n - 1 : Walk[m] # w
vector == [k \in 1 .. WalkLength |-> elements[Walk[k - 1]]]
current(offset) == elements[(r + offset) % Capacity]
latest == elements[prev(w)]

---------------------------------------------------------------------------
(* Properties                                                                *)

\* The four ways to look at the content agree, wherever the pointers are:
\* count(), the walk of vector(), the offsets of current() and latest().
ViewsAgree == /\ vector = Queue
              /\ \A k \in 0 .. count - 1 : current(k) = Queue[k + 1]
              /\ count > 0 => latest = Queue[count]
              /\ count + free = Capacity - 1

\* What another buffer has to hand over.
Held(o) ==
    [k \in 1 .. (IF o.r > o.w THEN Capacity - (o.r - o.w) ELSE o.w - o.r) |->
        o.elements[IF o.r + (k - 1) < Capacity THEN o.r + (k - 1)
                                               ELSE o.r + (k - 1) - Capacity]]

Abstract == INSTANCE BoundedQueue
                WITH queue <- Queue, Item <- T, Copies <- {Held(o) : o \in Other}

\* Each operation does to the queue what its name says: a refused write is not
\* a lost one, put() to a full buffer is not a clear(), also when pointers were
\* moved past each other before.
Promises ==
    /\ read => Abstract!Take
    /\ \A x \in T : /\ write(x) => Abstract!Enqueue(x)
                    /\ put(x) => Abstract!Push(x)
                    /\ readOr(x) => Abstract!Take \/ Abstract!TakeOr(x)
    /\ \A n \in 0 .. count : /\ skipMany(n) => Abstract!Drop(n)
                             /\ align(n) => Abstract!Keep(n)
===========================================================================
