------------------------- MODULE SortedRingBuffer -------------------------
(* The ring buffer with sorted insert (include/utl/storage/RingBuffer.h):    *)
(* a RingBuffer with a key in a second array beside each element.  Some      *)
(* clients use it as the plain buffer it inherits from, some as a sorted     *)
(* one, and some mix both and move the pointers past each other.             *)
EXTENDS Integers, Sequences

CONSTANTS Capacity, T, Default,
          Key,          \* the keys in use, a set of i64
          Other         \* the sorted buffers operator= copies from

SortedConstants == Capacity \in Nat /\ Capacity >= 2 /\ Default \in T

ASSUME ConstantsAssumption == SortedConstants
ASSUME KeyAssumption == Key \subseteq Int /\ Key # {}
ASSUME SortedOtherAssumption ==
    Other \subseteq [elements : [0 .. Capacity - 1 -> T],
                     keys : [0 .. Capacity - 1 -> Key],
                     r : 0 .. Capacity - 1, w : 0 .. Capacity - 1]

VARIABLES elements, r, w, got,  \* the base class
          keys,                 \* the keys, slot by slot
          use                   \* what the client does with the buffer

vars == <<elements, r, w, got, keys, use>>

Ring == INSTANCE RingBuffer

TypeOK == /\ Ring!TypeOK
          /\ keys \in [Ring!Slots -> Key]
          /\ use \in {"plain", "sorted", "any"}

\* Nobody initialises the keys.
Init == /\ Ring!Init
        /\ keys \in [Ring!Slots -> Key]
        /\ use \in {"plain", "sorted", "any"}

\* The slot n steps in front of the write pointer.
Back(n) == IF w - n >= 0 THEN w - n ELSE w - n + Capacity

\* Mutants of Passes: the loop is a single test; the loop stops at equal keys.
PassesOnce(key, n) ==
    n = IF Ring!count > 0 /\ ~ (key > keys[Back(1)]) THEN 1 ELSE 0

PassesLarger(key, n) == /\ n \in 0 .. Ring!count
                        /\ \A m \in 1 .. n : ~ (key >= keys[Back(m)])
                        /\ n < Ring!count => key >= keys[Back(n + 1)]

\* insert() swaps the new element with its predecessor until the predecessor
\* has a smaller key or there is none: it passes n elements.
Passes(key, n) == /\ n \in 0 .. Ring!count
                  /\ \A m \in 1 .. n : ~ (key > keys[Back(m)])
                  /\ n < Ring!count => key > keys[Back(n + 1)]

\* Mutant of Moved: the first swap is left out.
MovedShort(a, n, v) == [i \in Ring!Slots |->
                           IF i = Back(n) THEN v
                           ELSE IF \E m \in 1 .. n - 1 : i = Back(m) THEN a[Ring!prev(i)]
                           ELSE a[i]]

\* A slot array after the new value v has moved n slots back from slot w.
Moved(a, n, v) == [i \in Ring!Slots |->
                      IF i = Back(n) THEN v
                      ELSE IF \E m \in 0 .. n - 1 : i = Back(m) THEN a[Ring!prev(i)]
                      ELSE a[i]]

\* Mutant of insert: the write pointer does not wrap.
insertNoWrap(key, x) == /\ ~Ring!isFull
                        /\ \E n \in 0 .. Ring!count :
                              /\ Passes(key, n)
                              /\ elements' = Moved(elements, n, x)
                              /\ keys' = Moved(keys, n, key)
                        /\ w' = w + 1
                        /\ UNCHANGED <<r, got>>

insert(key, x) == /\ ~Ring!isFull
                  /\ \E n \in 0 .. Ring!count :
                        /\ Passes(key, n)
                        /\ elements' = Moved(elements, n, x)
                        /\ keys' = Moved(keys, n, key)
                  /\ w' = Ring!next(w)
                  /\ UNCHANGED <<r, got>>

append(key, x) == /\ ~Ring!isFull
                  /\ Ring!isEmpty \/ keys[Ring!prev(w)] <= key
                  /\ elements' = [elements EXCEPT ![w] = x]
                  /\ keys' = [keys EXCEPT ![w] = key]
                  /\ w' = Ring!next(w)
                  /\ UNCHANGED <<r, got>>

\* operator= copies the base class and the keys.
assign(other) == /\ Ring!assign(other)
                 /\ keys' = other.keys

\* The readers of the base class know nothing of keys, and need not.
Readers == /\ \/ Ring!TakeOut
              \/ Ring!ForwardInOrder
              \/ use = "any" /\ Ring!Forward
           /\ UNCHANGED keys

\* Its writers know nothing of them either, and leave the old keys in place.
Writers == /\ \/ use # "sorted" /\ (Ring!PutIn \/ Ring!PlaceInOrder)
              \/ use = "any" /\ Ring!Place
           /\ UNCHANGED keys

SortedWriters == /\ use # "plain"
                 /\ \E key \in Key, x \in T : insert(key, x) \/ append(key, x)

Next == /\ \/ SortedWriters
           \/ \E other \in Other : assign(other)
           \/ Readers
           \/ Writers
        /\ UNCHANGED use

Spec == Init /\ [][Next]_vars

---------------------------------------------------------------------------
(* Properties                                                                *)

\* Used as what it inherits from, the buffer is a queue: reads hand out what
\* was written, in that order, once; a write to a full buffer does not happen;
\* put() costs the oldest element and no other.
IsQueue == /\ Ring!Abstract!Init
           /\ [][use = "plain" => Ring!Abstract!Next]_<<Ring!Queue, got>>

\* Each operation does to the queue what its name says: a refused write is not
\* a lost one, put() to a full buffer is not a clear(), also when pointers were
\* moved past each other before.
OperationsKeepPromises == [][Ring!Promises]_vars

\* The content with its keys.
Entries == [k \in 1 .. Ring!count |-> [key  |-> keys[Ring!Slot(k - 1)],
                                       item |-> elements[Ring!Slot(k - 1)]]]

HeldEntries(o) ==
    LET items == Ring!Held(o)
        keysOf == Ring!Held([o EXCEPT !.elements = o.keys])
    IN  [k \in DOMAIN items |-> [key |-> keysOf[k], item |-> items[k]]]

Abstract == INSTANCE SortedQueue
                WITH queue <- Entries, Item <- T, Copies <- {HeldEntries(o) : o \in Other}

\* As long as everything that goes in has a key, the buffer is a sorted queue;
\* elements with equal keys come out last in, first out after insert(), and
\* first in, first out after append().
IsSortedQueue == /\ Abstract!Init
                 /\ [][use = "sorted" => Abstract!Next]_<<Entries, got>>

\* The views of the base class agree, whatever its pointers were moved to.
ViewsAgree == Ring!ViewsAgree

\* The content is in the order of its keys: reading until the buffer is empty
\* yields the elements by key, wherever the buffer wraps around.
InOrder == use = "sorted" => Abstract!Sorted(Entries)

\* Whatever the keys are, old ones from writers that know nothing of keys
\* included, insert() adds one entry and loses, doubles or reorders no other.
InsertAddsOne ==
    [][\A key \in Key, x \in T : insert(key, x) =>
          \E n \in 0 .. Ring!count :
             Entries' = Abstract!InsertAt(Entries, n, [key |-> key, item |-> x])]_vars
===========================================================================
