------------------------- MODULE RingBuffer_proofs -------------------------
(* Proofs about the base class of SortedRingBuffer, for every capacity and   *)
(* every set of elements, also for clients that mix its writers with those   *)
(* that sort.                                                                *)
EXTENDS SortedRingBuffer_proofs

---------------------------------------------------------------------------
(* Contents                                                                  *)

LEMMA SlotInSlots ==
    SortedConstants /\ Ring!TypeOK => \A k \in Ring!Slots : Ring!Slot(k) \in Ring!Slots
BY DEF SortedConstants, Ring!TypeOK, Ring!Slots, Ring!Slot

\* What the content of the buffer is, element by element.
QueueContents == /\ Ring!count \in Ring!Slots
                 /\ Ring!Queue \in Seq(T)
                 /\ Len(Ring!Queue) = Ring!count
                 /\ \A k \in 1 .. Ring!count : Ring!Queue[k] = elements[Ring!Slot(k - 1)]

LEMMA QueueIs == SortedConstants /\ Ring!TypeOK => QueueContents
<1> SUFFICES ASSUME SortedConstants, Ring!TypeOK PROVE QueueContents
  OBVIOUS
<1>1. Ring!count \in Ring!Slots
  BY DEF SortedConstants, Ring!TypeOK, Ring!Slots, Ring!count
<1>2. \A k \in 1 .. Ring!count : elements[Ring!Slot(k - 1)] \in T
  <2> TAKE k \in 1 .. Ring!count
  <2>1. k - 1 \in Ring!Slots
    BY <1>1 DEF SortedConstants, Ring!Slots
  <2> QED
    BY <2>1, SlotInSlots DEF Ring!TypeOK
<1>3. Ring!Queue \in [1 .. Ring!count -> T]
  BY <1>2 DEF Ring!Queue
<1> QED
  BY <1>1, <1>3 DEF Ring!Queue, Ring!Slots, QueueContents

LEMMA QueueWillBe == SortedConstants /\ Ring!TypeOK' => QueueContents'
<1>1. SortedConstants => SortedConstants'
  BY DEF SortedConstants
<1> QED
  BY <1>1, QueueIs, PTL

\* Moving the read pointer n elements on drops the n oldest elements.
LEMMA QueueDrop ==
    ASSUME SortedConstants, Ring!TypeOK, QueueContents, QueueContents',
           NEW n \in Ring!Slots, n <= Ring!count,
           elements' = elements, w' = w, r' = Ring!Slot(n)
    PROVE  Ring!Queue' = SubSeq(Ring!Queue, n + 1, Len(Ring!Queue))
<1>1. Ring!count' = Ring!count - n
  BY DEF SortedConstants, Ring!TypeOK, Ring!Slots, Ring!Slot, Ring!count
<1>2. \A k \in 1 .. Ring!count - n : Ring!Slot(k - 1)' = Ring!Slot(k + n - 1)
  BY DEF SortedConstants, Ring!TypeOK, Ring!Slots, Ring!Slot, Ring!count, QueueContents
<1>3. \A k \in 1 .. Ring!count - n : Ring!Queue'[k] = Ring!Queue[k + n]
  <2> TAKE k \in 1 .. Ring!count - n
  <2>1. k \in 1 .. Ring!count' /\ k + n \in 1 .. Ring!count
    BY <1>1 DEF QueueContents, Ring!Slots
  <2>2. /\ Ring!Queue'[k] = elements'[Ring!Slot(k - 1)']
        /\ Ring!Queue[k + n] = elements[Ring!Slot(k + n - 1)]
    BY <1>1, <2>1 DEF QueueContents, Ring!Slots
  <2> QED
    BY <1>2, <2>2
<1> QED
  BY <1>1, <1>3 DEF QueueContents, Ring!Slots

\* Writing to the slot at the write pointer and moving that on adds an element.
LEMMA QueueWrite ==
    ASSUME SortedConstants, Ring!TypeOK, QueueContents, QueueContents',
           NEW x \in T, ~Ring!isFull,
           elements' = [elements EXCEPT ![w] = x], w' = Ring!next(w), r' = r
    PROVE  Ring!Queue' = Append(Ring!Queue, x)
<1>1. Ring!count' = Ring!count + 1
  BY DEF SortedConstants, Ring!TypeOK, Ring!Slots, Ring!isFull, Ring!count, Ring!next
<1>2. \A k \in 1 .. Ring!count : Ring!Slot(k - 1)' = Ring!Slot(k - 1) /\ Ring!Slot(k - 1) # w
  BY DEF SortedConstants, Ring!TypeOK, Ring!Slots, Ring!Slot, Ring!count, QueueContents
<1>3. \A k \in Nat : k = Ring!count => Ring!Slot(k)' = w
  BY DEF SortedConstants, Ring!TypeOK, Ring!Slots, Ring!Slot, Ring!count
<1>4. ASSUME NEW k \in 1 .. Ring!count PROVE Ring!Queue'[k] = Ring!Queue[k]
  <2>1. k \in 1 .. Ring!count' /\ k - 1 \in Ring!Slots
    BY <1>1 DEF SortedConstants, QueueContents, Ring!Slots
  <2>2. Ring!Queue'[k] = elements'[Ring!Slot(k - 1)']
    BY <2>1 DEF QueueContents
  <2>3. Ring!Queue[k] = elements[Ring!Slot(k - 1)]
    BY DEF QueueContents
  <2> QED
    BY <2>1, <2>2, <2>3, <1>2, SlotInSlots DEF Ring!TypeOK
<1>5. Ring!Queue'[Ring!count + 1] = x
  <2> DEFINE n == Ring!count
  <2>1. n \in Nat /\ n + 1 \in 1 .. Ring!count' /\ n + 1 - 1 = n
    BY <1>1 DEF SortedConstants, QueueContents, Ring!Slots
  <2> QED
    BY <2>1, <1>1, <1>3 DEF QueueContents, Ring!TypeOK
<1> QED
  BY <1>1, <1>4, <1>5 DEF QueueContents, Ring!Slots

\* put() into a full buffer costs the oldest element.
LEMMA QueuePush ==
    ASSUME SortedConstants, Ring!TypeOK, QueueContents, QueueContents',
           NEW x \in T, Ring!isFull,
           elements' = [elements EXCEPT ![w] = x], w' = Ring!next(w), r' = Ring!next(r)
    PROVE  Ring!Queue' = Append(Tail(Ring!Queue), x)
<1>1. Ring!count' = Ring!count /\ Ring!count = Capacity - 1
  BY DEF SortedConstants, Ring!TypeOK, Ring!Slots, Ring!isFull, Ring!count, Ring!next
<1>2. \A k \in 1 .. Ring!count - 1 : Ring!Slot(k - 1)' = Ring!Slot(k) /\ Ring!Slot(k) # w
  BY DEF SortedConstants, Ring!TypeOK, Ring!Slots, Ring!Slot, Ring!count, QueueContents,
         Ring!next, Ring!isFull
<1>3. \A k \in Nat : k = Ring!count - 1 => Ring!Slot(k)' = w
  BY DEF SortedConstants, Ring!TypeOK, Ring!Slots, Ring!Slot, Ring!count, Ring!next,
         Ring!isFull
<1>4. ASSUME NEW k \in 1 .. Ring!count - 1 PROVE Ring!Queue'[k] = Ring!Queue[k + 1]
  <2>1. k \in 1 .. Ring!count' /\ k \in Ring!Slots /\ k + 1 \in 1 .. Ring!count /\ k + 1 - 1 = k
    BY <1>1 DEF SortedConstants, Ring!Slots
  <2>2. Ring!Queue'[k] = elements'[Ring!Slot(k - 1)']
    BY <2>1 DEF QueueContents
  <2>3. Ring!Queue[k + 1] = elements[Ring!Slot(k)]
    BY <2>1 DEF QueueContents
  <2> QED
    BY <2>1, <2>2, <2>3, <1>2, SlotInSlots DEF Ring!TypeOK
<1>5. Ring!Queue'[Ring!count] = x
  <2>1. Ring!count - 1 \in Nat /\ Ring!count \in 1 .. Ring!count'
    BY <1>1 DEF SortedConstants
  <2> QED
    BY <2>1, <1>1, <1>3 DEF QueueContents, Ring!TypeOK
<1> QED
  BY <1>1, <1>4, <1>5 DEF SortedConstants, QueueContents, Ring!Slots

---------------------------------------------------------------------------
(* The buffer is a queue                                                     *)

\* Each operation, from any state of the right type.
LEMMA PromisesLemma ==
    ASSUME SortedConstants, Ring!TypeOK, Ring!TypeOK'
    PROVE  Ring!Promises
<1> USE DEF SortedConstants, Ring!TypeOK, Ring!Abstract!Room
<1>1. QueueContents /\ QueueContents'
  BY QueueIs, QueueWillBe
<1>2. ASSUME Ring!read PROVE Ring!Abstract!Take
  <2>1. Ring!count # 0 /\ Ring!Slot(0) = r /\ Ring!next(r) = Ring!Slot(1) /\ 1 \in Ring!Slots
    BY <1>2 DEF Ring!read, Ring!isEmpty, Ring!count, Ring!Slot, Ring!Slots, Ring!next
  <2>2. Ring!Queue # << >> /\ Head(Ring!Queue) = elements[r]
    <3>1. 1 \in 1 .. Ring!count /\ Len(Ring!Queue) > 0 /\ 1 - 1 = 0
      BY <1>1, <2>1 DEF QueueContents, Ring!Slots
    <3>2. Ring!Queue[1] = elements[Ring!Slot(1 - 1)]
      BY <1>1, <3>1 DEF QueueContents
    <3>3. Ring!Queue[1] = elements[r]
      BY <2>1, <3>1, <3>2
    <3> QED
      BY <1>1, <3>1, <3>3 DEF QueueContents
  <2>3. Ring!Queue' = SubSeq(Ring!Queue, 2, Len(Ring!Queue))
    BY <1>1, <1>2, <2>1, QueueDrop DEF Ring!read, QueueContents, Ring!Slots
  <2>4. Ring!Queue' = Tail(Ring!Queue)
    BY <1>1, <2>2, <2>3 DEF QueueContents
  <2> QED
    BY <1>2, <2>2, <2>4 DEF Ring!read, Ring!Abstract!Take
<1>3. ASSUME NEW x \in T, Ring!write(x) PROVE Ring!Abstract!Enqueue(x)
  <2>1. Ring!Queue' = Append(Ring!Queue, x)
    BY <1>1, <1>3, QueueWrite DEF Ring!write
  <2>2. Len(Ring!Queue) < Ring!Abstract!Room
    BY <1>1, <1>3 DEF Ring!write, Ring!isFull, QueueContents, Ring!Slots
  <2> QED
    BY <1>3, <2>1, <2>2 DEF Ring!write, Ring!Abstract!Enqueue
<1>4. ASSUME NEW x \in T, Ring!put(x) PROVE Ring!Abstract!Push(x)
  <2>1. Ring!isFull <=> Ring!next(w) = r
    BY DEF Ring!isFull, Ring!next, Ring!count, Ring!Slots
  <2>2. CASE Ring!isFull
    <3>1. Ring!Queue' = Append(Tail(Ring!Queue), x)
      BY <1>1, <1>4, <2>1, <2>2, QueuePush DEF Ring!put
    <3>2. Len(Ring!Queue) = Ring!Abstract!Room
      BY <1>1, <2>2 DEF Ring!isFull, QueueContents
    <3> QED
      BY <1>4, <3>1, <3>2 DEF Ring!put, Ring!Abstract!Push
  <2>3. CASE ~Ring!isFull
    <3>1. Ring!Queue' = Append(Ring!Queue, x)
      BY <1>1, <1>4, <2>1, <2>3, QueueWrite DEF Ring!put
    <3>2. Len(Ring!Queue) # Ring!Abstract!Room
      BY <1>1, <2>3 DEF Ring!isFull, QueueContents
    <3> QED
      BY <1>4, <3>1, <3>2 DEF Ring!put, Ring!Abstract!Push
  <2> QED
    BY <2>2, <2>3
<1>5. ASSUME NEW x \in T, Ring!readOr(x) PROVE Ring!Abstract!Take \/ Ring!Abstract!TakeOr(x)
  <2>1. CASE Ring!isEmpty
    <3>1. w' = Ring!next(w) /\ r' = Ring!next(r)
      BY <1>5, <2>1 DEF Ring!readOr
    <3>2. Ring!count = 0 /\ Ring!count' = 0
      BY <2>1, <3>1 DEF Ring!isEmpty, Ring!count, Ring!next, Ring!Slots
    <3>3. Ring!Queue = << >> /\ Ring!Queue' = << >>
      BY <1>1, <3>2 DEF QueueContents
    <3> QED
      BY <1>5, <2>1, <3>3 DEF Ring!readOr, Ring!Abstract!TakeOr
  <2>2. CASE ~Ring!isEmpty
    BY <1>2, <1>5, <2>2 DEF Ring!readOr
  <2> QED
    BY <2>1, <2>2
<1>6. ASSUME NEW n \in 0 .. Ring!count, Ring!skipMany(n) PROVE Ring!Abstract!Drop(n)
  <2>0. n \in Ring!Slots /\ n <= Ring!count
    BY <1>1, <1>6 DEF QueueContents, Ring!Slots
  <2>1. r' = Ring!Slot(n)
    BY <1>6, <2>0, WrapOnce DEF Ring!skipMany, Ring!Slot, Ring!Slots
  <2>2. Ring!Queue' = SubSeq(Ring!Queue, n + 1, Len(Ring!Queue)) /\ n <= Len(Ring!Queue)
    BY <1>1, <1>6, <2>0, <2>1, QueueDrop DEF Ring!skipMany, QueueContents
  <2> QED
    BY <1>6, <2>0, <2>2 DEF Ring!skipMany, Ring!Abstract!Drop
<1>7. ASSUME NEW n \in 0 .. Ring!count, Ring!align(n) PROVE Ring!Abstract!Keep(n)
  <2>0. n \in Ring!Slots /\ n <= Ring!count
    BY <1>1, <1>7 DEF QueueContents, Ring!Slots
  <2>1. w' = Ring!Slot(n)
    BY <1>7, <2>0, WrapOnce DEF Ring!align, Ring!Slot, Ring!Slots
  <2>2. Ring!count' = n
    BY <1>7, <2>0, <2>1 DEF Ring!align, Ring!Slot, Ring!Slots, Ring!count
  <2>3. Ring!Queue' \in Seq(T) /\ Len(Ring!Queue') = n /\ n <= Len(Ring!Queue)
    BY <1>1, <1>7, <2>0, <2>2 DEF QueueContents, Ring!Slots
  <2>4. \A k \in 1 .. n : Ring!Slot(k - 1)' = Ring!Slot(k - 1)
    BY <1>7, <2>0 DEF Ring!align, Ring!Slot
  <2>5. ASSUME NEW k \in 1 .. n PROVE Ring!Queue'[k] = Ring!Queue[k]
    <3>1. k \in 1 .. Ring!count' /\ k \in 1 .. Ring!count
      BY <1>1, <1>7, <2>0, <2>2 DEF QueueContents, Ring!Slots
    <3>2. /\ Ring!Queue'[k] = elements'[Ring!Slot(k - 1)']
          /\ Ring!Queue[k] = elements[Ring!Slot(k - 1)]
      BY <1>1, <3>1 DEF QueueContents
    <3> QED
      BY <1>7, <2>4, <3>2 DEF Ring!align
  <2>6. Ring!Queue' = SubSeq(Ring!Queue, 1, n)
    BY <1>1, <2>3, <2>5 DEF QueueContents, Ring!Slots
  <2> QED
    BY <1>7, <2>0, <2>3, <2>6 DEF Ring!align, Ring!Abstract!Keep
<1> HIDE DEF Ring!TypeOK, Ring!Abstract!Room
<1> QED
  BY <1>2, <1>3, <1>4, <1>5, <1>6, <1>7 DEF Ring!Promises

\* Whatever callers do with the pointers, and whatever else they write, each
\* operation does to the content what it says, for every capacity.
THEOREM OperationsCorrect ==
    ASSUME SortedConstants
    PROVE  Spec => OperationsKeepPromises
<1>1. TypeOK /\ TypeOK' /\ [Next]_vars => [Ring!Promises]_vars
  BY PromisesLemma DEF TypeOK
<1> QED
  BY <1>1, TypeCorrect, PTL DEF Spec, OperationsKeepPromises

\* A step of a client who uses the plain buffer is a step of the queue.
LEMMA PlainStep ==
    ASSUME use = "plain", SortedConstants, TypeOK, TypeOK', [Next]_vars
    PROVE  [Ring!Abstract!Next]_<<Ring!Queue, got>>
<1>1. /\ QueueContents /\ QueueContents' /\ Ring!Promises
      /\ r \in Ring!Slots /\ w \in Ring!Slots
  BY QueueIs, QueueWillBe, PromisesLemma DEF TypeOK, Ring!TypeOK
<1>2. Ring!Slots = 0 .. Ring!Abstract!Room /\ \A n \in 0 .. Ring!count : n \in Ring!Slots
  BY <1>1 DEF SortedConstants, QueueContents, Ring!Slots, Ring!Abstract!Room
<1>3. ASSUME Ring!clear \/ \E x \in T : Ring!clearWith(x) PROVE Ring!Abstract!Next
  <2>1. Ring!count' = 0
    BY <1>3 DEF Ring!clear, Ring!clearWith, Ring!count
  <2>2. Ring!Queue' = << >>
    BY <1>1, <2>1 DEF QueueContents
  <2> QED
    BY <1>3, <2>2 DEF Ring!clear, Ring!clearWith, Ring!Abstract!Clear, Ring!Abstract!Next
<1>4. ASSUME Ring!read PROVE Ring!Abstract!Next
  BY <1>1, <1>4 DEF Ring!Promises, Ring!Abstract!Next
<1>5. ASSUME NEW x \in T, Ring!readOr(x) \/ Ring!write(x) \/ Ring!put(x)
      PROVE  Ring!Abstract!Next
  BY <1>1, <1>5 DEF Ring!Promises, Ring!Abstract!Next
<1>6. ASSUME NEW n \in 0 .. Ring!count, Ring!skipMany(n) \/ Ring!align(n)
      PROVE  Ring!Abstract!Next
  BY <1>1, <1>2, <1>6 DEF Ring!Promises, Ring!Abstract!Next
<1>7. ASSUME ~Ring!isEmpty, Ring!skip PROVE Ring!Abstract!Next
  <2>1. 1 \in Ring!Slots /\ 1 \in 0 .. Ring!count
    BY <1>1, <1>7 DEF SortedConstants, Ring!isEmpty, Ring!count, Ring!Slots
  <2>2. (r + 1) % Capacity = IF r + 1 < Capacity THEN r + 1 ELSE r + 1 - Capacity
    BY <1>1, <2>1, WrapOnce DEF Ring!Slots
  <2>3. (r + 1) % Capacity = Ring!next(r)
    BY <1>1, <2>2 DEF SortedConstants, Ring!Slots, Ring!next
  <2> QED
    BY <1>6, <1>7, <2>1, <2>3 DEF Ring!skip, Ring!skipMany
<1>8. ASSUME NEW other \in Other, assign(other) PROVE Ring!Abstract!Next
  <2>1. Ring!Queue' = Ring!Held(other)
    BY <1>8 DEF assign, Ring!assign, Ring!Queue, Ring!Held, Ring!count, Ring!Slot
  <2> QED
    BY <1>8, <2>1 DEF assign, Ring!assign, Ring!Abstract!Assign, Ring!Abstract!Next
<1>9. CASE UNCHANGED vars
  BY <1>9 DEF vars, Ring!Queue, Ring!count, Ring!Slot
<1>10. CASE Readers
  BY <1>3, <1>4, <1>6, <1>7, <1>10 DEF Readers, Ring!TakeOut, Ring!ForwardInOrder
<1>11. CASE Writers
  BY <1>3, <1>5, <1>6, <1>11 DEF Writers, Ring!PutIn, Ring!PlaceInOrder
<1> QED
  BY <1>8, <1>9, <1>10, <1>11 DEF Next, SortedWriters

\* As long as nobody moves a pointer past the other one or inserts by key, the
\* ring buffer is a bounded queue, whatever its capacity and its elements.
THEOREM RingBufferIsQueue ==
    ASSUME SortedConstants
    PROVE  Spec => IsQueue
<1>1. Init => Ring!Abstract!Init
  <2> SUFFICES ASSUME Init PROVE Ring!Abstract!Init
    OBVIOUS
  <2>1. Ring!count = 0
    BY DEF Init, Ring!Init, Ring!count
  <2> QED
    BY <2>1 DEF SortedConstants, Init, Ring!Init, Ring!Queue, Ring!Abstract!Init
<1>2. TypeOK /\ TypeOK' /\ [Next]_vars
         => [use = "plain" => Ring!Abstract!Next]_<<Ring!Queue, got>>
  BY PlainStep
<1> QED
  BY <1>1, <1>2, TypeCorrect, PTL DEF Spec, IsQueue
============================================================================
