--------------------------- MODULE BoundedQueue ---------------------------
(* What a ring buffer of a given capacity promises: a queue with room for    *)
(* Capacity - 1 items.                                                       *)
EXTENDS Integers, Sequences

CONSTANTS Capacity, Item,
          Copies    \* the contents of the queues this one may be made equal to

VARIABLES queue,    \* the items, oldest first
          got       \* the item the last read handed out

Room == Capacity - 1

Init == /\ queue = << >>
        /\ got \in Item

\* Add an item behind the others.
Enqueue(x) == /\ Len(queue) < Room
              /\ queue' = Append(queue, x)
              /\ UNCHANGED got

\* Add an item even if that costs the oldest one.
Push(x) == /\ queue' = Append(IF Len(queue) = Room THEN Tail(queue) ELSE queue, x)
           /\ UNCHANGED got

\* Hand out the oldest item, or the given one if there is none.
Take == /\ queue # << >>
        /\ got' = Head(queue)
        /\ queue' = Tail(queue)

TakeOr(x) == /\ queue = << >>
             /\ got' = x
             /\ UNCHANGED queue

\* Drop the n oldest items.
Drop(n) == /\ n <= Len(queue)
           /\ queue' = SubSeq(queue, n + 1, Len(queue))
           /\ UNCHANGED got

\* Keep the n oldest items.
Keep(n) == /\ n <= Len(queue)
           /\ queue' = SubSeq(queue, 1, n)
           /\ UNCHANGED got

Clear == /\ queue' = << >>
         /\ UNCHANGED got

\* Become a copy of another queue of this capacity.
Assign == /\ queue' \in Copies
          /\ UNCHANGED got

Next == \/ \E x \in Item : Enqueue(x) \/ Push(x) \/ TakeOr(x)
        \/ Take
        \/ \E n \in 0 .. Room : Drop(n) \/ Keep(n)
        \/ Clear
        \/ Assign

Spec == Init /\ [][Next]_<<queue, got>>
===========================================================================
