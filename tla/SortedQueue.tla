---------------------------- MODULE SortedQueue ----------------------------
(* What a sorted ring buffer promises: a bounded queue of items with keys    *)
(* that is in the order of the keys, whatever order they came in.            *)
EXTENDS Integers, Sequences

CONSTANTS Capacity, Item, Key,
          Copies    \* the contents of the queues this one may be made equal to

VARIABLES queue,    \* the entries, smallest key first
          got       \* the item the last read handed out

Room == Capacity - 1
Entry == [key : Key, item : Item]

Sorted(q) == \A i, j \in DOMAIN q : i < j => q[i].key <= q[j].key

Init == /\ queue = << >>
        /\ got \in Item

\* A new entry goes in front of the first one with the same or a larger key.
InsertAt(q, n, e) == SubSeq(q, 1, n) \o <<e>> \o SubSeq(q, n + 1, Len(q))

Insert(e) == /\ Len(queue) < Room
             /\ \E n \in 0 .. Len(queue) :
                   /\ \A i \in DOMAIN queue : i <= n <=> queue[i].key < e.key
                   /\ queue' = InsertAt(queue, n, e)
             /\ UNCHANGED got

\* A caller who knows that no key is larger has the entry put last.
Enqueue(e) == /\ Len(queue) < Room
              /\ \A i \in DOMAIN queue : queue[i].key <= e.key
              /\ queue' = Append(queue, e)
              /\ UNCHANGED got

Take == /\ queue # << >>
        /\ got' = Head(queue).item
        /\ queue' = Tail(queue)

Drop(n) == /\ n <= Len(queue)
           /\ queue' = SubSeq(queue, n + 1, Len(queue))
           /\ UNCHANGED got

\* Become a copy of another sorted queue.
Assign == /\ queue' \in Copies
          /\ Sorted(queue')
          /\ UNCHANGED got

Next == \/ \E e \in Entry : Insert(e) \/ Enqueue(e)
        \/ Take
        \/ \E n \in 0 .. Room : Drop(n)
        \/ Assign

Spec == Init /\ [][Next]_<<queue, got>>
============================================================================
