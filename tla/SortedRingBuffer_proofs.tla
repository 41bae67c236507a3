---------------------- MODULE SortedRingBuffer_proofs ----------------------
(* Proofs about SortedRingBuffer for every capacity and every set of keys.   *)
EXTENDS SortedRingBuffer, SequenceTheorems, WellFoundedInduction, TLAPS

---------------------------------------------------------------------------
(* Types                                                                     *)

LEMMA NeighboursInSlots ==
    ASSUME SortedConstants
    PROVE  \A i \in Ring!Slots : Ring!next(i) \in Ring!Slots /\ Ring!prev(i) \in Ring!Slots
BY DEF SortedConstants, Ring!Slots, Ring!next, Ring!prev

LEMMA MovedTypes ==
    ASSUME SortedConstants, NEW S, NEW a \in [Ring!Slots -> S], NEW n, NEW v \in S
    PROVE  Moved(a, n, v) \in [Ring!Slots -> S]
BY NeighboursInSlots DEF Moved

LEMMA ReadersTypes ==
    ASSUME SortedConstants, TypeOK, Readers, UNCHANGED use
    PROVE  TypeOK'
<1> USE DEF TypeOK, Ring!TypeOK
<1>0. UNCHANGED <<keys, use>>
  BY DEF Readers
<1>1. CASE Ring!clear
  BY <1>0, <1>1 DEF Ring!clear, SortedConstants, Ring!Slots
<1>2. CASE Ring!read \/ Ring!skip
  BY <1>0, <1>2, NeighboursInSlots DEF Ring!read, Ring!skip
<1>3. ASSUME NEW n \in Ring!Slots, Ring!skipMany(n) PROVE TypeOK'
  <2>1. (r + n) % Capacity \in Ring!Slots
    BY DEF SortedConstants, Ring!Slots
  <2> QED
    BY <1>0, <1>3, <2>1 DEF Ring!skipMany
<1>4. \A n \in 0 .. Ring!count : n \in Ring!Slots
  BY DEF SortedConstants, Ring!Slots, Ring!count
<1> QED
  BY <1>1, <1>2, <1>3, <1>4 DEF Readers, Ring!TakeOut, Ring!Forward, Ring!ForwardInOrder

LEMMA WritersTypes ==
    ASSUME SortedConstants, TypeOK, Writers, UNCHANGED use
    PROVE  TypeOK'
<1> USE DEF TypeOK, Ring!TypeOK
<1>1. ASSUME NEW x \in T, Ring!write(x) \/ Ring!put(x) PROVE TypeOK'
  BY <1>1, NeighboursInSlots DEF Writers, Ring!write, Ring!put
<1>2. ASSUME NEW x \in T, Ring!readOr(x) PROVE TypeOK'
  BY <1>2, NeighboursInSlots DEF Writers, Ring!readOr, Ring!read
<1>3. ASSUME NEW x \in T, Ring!clearWith(x) PROVE TypeOK'
  BY <1>3 DEF Writers, Ring!clearWith, SortedConstants, Ring!Slots
<1>4. ASSUME NEW n \in Ring!Slots, Ring!align(n) PROVE TypeOK'
  <2>1. (r + n) % Capacity \in Ring!Slots
    BY DEF SortedConstants, Ring!Slots
  <2> QED
    BY <1>4, <2>1 DEF Writers, Ring!align
<1>5. \A n \in 0 .. Ring!count : n \in Ring!Slots
  BY DEF SortedConstants, Ring!Slots, Ring!count
<1> QED
  BY <1>1, <1>2, <1>3, <1>4, <1>5 DEF Writers, Ring!PutIn, Ring!Place, Ring!PlaceInOrder

\* Slots, keys and pointers keep their types, also when callers write without
\* keys and move the pointers past each other.
THEOREM TypeCorrect ==
    ASSUME SortedConstants
    PROVE  Spec => []TypeOK
<1>1. Init => TypeOK
  BY DEF Init, Ring!Init, TypeOK, Ring!TypeOK, SortedConstants, Ring!Slots
<1>2. TypeOK /\ [Next]_vars => TypeOK'
  <2> SUFFICES ASSUME TypeOK, [Next]_vars PROVE TypeOK'
    OBVIOUS
  <2>0. UNCHANGED use
    BY DEF Next, vars
  <2>1. ASSUME NEW key \in Key, NEW x \in T, insert(key, x) PROVE TypeOK'
    BY <2>0, <2>1, MovedTypes, NeighboursInSlots DEF insert, TypeOK, Ring!TypeOK
  <2>2. ASSUME NEW key \in Key, NEW x \in T, append(key, x) PROVE TypeOK'
    BY <2>0, <2>2, NeighboursInSlots DEF append, TypeOK, Ring!TypeOK
  <2>3. ASSUME NEW other \in Other, assign(other) PROVE TypeOK'
    BY <2>0, <2>3, SortedOtherAssumption DEF assign, Ring!assign, TypeOK, Ring!TypeOK, Ring!Slots
  <2>4. CASE UNCHANGED vars
    BY <2>4 DEF vars, TypeOK, Ring!TypeOK
  <2> QED
    BY <2>0, <2>1, <2>2, <2>3, <2>4, ReadersTypes, WritersTypes DEF Next, SortedWriters
<1> QED
  BY <1>1, <1>2, PTL DEF Spec

---------------------------------------------------------------------------
(* Where things are                                                          *)

\* The content lies in the slots from the read pointer on, each in another one,
\* and ends in front of the write pointer.
LEMMA Indices ==
    ASSUME SortedConstants, TypeOK
    PROVE  /\ Ring!count \in Nat /\ Ring!count < Capacity
           /\ w = Ring!Slot(Ring!count)
           /\ \A k \in Ring!Slots : Ring!Slot(k) \in Ring!Slots
           /\ \A j, k \in Ring!Slots : Ring!Slot(j) = Ring!Slot(k) => j = k
           /\ \A k \in Ring!Slots : k > 0 => Ring!prev(Ring!Slot(k)) = Ring!Slot(k - 1)
           /\ \A m \in 0 .. Ring!count : Back(m) = Ring!Slot(Ring!count - m)
<1> USE DEF SortedConstants, TypeOK, Ring!TypeOK, Ring!Slots, Ring!Slot, Ring!count
<1>1. Ring!count \in Nat /\ Ring!count < Capacity /\ w = Ring!Slot(Ring!count)
  OBVIOUS
<1>2. /\ \A k \in Ring!Slots : Ring!Slot(k) \in Ring!Slots
      /\ \A j, k \in Ring!Slots : Ring!Slot(j) = Ring!Slot(k) => j = k
  OBVIOUS
<1>3. \A k \in Ring!Slots : k > 0 => Ring!prev(Ring!Slot(k)) = Ring!Slot(k - 1)
  BY DEF Ring!prev
<1>4. \A m \in 0 .. Ring!count : Back(m) = Ring!Slot(Ring!count - m)
  BY DEF Back
<1> QED
  BY <1>1, <1>2, <1>3, <1>4

\* Adding an offset to a pointer wraps at most once.
LEMMA WrapOnce ==
    ASSUME SortedConstants, NEW i \in 0 .. Capacity - 1, NEW n \in 0 .. Capacity - 1
    PROVE  (i + n) % Capacity = IF i + n < Capacity THEN i + n ELSE i + n - Capacity
BY DEF SortedConstants

Entry == [key : Key, item : T]

\* What the entries are, one by one.
Contents == /\ Entries \in Seq(Entry)
            /\ Len(Entries) = Ring!count
            /\ Ring!count \in Nat
            /\ \A k \in 1 .. Ring!count :
                  Entries[k] = [key  |-> keys[Ring!Slot(k - 1)],
                                item |-> elements[Ring!Slot(k - 1)]]

LEMMA EntriesAre == SortedConstants /\ TypeOK => Contents
<1> SUFFICES ASSUME SortedConstants, TypeOK PROVE Contents
  OBVIOUS
<1>1. Ring!count \in Nat /\ \A k \in 1 .. Ring!count : Ring!Slot(k - 1) \in Ring!Slots
  <2>1. \A k \in 1 .. Ring!count : k - 1 \in Ring!Slots
    BY Indices DEF Ring!Slots, SortedConstants
  <2> QED
    BY <2>1, Indices
<1>2. \A k \in 1 .. Ring!count :
         [key |-> keys[Ring!Slot(k - 1)], item |-> elements[Ring!Slot(k - 1)]] \in Entry
  BY <1>1 DEF TypeOK, Ring!TypeOK, Entry
<1>3. Entries \in [1 .. Ring!count -> Entry]
  BY <1>2 DEF Entries
<1> QED
  BY <1>1, <1>3 DEF Entries, Contents

LEMMA EntriesWillBe == SortedConstants /\ TypeOK' => Contents'
<1>1. SortedConstants => SortedConstants'
  BY DEF SortedConstants
<1> QED
  BY <1>1, EntriesAre, PTL

LEMMA EntryKeys ==
    ASSUME SortedConstants, TypeOK, NEW k \in 1 .. Ring!count
    PROVE  Entries[k].key = keys[Ring!Slot(k - 1)] /\ Entries[k].key \in Int
<1>1. k - 1 \in Ring!Slots
  BY Indices DEF Ring!Slots, SortedConstants
<1>2. Ring!Slot(k - 1) \in Ring!Slots
  BY <1>1, Indices
<1>3. keys[Ring!Slot(k - 1)] \in Int
  BY <1>2, KeyAssumption DEF TypeOK
<1>4. Entries[k] = [key |-> keys[Ring!Slot(k - 1)], item |-> elements[Ring!Slot(k - 1)]]
  BY EntriesAre DEF Contents
<1>5. Entries[k].key = keys[Ring!Slot(k - 1)]
  BY <1>4
<1> QED
  BY <1>3, <1>5

\* Slot by slot, the swaps of insert() move the n last entries up by one.
LEMMA MovedAt ==
    ASSUME SortedConstants, TypeOK, ~Ring!isFull, NEW n \in 0 .. Ring!count,
           NEW a, NEW v, NEW k \in 0 .. Ring!count
    PROVE  Moved(a, n, v)[Ring!Slot(k)] =
              IF k = Ring!count - n THEN v
              ELSE IF k > Ring!count - n THEN a[Ring!Slot(k - 1)] ELSE a[Ring!Slot(k)]
<1>1. /\ Ring!count \in Nat /\ k \in Ring!Slots
      /\ \A m \in 0 .. n : Ring!count - m \in Ring!Slots
  BY Indices DEF Ring!Slots, SortedConstants
<1>2. Ring!Slot(k) \in Ring!Slots
  BY <1>1, Indices
<1>3. Ring!Slot(k) = Back(n) <=> k = Ring!count - n
  BY <1>1, Indices
<1>4. (\E m \in 0 .. n - 1 : Ring!Slot(k) = Back(m)) <=> k > Ring!count - n
  <2>1. \A m \in 0 .. n - 1 : Ring!Slot(k) = Back(m) <=> k = Ring!count - m
    BY <1>1, Indices
  <2>2. ASSUME NEW m \in 0 .. n - 1, Ring!Slot(k) = Back(m) PROVE k > Ring!count - n
    BY <1>1, <2>1, <2>2
  <2>3. ASSUME k > Ring!count - n PROVE \E m \in 0 .. n - 1 : Ring!Slot(k) = Back(m)
    <3>1. Ring!count - k \in 0 .. n - 1 /\ k = Ring!count - (Ring!count - k)
      BY <1>1, <2>3
    <3>2. Ring!Slot(k) = Back(Ring!count - k)
      BY <2>1, <3>1
    <3> QED
      BY <3>1, <3>2
  <2> QED
    BY <2>2, <2>3
<1>5. k > Ring!count - n => Ring!prev(Ring!Slot(k)) = Ring!Slot(k - 1)
  BY <1>1, Indices
<1> QED
  BY <1>2, <1>3, <1>4, <1>5 DEF Moved

---------------------------------------------------------------------------
(* insert()                                                                  *)

\* InsertAt, element by element.
LEMMA InsertAtIs ==
    ASSUME NEW q \in Seq(Entry), NEW n \in 0 .. Len(q), NEW e \in Entry
    PROVE  /\ Abstract!InsertAt(q, n, e) \in Seq(Entry)
           /\ Len(Abstract!InsertAt(q, n, e)) = Len(q) + 1
           /\ \A k \in 1 .. Len(q) + 1 :
                 Abstract!InsertAt(q, n, e)[k] =
                    IF k <= n THEN q[k] ELSE IF k = n + 1 THEN e ELSE q[k - 1]
<1> DEFINE front == SubSeq(q, 1, n)
           back  == SubSeq(q, n + 1, Len(q))
<1>0. Len(q) \in Nat /\ \A i \in 1 .. Len(q) : q[i] \in Entry
  BY LenProperties, ElementOfSeq
<1>1. /\ front \in Seq(Entry) /\ Len(front) = n
      /\ \A k \in 1 .. n : front[k] = q[k]
  <2>1. \A i \in 1 .. n : q[i] \in Entry
    BY <1>0
  <2> QED
    BY <1>0, <2>1, SubSeqProperties
<1>2. /\ back \in Seq(Entry) /\ Len(back) = Len(q) - n
      /\ \A k \in 1 .. Len(q) - n : back[k] = q[n + k]
  <2>1. \A i \in n + 1 .. Len(q) : q[i] \in Entry
    BY <1>0
  <2> QED
    BY <1>0, <2>1, SubSeqProperties
<1>3. <<e>> \in Seq(Entry) /\ Len(<<e>>) = 1 /\ <<e>>[1] = e
  OBVIOUS
<1> HIDE DEF front, back
<1>4. /\ front \o <<e>> \in Seq(Entry) /\ Len(front \o <<e>>) = n + 1
      /\ \A k \in 1 .. n + 1 : (front \o <<e>>)[k] = IF k <= n THEN q[k] ELSE e
  <2>1. /\ front \o <<e>> \in Seq(Entry) /\ Len(front \o <<e>>) = n + 1
        /\ \A k \in 1 .. n + 1 :
              (front \o <<e>>)[k] = IF k <= n THEN front[k] ELSE <<e>>[k - n]
    BY <1>1, <1>3, ConcatProperties
  <2>2. ASSUME NEW k \in 1 .. n + 1
        PROVE  (front \o <<e>>)[k] = IF k <= n THEN q[k] ELSE e
    <3>1. CASE k <= n
      BY <2>1, <1>1, <3>1
    <3>2. CASE ~(k <= n)
      <4>1. k - n = 1
        BY <3>2, <1>0
      <4> QED
        BY <2>1, <1>3, <3>2, <4>1
    <3> QED
      BY <3>1, <3>2
  <2> QED
    BY <2>1, <2>2
<1>5. /\ (front \o <<e>>) \o back \in Seq(Entry)
      /\ Len((front \o <<e>>) \o back) = Len(q) + 1
      /\ \A k \in 1 .. Len(q) + 1 : ((front \o <<e>>) \o back)[k] =
            IF k <= n + 1 THEN (front \o <<e>>)[k] ELSE back[k - (n + 1)]
  <2>1. Len(front \o <<e>>) + Len(back) = Len(q) + 1
    <3>1. Len(front \o <<e>>) = n + 1 /\ Len(back) = Len(q) - n
      BY <1>2, <1>4
    <3> QED
      BY <1>0, <3>1
  <2> QED
    BY <1>2, <1>4, <2>1, ConcatProperties
<1>6. ASSUME NEW k \in 1 .. Len(q) + 1
      PROVE  ((front \o <<e>>) \o back)[k] =
                IF k <= n THEN q[k] ELSE IF k = n + 1 THEN e ELSE q[k - 1]
  <2>1. CASE k <= n + 1
    <3>1. k \in 1 .. n + 1
      BY <2>1
    <3>2. ~(k <= n) => k = n + 1
      BY <3>1, <1>0
    <3>3. k = n + 1 => ~(k <= n)
      BY <1>0
    <3> QED
      BY <1>4, <1>5, <2>1, <3>1, <3>2, <3>3
  <2>2. CASE ~(k <= n + 1)
    <3>1. k - (n + 1) \in 1 .. Len(q) - n /\ n + (k - (n + 1)) = k - 1 /\ ~(k <= n) /\ k # n + 1
      BY <1>0, <2>2
    <3> QED
      BY <1>2, <1>5, <2>2, <3>1
  <2> QED
    BY <2>1, <2>2
<1> QED
  BY <1>5, <1>6 DEF Abstract!InsertAt, front, back

\* insert() adds one entry in front of the ones it passes.
LEMMA InsertLemma ==
    ASSUME SortedConstants, TypeOK, TypeOK', NEW key \in Key, NEW x \in T, ~Ring!isFull,
           NEW n \in 0 .. Ring!count,
           elements' = Moved(elements, n, x), keys' = Moved(keys, n, key),
           w' = Ring!next(w), r' = r
    PROVE  /\ Ring!count - n \in 0 .. Len(Entries)
           /\ Entries' = Abstract!InsertAt(Entries, Ring!count - n, [key |-> key, item |-> x])
<1> DEFINE e == [key |-> key, item |-> x]
           p == Ring!count - n
<1>1. /\ Ring!count \in Nat /\ p \in 0 .. Ring!count /\ Len(Entries) = Ring!count
      /\ Entries \in Seq(Entry) /\ e \in Entry
  BY Indices, EntriesAre DEF Entry, Contents
<1>2. Ring!count' = Ring!count + 1
  BY DEF SortedConstants, TypeOK, Ring!TypeOK, Ring!Slots, Ring!isFull, Ring!count, Ring!next
<1>3. /\ Entries' \in Seq(Entry)
      /\ Len(Entries') = Ring!count + 1
      /\ \A k \in 1 .. Ring!count + 1 :
            Entries'[k] = [key  |-> keys'[Ring!Slot(k - 1)],
                           item |-> elements'[Ring!Slot(k - 1)]]
  <2>1. /\ Entries' \in Seq(Entry)
        /\ Len(Entries') = Ring!count'
        /\ \A k \in 1 .. Ring!count' :
              Entries'[k] = [key  |-> keys'[Ring!Slot(k - 1)'],
                             item |-> elements'[Ring!Slot(k - 1)']]
    BY EntriesWillBe DEF Contents
  <2>2. \A k \in 1 .. Ring!count' : Ring!Slot(k - 1)' = Ring!Slot(k - 1)
    BY DEF Ring!Slot
  <2> QED
    BY <1>2, <2>1, <2>2
<1>4. ASSUME NEW k \in 1 .. Ring!count + 1
      PROVE  Entries'[k] = IF k <= p THEN Entries[k] ELSE IF k = p + 1 THEN e ELSE Entries[k - 1]
  <2>0. k - 1 \in 0 .. Ring!count
    BY <1>1
  <2>1. /\ keys'[Ring!Slot(k - 1)] =
              IF k - 1 = p THEN key
              ELSE IF k - 1 > p THEN keys[Ring!Slot(k - 1 - 1)] ELSE keys[Ring!Slot(k - 1)]
        /\ elements'[Ring!Slot(k - 1)] =
              IF k - 1 = p THEN x
              ELSE IF k - 1 > p THEN elements[Ring!Slot(k - 1 - 1)]
                                ELSE elements[Ring!Slot(k - 1)]
    BY <2>0, MovedAt
  <2> HIDE DEF p
  <2>5. Entries'[k] = [key |-> keys'[Ring!Slot(k - 1)], item |-> elements'[Ring!Slot(k - 1)]]
    BY <1>3
  <2>2. CASE k <= p
    <3>1. k \in 1 .. Ring!count /\ k - 1 # p /\ ~(k - 1 > p)
      BY <1>1, <2>2
    <3>2. Entries[k] = [key |-> keys[Ring!Slot(k - 1)], item |-> elements[Ring!Slot(k - 1)]]
      BY <3>1, EntriesAre DEF Contents
    <3> QED
      BY <2>1, <2>2, <2>5, <3>1, <3>2
  <2>3. CASE k = p + 1
    <3>1. k - 1 = p /\ ~(k <= p)
      BY <1>1, <2>3
    <3> QED
      BY <2>1, <2>3, <2>5, <3>1
  <2>4. CASE k > p + 1
    <3>1. /\ k - 1 \in 1 .. Ring!count /\ k - 1 # p /\ k - 1 > p
          /\ ~(k <= p) /\ k # p + 1
      BY <1>1, <2>4
    <3>2. Entries[k - 1] = [key  |-> keys[Ring!Slot(k - 1 - 1)],
                            item |-> elements[Ring!Slot(k - 1 - 1)]]
      BY <3>1, EntriesAre DEF Contents
    <3> QED
      BY <2>1, <2>4, <2>5, <3>1, <3>2
  <2> QED
    BY <1>1, <2>2, <2>3, <2>4
<1>5. /\ Abstract!InsertAt(Entries, p, e) \in Seq(Entry)
      /\ Len(Abstract!InsertAt(Entries, p, e)) = Ring!count + 1
      /\ \A k \in 1 .. Ring!count + 1 :
            Abstract!InsertAt(Entries, p, e)[k] =
               IF k <= p THEN Entries[k] ELSE IF k = p + 1 THEN e ELSE Entries[k - 1]
  <2>1. p \in 0 .. Len(Entries)
    BY <1>1
  <2> HIDE DEF p, e
  <2> QED
    BY <1>1, <2>1, InsertAtIs
<1>6. Entries' = Abstract!InsertAt(Entries, p, e)
  <2>1. \A k \in 1 .. Len(Entries') : Entries'[k] = Abstract!InsertAt(Entries, p, e)[k]
    BY <1>3, <1>4, <1>5
  <2> HIDE DEF p, e
  <2> QED
    BY <1>3, <1>5, <2>1, SeqEqual
<1> QED
  BY <1>1, <1>6

\* Whatever keys are in the slots, old ones from writers that know nothing of
\* keys included, insert() adds one entry and loses, doubles or reorders none.
THEOREM InsertCorrect ==
    ASSUME SortedConstants
    PROVE  Spec => InsertAddsOne
<1>1. ASSUME TypeOK, TypeOK', NEW key \in Key, NEW x \in T, insert(key, x)
      PROVE  \E n \in 0 .. Ring!count :
                Entries' = Abstract!InsertAt(Entries, n, [key |-> key, item |-> x])
  <2>1. PICK n \in 0 .. Ring!count : /\ elements' = Moved(elements, n, x)
                                     /\ keys' = Moved(keys, n, key)
    BY <1>1 DEF insert
  <2>2. ~Ring!isFull /\ w' = Ring!next(w) /\ r' = r
    BY <1>1 DEF insert
  <2>3. /\ Ring!count - n \in 0 .. Len(Entries)
        /\ Entries' = Abstract!InsertAt(Entries, Ring!count - n, [key |-> key, item |-> x])
    BY <1>1, <2>1, <2>2, InsertLemma
  <2> QED
    BY <1>1, <2>3, EntriesAre DEF Contents
<1>2. TypeOK /\ TypeOK' /\ [Next]_vars =>
        [\A key \in Key, x \in T : insert(key, x) =>
           \E n \in 0 .. Ring!count :
              Entries' = Abstract!InsertAt(Entries, n, [key |-> key, item |-> x])]_vars
  BY <1>1
<1> QED
  BY <1>2, TypeCorrect, PTL DEF Spec, InsertAddsOne

---------------------------------------------------------------------------
(* The other operations                                                      *)

\* Moving the read pointer n entries on drops the n first ones.
LEMMA DropLemma ==
    ASSUME SortedConstants, TypeOK, TypeOK', NEW n \in 0 .. Ring!count,
           elements' = elements, keys' = keys, w' = w, r' = Ring!Slot(n)
    PROVE  Entries' = SubSeq(Entries, n + 1, Len(Entries))
<1>1. Contents /\ Contents'
  BY EntriesAre, EntriesWillBe
<1>2. Ring!count' = Ring!count - n
  BY DEF SortedConstants, TypeOK, Ring!TypeOK, Ring!Slots, Ring!Slot, Ring!count
<1>3. \A k \in 1 .. Ring!count - n : Ring!Slot(k - 1)' = Ring!Slot(k + n - 1)
  BY DEF SortedConstants, TypeOK, Ring!TypeOK, Ring!Slots, Ring!Slot, Ring!count
<1>4. ASSUME NEW k \in 1 .. Ring!count - n PROVE Entries'[k] = Entries[k + n]
  <2>1. k \in 1 .. Ring!count' /\ k + n \in 1 .. Ring!count
    BY <1>1, <1>2 DEF Contents
  <2>2. Entries'[k] = [key  |-> keys'[Ring!Slot(k - 1)'],
                       item |-> elements'[Ring!Slot(k - 1)']]
    BY <1>1, <2>1 DEF Contents
  <2>3. Entries[k + n] = [key  |-> keys[Ring!Slot(k + n - 1)],
                          item |-> elements[Ring!Slot(k + n - 1)]]
    BY <1>1, <2>1 DEF Contents
  <2> QED
    BY <1>3, <2>2, <2>3
<1> QED
  BY <1>1, <1>2, <1>4 DEF Contents

\* A new entry behind the last one.
LEMMA AppendLemma ==
    ASSUME SortedConstants, TypeOK, TypeOK', NEW key \in Key, NEW x \in T, ~Ring!isFull,
           elements' = [elements EXCEPT ![w] = x], keys' = [keys EXCEPT ![w] = key],
           w' = Ring!next(w), r' = r
    PROVE  Entries' = Append(Entries, [key |-> key, item |-> x])
<1>1. Contents /\ Contents'
  BY EntriesAre, EntriesWillBe
<1>2. Ring!count' = Ring!count + 1
  BY DEF SortedConstants, TypeOK, Ring!TypeOK, Ring!Slots, Ring!isFull, Ring!count, Ring!next
<1>3. \A k \in Int : Ring!Slot(k)' = Ring!Slot(k)
  BY DEF Ring!Slot
<1>4. ASSUME NEW k \in 1 .. Ring!count PROVE Entries'[k] = Entries[k]
  <2>1. k \in 1 .. Ring!count' /\ k - 1 \in Int
    BY <1>1, <1>2 DEF Contents
  <2>2. Ring!Slot(k - 1) # w /\ Ring!Slot(k - 1) \in Ring!Slots
    <3>1. k - 1 \in Ring!Slots /\ Ring!count \in Ring!Slots /\ k - 1 # Ring!count
      BY <1>1, Indices DEF Ring!Slots, SortedConstants
    <3> QED
      BY <3>1, Indices
  <2>3. Entries'[k] = [key  |-> keys'[Ring!Slot(k - 1)], item |-> elements'[Ring!Slot(k - 1)]]
    BY <1>1, <1>3, <2>1 DEF Contents
  <2>4. Entries[k] = [key  |-> keys[Ring!Slot(k - 1)], item |-> elements[Ring!Slot(k - 1)]]
    BY <1>1 DEF Contents
  <2> QED
    BY <2>2, <2>3, <2>4 DEF TypeOK, Ring!TypeOK
<1>5. Entries'[Ring!count + 1] = [key |-> key, item |-> x]
  <2>1. \A k \in Int : k = Ring!count => Ring!Slot(k)' = w
    BY <1>3, Indices
  <2>2. ASSUME NEW k \in 1 .. Ring!count', k = Ring!count + 1
        PROVE  Entries'[k] = [key |-> key, item |-> x]
    <3>1. Ring!Slot(k - 1)' = w
      BY <1>1, <2>1, <2>2 DEF Contents
    <3>2. Entries'[k] = [key  |-> keys'[Ring!Slot(k - 1)'],
                         item |-> elements'[Ring!Slot(k - 1)']]
      BY <1>1 DEF Contents
    <3> QED
      BY <3>1, <3>2 DEF TypeOK, Ring!TypeOK
  <2>3. Ring!count + 1 \in 1 .. Ring!count'
    BY <1>1, <1>2 DEF Contents
  <2> QED
    BY <2>2, <2>3
<1> QED
  BY <1>1, <1>2, <1>4, <1>5 DEF Contents

LEMMA ReadersStep ==
    ASSUME use = "sorted", SortedConstants, TypeOK, TypeOK', Readers
    PROVE  Abstract!Next
<1>1. Contents /\ Contents'
  BY EntriesAre, EntriesWillBe
<1>2. /\ \A n \in 0 .. Ring!count : n \in 0 .. Abstract!Room /\ n <= Len(Entries)
      /\ Ring!count = 0 <=> Entries = << >>
      /\ Ring!isEmpty <=> Ring!count = 0
      /\ Ring!next(r) = Ring!Slot(1)
  <2>1. \A n \in 0 .. Ring!count : n \in 0 .. Abstract!Room /\ n <= Len(Entries)
    BY <1>1, Indices DEF Contents, Abstract!Room, SortedConstants
  <2>2. Ring!count = 0 <=> Entries = << >>
    BY <1>1 DEF Contents
  <2>3. (Ring!isEmpty <=> Ring!count = 0) /\ Ring!next(r) = Ring!Slot(1)
    BY DEF SortedConstants, TypeOK, Ring!TypeOK, Ring!Slots, Ring!Slot, Ring!count,
           Ring!isEmpty, Ring!next
  <2> QED
    BY <2>1, <2>2, <2>3
<1>3. CASE Ring!clear
  <2>1. Ring!count' = 0
    BY <1>3 DEF Ring!clear, Ring!count
  <2>2. Entries' = << >>
    BY <1>1, <2>1 DEF Contents
  <2>3. SubSeq(Entries, Ring!count + 1, Len(Entries)) = << >>
    <3>1. Len(Entries) \in Int /\ Ring!count + 1 \in Int /\ Len(Entries) < Ring!count + 1
      BY <1>1 DEF Contents
    <3> QED
      BY <3>1, SubSeqEmpty
  <2>4. Ring!count \in 0 .. Ring!count
    BY <1>1 DEF Contents
  <2>5. Abstract!Drop(Ring!count)
    BY <1>2, <1>3, <2>2, <2>3, <2>4 DEF Ring!clear, Abstract!Drop
  <2> QED
    BY <1>2, <2>4, <2>5 DEF Abstract!Next
<1>4. ASSUME NEW n \in 0 .. Ring!count, r' = Ring!Slot(n), got' = got,
             elements' = elements, keys' = keys, w' = w
      PROVE  Abstract!Next
  <2>1. Entries' = SubSeq(Entries, n + 1, Len(Entries))
    BY <1>4, DropLemma
  <2>2. Abstract!Drop(n)
    BY <1>2, <1>4, <2>1 DEF Abstract!Drop
  <2> QED
    BY <1>2, <2>2 DEF Abstract!Next
<1>5. CASE Ring!read
  <2>1. Entries # << >> /\ 1 \in 0 .. Ring!count /\ 1 \in 1 .. Ring!count
    BY <1>1, <1>2, <1>5 DEF Ring!read, Contents
  <2>2. Entries' = SubSeq(Entries, 2, Len(Entries))
    BY <1>2, <1>5, <2>1, DropLemma DEF Ring!read, Readers
  <2>3. Entries' = Tail(Entries)
    BY <1>1, <2>1, <2>2, TailIsSubSeq DEF Contents
  <2>4. got' = Head(Entries).item
    <3>1. Ring!Slot(1 - 1) = r
      BY DEF SortedConstants, TypeOK, Ring!TypeOK, Ring!Slots, Ring!Slot
    <3>2. Entries[1] = [key |-> keys[Ring!Slot(1 - 1)], item |-> elements[Ring!Slot(1 - 1)]]
      BY <1>1, <2>1 DEF Contents
    <3>3. Head(Entries) = Entries[1]
      BY <1>1, <2>1 DEF Contents
    <3> QED
      BY <1>5, <3>1, <3>2, <3>3 DEF Ring!read
  <2> QED
    BY <2>1, <2>3, <2>4 DEF Abstract!Take, Abstract!Next
<1>6. CASE ~Ring!isEmpty /\ Ring!skip
  <2>1. 1 \in 0 .. Ring!count
    BY <1>1, <1>2, <1>6 DEF Contents
  <2> QED
    BY <1>2, <1>4, <1>6, <2>1 DEF Ring!skip, Readers
<1>7. ASSUME NEW n \in 0 .. Ring!count, Ring!skipMany(n) PROVE Abstract!Next
  <2>1. n \in Ring!Slots
    BY Indices DEF SortedConstants, Ring!Slots
  <2>2. (r + n) % Capacity = Ring!Slot(n)
    BY <2>1, WrapOnce DEF TypeOK, Ring!TypeOK, Ring!Slots, Ring!Slot
  <2> QED
    BY <1>4, <1>7, <2>1, <2>2 DEF Ring!skipMany, Readers
<1> QED
  BY <1>3, <1>5, <1>6, <1>7 DEF Readers, Ring!TakeOut, Ring!ForwardInOrder

---------------------------------------------------------------------------
(* The buffer is a sorted queue                                              *)

\* What is copied from other buffers is in order.
CopiesSorted == \A o \in Other : Abstract!Sorted(HeldEntries(o))

\* The entries insert() passes are those whose keys are not smaller.
LEMMA InsertStep ==
    ASSUME use = "sorted", SortedConstants, TypeOK, TypeOK', InOrder,
           NEW key \in Key, NEW x \in T, insert(key, x)
    PROVE  Abstract!Insert([key |-> key, item |-> x])
<1> DEFINE e == [key |-> key, item |-> x]
<1>1. PICK n \in 0 .. Ring!count : /\ Passes(key, n)
                                   /\ elements' = Moved(elements, n, x)
                                   /\ keys' = Moved(keys, n, key)
  BY DEF insert
<1>2. Contents /\ DOMAIN Entries = 1 .. Ring!count
  BY EntriesAre DEF Contents
<1>3. ~Ring!isFull /\ w' = Ring!next(w) /\ r' = r /\ got' = got
  BY DEF insert
<1>4. /\ Ring!count - n \in 0 .. Len(Entries)
      /\ Entries' = Abstract!InsertAt(Entries, Ring!count - n, e)
  BY <1>1, <1>3, InsertLemma
<1>5. ASSUME NEW i \in 1 .. Ring!count
      PROVE  /\ Entries[i].key \in Int /\ key \in Int
             /\ Entries[i].key = keys[Ring!Slot(i - 1)]
             /\ Entries[i].key = keys[Back(Ring!count - i + 1)]
  <2>1. Entries[i].key = keys[Ring!Slot(i - 1)] /\ Entries[i].key \in Int
    BY EntryKeys
  <2>2. /\ i - 1 \in Ring!Slots
        /\ Ring!count - i + 1 \in 0 .. Ring!count
        /\ Ring!count - (Ring!count - i + 1) = i - 1
    BY Indices DEF Ring!Slots, SortedConstants
  <2>3. Back(Ring!count - i + 1) = Ring!Slot(i - 1) /\ Ring!Slot(i - 1) \in Ring!Slots
    BY <2>2, Indices
  <2> QED
    BY <2>1, <2>3, KeyAssumption
<1>6. ASSUME NEW i \in 1 .. Ring!count, i > Ring!count - n PROVE ~(Entries[i].key < key)
  <2>1. Ring!count - i + 1 \in 1 .. n
    BY <1>2, <1>6 DEF Contents
  <2>2. ~(key > keys[Back(Ring!count - i + 1)])
    BY <1>1, <2>1 DEF Passes
  <2> QED
    BY <1>5, <2>2
<1>7. ASSUME NEW i \in 1 .. Ring!count, i <= Ring!count - n PROVE Entries[i].key < key
  <2> DEFINE j == Ring!count - n
  <2>1. j \in 1 .. Ring!count /\ Ring!count - j + 1 = n + 1 /\ n < Ring!count
    BY <1>2, <1>7 DEF Contents
  <2>2. key > keys[Back(n + 1)]
    BY <1>1, <2>1 DEF Passes
  <2>3. Entries[j].key < key
    BY <1>5, <2>1, <2>2
  <2>4. Entries[i].key <= Entries[j].key
    <3>1. i = j \/ i < j
      BY <1>7, <2>1
    <3> QED
      BY <1>2, <1>5, <2>1, <3>1 DEF InOrder, Abstract!Sorted
  <2> QED
    BY <1>5, <2>1, <2>3, <2>4
<1>8. \A i \in DOMAIN Entries : i <= Ring!count - n <=> Entries[i].key < e.key
  BY <1>2, <1>6, <1>7 DEF Contents
<1>9. Len(Entries) < Abstract!Room
  BY <1>2, <1>3, Indices DEF Contents, Ring!isFull, Abstract!Room, SortedConstants
<1> QED
  BY <1>3, <1>4, <1>8, <1>9 DEF Abstract!Insert

LEMMA AppendStep ==
    ASSUME use = "sorted", SortedConstants, TypeOK, TypeOK', InOrder,
           NEW key \in Key, NEW x \in T, append(key, x)
    PROVE  Abstract!Enqueue([key |-> key, item |-> x])
<1>1. Contents /\ DOMAIN Entries = 1 .. Ring!count
  BY EntriesAre DEF Contents
<1>2. Entries' = Append(Entries, [key |-> key, item |-> x])
  BY AppendLemma DEF append
<1>3. Len(Entries) < Abstract!Room
  BY <1>1, Indices DEF append, Contents, Ring!isFull, Abstract!Room, SortedConstants
<1>4. ASSUME NEW i \in 1 .. Ring!count PROVE Entries[i].key <= key
  <2> DEFINE c == Ring!count
  <2>1. c \in 1 .. Ring!count /\ c \in Ring!Slots /\ c > 0 /\ c - 1 \in Ring!Slots
    BY <1>1, Indices DEF Contents, Ring!Slots, SortedConstants
  <2>2. Ring!prev(w) = Ring!Slot(c - 1) /\ Ring!Slot(c - 1) \in Ring!Slots
    BY <2>1, Indices
  <2>3. ~Ring!isEmpty
    BY <2>1 DEF Ring!isEmpty, Ring!count, SortedConstants, TypeOK, Ring!TypeOK, Ring!Slots
  <2>4. keys[Ring!Slot(c - 1)] <= key
    BY <2>2, <2>3 DEF append
  <2>5. \A k \in 1 .. Ring!count : /\ Entries[k].key = keys[Ring!Slot(k - 1)]
                                   /\ Entries[k].key \in Int
    BY EntryKeys
  <2>6. Entries[c].key <= key
    BY <2>1, <2>4, <2>5
  <2>7. Entries[i].key <= Entries[c].key
    <3>1. i = c \/ i < c
      BY <2>1
    <3> QED
      BY <1>1, <2>1, <2>5, <3>1 DEF InOrder, Abstract!Sorted
  <2> QED
    BY <2>1, <2>5, <2>6, <2>7, KeyAssumption
<1> QED
  BY <1>1, <1>2, <1>3, <1>4 DEF append, Abstract!Enqueue

LEMMA AssignStep ==
    ASSUME CopiesSorted, NEW other \in Other, assign(other)
    PROVE  Abstract!Assign
<1>1. Entries' = HeldEntries(other)
  BY DEF assign, Ring!assign, Entries, HeldEntries, Ring!Held, Ring!count, Ring!Slot
<1> QED
  BY <1>1 DEF assign, Ring!assign, Abstract!Assign, CopiesSorted

LEMMA StepIsQueueStep ==
    ASSUME use = "sorted", SortedConstants, CopiesSorted, TypeOK, TypeOK', InOrder, [Next]_vars
    PROVE  [Abstract!Next]_<<Entries, got>>
<1>1. ASSUME NEW key \in Key, NEW x \in T, insert(key, x) \/ append(key, x)
      PROVE  Abstract!Next
  <2>1. [key |-> key, item |-> x] \in Abstract!Entry
    BY DEF Abstract!Entry
  <2> QED
    BY <1>1, <2>1, InsertStep, AppendStep DEF Abstract!Next
<1>2. ASSUME NEW other \in Other, assign(other) PROVE Abstract!Next
  BY <1>2, AssignStep DEF Abstract!Next
<1>3. CASE Readers
  BY <1>3, ReadersStep
<1>4. CASE UNCHANGED vars
  <2>1. Ring!count' = Ring!count /\ \A k \in Int : Ring!Slot(k)' = Ring!Slot(k)
    BY <1>4 DEF vars, Ring!count, Ring!Slot
  <2>2. Entries' = Entries /\ got' = got
    BY <1>4, <2>1 DEF vars, Entries, Ring!count, Ring!Slot
  <2> QED
    BY <2>2
<1> QED
  BY <1>1, <1>2, <1>3, <1>4 DEF Next, Writers, SortedWriters

\* The order of a sequence, position by position.
LEMMA SortedAt ==
    ASSUME NEW q \in Seq(Entry), Abstract!Sorted(q)
    PROVE  \A i, j \in 1 .. Len(q) : i < j => q[i].key <= q[j].key
<1>1. DOMAIN q = 1 .. Len(q)
  BY LenProperties
<1> QED
  BY <1>1 DEF Abstract!Sorted

\* An order has no gaps: pairs of a part of the queue are pairs of the queue.
LEMMA PartInOrder ==
    ASSUME NEW q \in Seq(Entry), Abstract!Sorted(q), NEW n \in 0 .. Len(q)
    PROVE  Abstract!Sorted(SubSeq(q, n + 1, Len(q)))
<1> DEFINE p == SubSeq(q, n + 1, Len(q))
<1>1. Len(q) \in Nat /\ \A i \in n + 1 .. Len(q) : q[i] \in Entry
  BY LenProperties, ElementOfSeq
<1>2. /\ p \in Seq(Entry) /\ Len(p) = Len(q) - n
      /\ \A i \in 1 .. Len(q) - n : p[i] = q[n + i]
  BY <1>1, SubSeqProperties
<1> HIDE DEF p
<1>3. ASSUME NEW i \in 1 .. Len(q) - n, NEW j \in 1 .. Len(q) - n, i < j
      PROVE  p[i].key <= p[j].key
  <2>1. n + i \in 1 .. Len(q) /\ n + j \in 1 .. Len(q) /\ n + i < n + j
    BY <1>1, <1>3
  <2>2. q[n + i].key <= q[n + j].key
    BY <2>1, SortedAt
  <2>3. p[i] = q[n + i] /\ p[j] = q[n + j]
    BY <1>2
  <2> QED
    BY <2>2, <2>3
<1> QED
  BY <1>2, <1>3 DEF Abstract!Sorted, p

\* An insertion keeps the order if what is in front of it is smaller, and what
\* is behind it is not.
LEMMA InsertInOrder ==
    ASSUME NEW q \in Seq(Entry), Abstract!Sorted(q), NEW n \in 0 .. Len(q), NEW e \in Entry,
           \A i \in 1 .. Len(q) : i <= n => q[i].key <= e.key,
           \A i \in 1 .. Len(q) : i > n => e.key <= q[i].key
    PROVE  Abstract!Sorted(Abstract!InsertAt(q, n, e))
<1> DEFINE p == Abstract!InsertAt(q, n, e)
<1>1. /\ p \in Seq(Entry) /\ Len(p) = Len(q) + 1
      /\ \A k \in 1 .. Len(q) + 1 :
            p[k] = IF k <= n THEN q[k] ELSE IF k = n + 1 THEN e ELSE q[k - 1]
  BY InsertAtIs
<1> HIDE DEF p
<1>2. Len(q) \in Nat
  BY LenProperties
<1>3. ASSUME NEW i \in 1 .. Len(q) + 1, NEW j \in 1 .. Len(q) + 1, i < j
      PROVE  p[i].key <= p[j].key
  <2>1. CASE j <= n
    <3>1. i <= n /\ i \in 1 .. Len(q) /\ j \in 1 .. Len(q)
      BY <1>2, <1>3, <2>1
    <3>2. q[i].key <= q[j].key
      BY <1>3, <3>1, SortedAt
    <3>3. p[i] = q[i] /\ p[j] = q[j]
      BY <1>1, <2>1, <3>1
    <3> QED
      BY <3>2, <3>3
  <2>2. CASE j = n + 1
    <3>1. i <= n /\ i \in 1 .. Len(q) /\ ~(j <= n)
      BY <1>2, <1>3, <2>2
    <3> QED
      BY <1>1, <2>2, <3>1
  <2>3. CASE j > n + 1 /\ i = n + 1
    <3>1. j - 1 > n /\ j - 1 \in 1 .. Len(q) /\ ~(j <= n) /\ j # n + 1 /\ ~(i <= n)
      BY <1>2, <1>3, <2>3
    <3> QED
      BY <1>1, <2>3, <3>1
  <2>4. CASE j > n + 1 /\ i <= n
    <3>1. /\ j - 1 > i /\ j - 1 \in 1 .. Len(q) /\ i \in 1 .. Len(q)
          /\ ~(j <= n) /\ j # n + 1
      BY <1>2, <1>3, <2>4
    <3>2. q[i].key <= q[j - 1].key
      BY <3>1, SortedAt
    <3>3. p[i] = q[i] /\ p[j] = q[j - 1]
      BY <1>1, <2>4, <3>1
    <3> QED
      BY <3>2, <3>3
  <2>5. CASE i > n + 1
    <3>1. /\ i - 1 < j - 1 /\ i - 1 \in 1 .. Len(q) /\ j - 1 \in 1 .. Len(q)
          /\ ~(j <= n) /\ j # n + 1 /\ ~(i <= n) /\ i # n + 1
      BY <1>2, <1>3, <2>5
    <3>2. q[i - 1].key <= q[j - 1].key
      BY <3>1, SortedAt
    <3>3. p[i] = q[i - 1] /\ p[j] = q[j - 1]
      BY <1>1, <3>1
    <3> QED
      BY <3>2, <3>3
  <2> QED
    BY <1>2, <2>1, <2>2, <2>3, <2>4, <2>5
<1> QED
  BY <1>1, <1>3 DEF Abstract!Sorted, p

\* What the sorted queue promises is in order.
LEMMA OrderKept ==
    ASSUME use = "sorted", SortedConstants, TypeOK, InOrder,
           [Abstract!Next]_<<Entries, got>>
    PROVE  InOrder'
<1>1. Contents /\ Len(Entries) \in Nat /\ DOMAIN Entries = 1 .. Len(Entries)
  BY EntriesAre DEF Contents
<1>2. Entries \in Seq(Entry) /\ Abstract!Sorted(Entries)
  BY <1>1 DEF Contents, InOrder
<1>3. \A i \in 1 .. Len(Entries) : Entries[i].key \in Int
  BY <1>1, EntryKeys DEF Contents
<1>4. ASSUME NEW e \in Abstract!Entry, Abstract!Insert(e) PROVE InOrder'
  <2>1. e \in Entry /\ e.key \in Int
    BY KeyAssumption DEF Entry, Abstract!Entry
  <2>2. PICK n \in 0 .. Len(Entries) :
           /\ \A i \in DOMAIN Entries : i <= n <=> Entries[i].key < e.key
           /\ Entries' = Abstract!InsertAt(Entries, n, e)
    BY <1>4 DEF Abstract!Insert
  <2>3. /\ \A i \in 1 .. Len(Entries) : i <= n => Entries[i].key <= e.key
        /\ \A i \in 1 .. Len(Entries) : i > n => e.key <= Entries[i].key
    BY <1>1, <1>3, <2>1, <2>2
  <2> QED
    BY <1>2, <2>1, <2>2, <2>3, InsertInOrder DEF InOrder
<1>5. ASSUME NEW e \in Abstract!Entry, Abstract!Enqueue(e) PROVE InOrder'
  <2>1. e \in Entry /\ \A i \in 1 .. Len(Entries) : Entries[i].key <= e.key
    BY <1>1, <1>5 DEF Abstract!Enqueue, Entry, Abstract!Entry
  <2>0. Len(Entries) \in 0 .. Len(Entries)
    BY <1>1
  <2>2. Entries' = Append(Entries, e)
    BY <1>5 DEF Abstract!Enqueue
  <2>3. Abstract!InsertAt(Entries, Len(Entries), e) = Append(Entries, e)
    <3>1. /\ Abstract!InsertAt(Entries, Len(Entries), e) \in Seq(Entry)
          /\ Len(Abstract!InsertAt(Entries, Len(Entries), e)) = Len(Entries) + 1
          /\ \A k \in 1 .. Len(Entries) + 1 :
                Abstract!InsertAt(Entries, Len(Entries), e)[k] =
                   IF k <= Len(Entries) THEN Entries[k]
                   ELSE IF k = Len(Entries) + 1 THEN e ELSE Entries[k - 1]
      BY <1>2, <2>0, <2>1, InsertAtIs
    <3>2. /\ Append(Entries, e) \in Seq(Entry)
          /\ Len(Append(Entries, e)) = Len(Entries) + 1
          /\ \A k \in 1 .. Len(Entries) : Append(Entries, e)[k] = Entries[k]
          /\ Append(Entries, e)[Len(Entries) + 1] = e
      BY <1>2, <2>1, AppendProperties
    <3>3. \A k \in 1 .. Len(Entries) + 1 :
            Abstract!InsertAt(Entries, Len(Entries), e)[k] = Append(Entries, e)[k]
      BY <1>1, <3>1, <3>2
    <3> QED
      BY <3>1, <3>2, <3>3, SeqEqual
  <2>4. \A i \in 1 .. Len(Entries) : ~(i > Len(Entries))
    BY <1>1
  <2>5. /\ \A i \in 1 .. Len(Entries) : i <= Len(Entries) => Entries[i].key <= e.key
        /\ \A i \in 1 .. Len(Entries) : i > Len(Entries) => e.key <= Entries[i].key
    BY <2>1, <2>4
  <2>6. Abstract!Sorted(Abstract!InsertAt(Entries, Len(Entries), e))
    BY <1>2, <2>0, <2>1, <2>5, InsertInOrder
  <2> QED
    BY <2>2, <2>3, <2>6 DEF InOrder
<1>6. ASSUME NEW n \in 0 .. Abstract!Room, Abstract!Drop(n) PROVE InOrder'
  <2>1. n \in 0 .. Len(Entries)
    BY <1>1, <1>6 DEF Abstract!Drop
  <2> QED
    BY <1>2, <1>6, <2>1, PartInOrder DEF InOrder, Abstract!Drop
<1>7. CASE Abstract!Take
  <2>1. Entries' = SubSeq(Entries, 1 + 1, Len(Entries)) /\ 1 \in 0 .. Len(Entries)
    <3>1. Entries # << >> /\ Entries' = Tail(Entries)
      BY <1>7 DEF Abstract!Take
    <3>2. Entries' = SubSeq(Entries, 2, Len(Entries))
      BY <1>2, <3>1, TailIsSubSeq
    <3>3. Len(Entries) # 0
      BY <1>2, <3>1
    <3>4. 1 \in 0 .. Len(Entries) /\ 1 + 1 = 2
      BY <1>1, <3>3
    <3> QED
      BY <3>2, <3>4
  <2> QED
    BY <1>2, <2>1, PartInOrder DEF InOrder
<1>8. CASE Abstract!Assign
  BY <1>8 DEF Abstract!Assign, InOrder
<1>9. CASE UNCHANGED <<Entries, got>>
  BY <1>9 DEF InOrder
<1> QED
  BY <1>4, <1>5, <1>6, <1>7, <1>8, <1>9 DEF Abstract!Next

LEMMA InitIsQueueInit ==
    ASSUME SortedConstants, Init
    PROVE  Abstract!Init /\ InOrder
<1>1. Ring!count = 0
  BY DEF Init, Ring!Init, Ring!count
<1>2. Entries = << >>
  BY <1>1 DEF Entries
<1> QED
  BY <1>2 DEF Init, Ring!Init, SortedConstants, Abstract!Init, InOrder, Abstract!Sorted

\* As long as everything that goes in has a key, and what is copied is in order,
\* the content is in the order of its keys, for every capacity.
THEOREM ContentInOrder ==
    ASSUME SortedConstants, CopiesSorted
    PROVE  Spec => []InOrder
<1>1. Init => InOrder
  BY InitIsQueueInit
<1>2. TypeOK /\ TypeOK' /\ InOrder /\ [Next]_vars => InOrder'
  <2> SUFFICES ASSUME TypeOK, TypeOK', InOrder, [Next]_vars, use' = "sorted" PROVE InOrder'
    BY DEF InOrder
  <2>1. use = "sorted"
    BY DEF Next, vars
  <2> QED
    BY <2>1, StepIsQueueStep, OrderKept
<1> QED
  BY <1>1, <1>2, TypeCorrect, PTL DEF Spec

\* ... and the buffer is a sorted queue: equal keys come out last in, first out
\* after insert(), first in, first out after append().
THEOREM SortedBufferIsQueue ==
    ASSUME SortedConstants, CopiesSorted
    PROVE  Spec => IsSortedQueue
<1>1. Init => Abstract!Init
  BY InitIsQueueInit
<1>2. TypeOK /\ TypeOK' /\ InOrder /\ [Next]_vars
         => [use = "sorted" => Abstract!Next]_<<Entries, got>>
  BY StepIsQueueStep
<1> QED
  BY <1>1, <1>2, TypeCorrect, ContentInOrder, PTL DEF Spec, IsSortedQueue

---------------------------------------------------------------------------
(* The views of the content                                                  *)

\* Every set of numbers that is not empty has a least one: induction without an
\* operator to instantiate.
LEMMA LeastNumber ==
    ASSUME NEW S \in SUBSET Nat, S # {}
    PROVE  \E x \in S : \A y \in S : x <= y
<1> DEFINE R == OpToRel(<, Nat)
<1>1. IsWellFoundedOn(R, Nat)
  BY NatLessThanWellFounded
<1>2. PICK x \in S : \A y \in S : ~ (<<y, x>> \in R)
  BY <1>1, WFMin
<1>3. \A y \in S : ~ (y < x)
  BY <1>2 DEF OpToRel
<1> QED
  BY <1>3

\* A step of the walk is an addition modulo the capacity.
LEMMA NextModulo ==
    ASSUME SortedConstants, NEW a \in Nat
    PROVE  (a + 1) % Capacity = Ring!next(a % Capacity)
<1> DEFINE q == a \div Capacity
           s == a % Capacity
<1>0. Capacity \in Nat /\ Capacity >= 2
  BY DEF SortedConstants
<1>1. q \in Nat /\ s \in 0 .. Capacity - 1 /\ a = (Capacity * q) + s
  BY <1>0
<1>2. CASE s < Capacity - 1
  <2>1. s + 1 \in 0 .. Capacity - 1 /\ a + 1 = (Capacity * q) + (s + 1)
    BY <1>0, <1>1, <1>2
  <2>2. (a + 1) % Capacity = s + 1
    BY <1>0, <1>1, <2>1
  <2> QED
    BY <1>2, <2>2 DEF Ring!next
<1>3. CASE s = Capacity - 1
  <2>1. a + 1 = Capacity * (q + 1)
    BY <1>0, <1>1, <1>3
  <2> DEFINE d == (a + 1) \div Capacity
             t == (a + 1) % Capacity
             e == (q + 1) - d
  <2>2. d \in Nat /\ t \in 0 .. Capacity - 1 /\ a + 1 = (Capacity * d) + t
    BY <1>0
  <2>3. e \in Int /\ Capacity * e = (Capacity * (q + 1)) - (Capacity * d)
    BY <1>0, <1>1, <2>2
  <2>4. Capacity * e = t
    BY <1>0, <1>1, <2>1, <2>2, <2>3
  <2> HIDE DEF e, t, d
  <2>5. e >= 1 => Capacity * e >= Capacity
    BY <1>0, <2>3
  <2>6. e <= 0 => Capacity * e <= 0
    BY <1>0, <2>3
  <2>7. t = 0
    BY <1>0, <2>2, <2>3, <2>4, <2>5, <2>6
  <2>8. (a + 1) % Capacity = 0
    BY <2>7 DEF t
  <2> QED
    BY <1>0, <1>3, <2>8 DEF Ring!next
<1> QED
  BY <1>0, <1>1, <1>2, <1>3

\* There is a walk: the one that is given by sums.
LEMMA WalkIsWalk ==
    ASSUME SortedConstants, TypeOK
    PROVE  Ring!Walk = [n \in Nat |-> IF n = 0 THEN r ELSE Ring!next(Ring!Walk[n - 1])]
<1> DEFINE g == [n \in Nat |-> (r + n) % Capacity]
<1>1. r \in Nat /\ r % Capacity = r
  BY DEF SortedConstants, TypeOK, Ring!TypeOK, Ring!Slots
<1>2. ASSUME NEW n \in Nat
      PROVE  g[n] = IF n = 0 THEN r ELSE Ring!next(g[n - 1])
  <2>1. CASE n = 0
    BY <1>1, <2>1
  <2>2. CASE n # 0
    <3>1. n - 1 \in Nat /\ r + (n - 1) \in Nat /\ (r + (n - 1)) + 1 = r + n
      BY <1>1, <2>2
    <3>2. (r + n) % Capacity = Ring!next((r + (n - 1)) % Capacity)
      BY <3>1, NextModulo
    <3> QED
      BY <2>2, <3>1, <3>2
  <2> QED
    BY <2>1, <2>2
<1>3. g = [n \in Nat |-> IF n = 0 THEN r ELSE Ring!next(g[n - 1])]
  BY <1>2
<1> HIDE DEF g
<1>4. \E f : f = [n \in Nat |-> IF n = 0 THEN r ELSE Ring!next(f[n - 1])]
  BY <1>3
<1> QED
  BY <1>4 DEF Ring!Walk

\* Where the walk is after n steps.
LEMMA WalkAt ==
    ASSUME SortedConstants, TypeOK, NEW n \in Nat
    PROVE  Ring!Walk[n] = (r + n) % Capacity
<1> DEFINE Wrong == {m \in Nat : Ring!Walk[m] # (r + m) % Capacity}
<1>1. r \in Nat /\ r % Capacity = r
  BY DEF SortedConstants, TypeOK, Ring!TypeOK, Ring!Slots
<1> SUFFICES ASSUME Wrong # {} PROVE FALSE
  OBVIOUS
<1>2. PICK m \in Wrong : \A k \in Wrong : m <= k
  <2> HIDE DEF Wrong
  <2>1. Wrong \in SUBSET Nat
    BY DEF Wrong
  <2> QED
    BY <2>1, LeastNumber
<1>3. CASE m = 0
  BY <1>1, <1>2, <1>3, WalkIsWalk
<1>4. CASE m # 0
  <2>1. m \in Nat /\ m - 1 \in Nat /\ ~(m <= m - 1)
    BY <1>2, <1>4
  <2>2. Ring!Walk[m - 1] = (r + (m - 1)) % Capacity
    BY <1>2, <2>1
  <2>3. Ring!Walk[m] = Ring!next(Ring!Walk[m - 1])
    BY <1>4, <2>1, WalkIsWalk
  <2>4. r + (m - 1) \in Nat /\ (r + (m - 1)) + 1 = r + m
    BY <1>1, <2>1
  <2>5. Ring!Walk[m] = (r + m) % Capacity
    BY <2>2, <2>3, <2>4, NextModulo
  <2> QED
    BY <1>2, <2>5
<1> QED
  BY <1>3, <1>4

\* The walk of vector() goes through the slots of the content, and ends behind
\* them: it meets the write pointer after count() steps and not before.
LEMMA WalkMeetsWritePointer ==
    ASSUME SortedConstants, TypeOK
    PROVE  /\ \A n \in Ring!Slots : Ring!Walk[n] = Ring!Slot(n)
           /\ Ring!WalkLength = Ring!count
<1>0. Capacity \in Nat /\ Capacity >= 2 /\ r \in Ring!Slots /\ w \in Ring!Slots
  BY DEF SortedConstants, TypeOK, Ring!TypeOK
<1>1. ASSUME NEW n \in Ring!Slots PROVE Ring!Walk[n] = Ring!Slot(n)
  <2>1. n \in Nat /\ n \in 0 .. Capacity - 1 /\ r \in 0 .. Capacity - 1
    BY <1>0, <1>1 DEF Ring!Slots
  <2>2. (r + n) % Capacity = IF r + n < Capacity THEN r + n ELSE r + n - Capacity
    BY <2>1, WrapOnce
  <2>3. Ring!Walk[n] = (r + n) % Capacity
    BY <2>1, WalkAt
  <2> QED
    BY <2>2, <2>3 DEF Ring!Slot
<1>2. Ring!count \in Ring!Slots
  BY <1>0 DEF Ring!count, Ring!Slots
<1>3. \A n \in Ring!Slots : Ring!Slot(n) = w <=> n = Ring!count
  BY <1>0 DEF Ring!Slot, Ring!count, Ring!Slots
<1>4. Ring!count \in 0 .. Capacity /\ Ring!Slots = 0 .. Capacity - 1
  BY <1>0, <1>2 DEF Ring!Slots
<1>5. \A m \in 0 .. Ring!count - 1 : m \in Ring!Slots /\ m # Ring!count
  BY <1>0, <1>2 DEF Ring!Slots
<1>6. /\ Ring!Walk[Ring!count] = w
      /\ \A m \in 0 .. Ring!count - 1 : Ring!Walk[m] # w
  BY <1>1, <1>2, <1>3, <1>5
<1>7. ASSUME NEW n \in 0 .. Capacity, Ring!Walk[n] = w,
             \A m \in 0 .. n - 1 : Ring!Walk[m] # w
      PROVE  n = Ring!count
  <2>1. CASE n \in Ring!Slots
    BY <1>1, <1>3, <1>7, <2>1
  <2>2. CASE n = Capacity
    <3>1. Ring!count \in 0 .. n - 1
      BY <1>0, <1>2, <2>2 DEF Ring!Slots
    <3> QED
      BY <1>6, <1>7, <3>1
  <2> QED
    BY <1>0, <1>4, <2>1, <2>2
<1>8. Ring!WalkLength = Ring!count
  BY <1>4, <1>6, <1>7 DEF Ring!WalkLength
<1> QED
  BY <1>1, <1>8

LEMMA ViewsLemma == SortedConstants /\ TypeOK => ViewsAgree
<1> SUFFICES ASSUME SortedConstants, TypeOK PROVE Ring!ViewsAgree
  BY DEF ViewsAgree
<1>0. Capacity \in Nat /\ Capacity >= 2 /\ r \in Ring!Slots /\ w \in Ring!Slots
  BY DEF SortedConstants, TypeOK, Ring!TypeOK
<1>1. Ring!count \in Ring!Slots /\ Ring!count \in Nat
  BY <1>0 DEF Ring!count, Ring!Slots
<1>2. \A k \in 1 .. Ring!count : k - 1 \in Ring!Slots
  BY <1>0, <1>1 DEF Ring!Slots
<1>3. Ring!vector = Ring!Queue
  BY <1>2, WalkMeetsWritePointer DEF Ring!vector, Ring!Queue
<1>4. ASSUME NEW k \in 0 .. Ring!count - 1 PROVE Ring!current(k) = Ring!Queue[k + 1]
  <2>1. k \in Ring!Slots /\ k + 1 \in 1 .. Ring!count /\ (k + 1) - 1 = k
    BY <1>0, <1>1 DEF Ring!Slots
  <2>2. k \in 0 .. Capacity - 1 /\ r \in 0 .. Capacity - 1
    BY <1>0, <2>1 DEF Ring!Slots
  <2>3. (r + k) % Capacity = Ring!Slot(k)
    BY <2>2, WrapOnce DEF Ring!Slot
  <2> QED
    BY <2>1, <2>3 DEF Ring!current, Ring!Queue
<1>5. Ring!count > 0 => Ring!latest = Ring!Queue[Ring!count]
  <2> SUFFICES ASSUME Ring!count > 0 PROVE Ring!latest = Ring!Queue[Ring!count]
    OBVIOUS
  <2>1. Ring!Slot(Ring!count - 1) = Ring!prev(w)
    BY <1>0 DEF Ring!Slot, Ring!count, Ring!prev, Ring!Slots
  <2>2. Ring!count \in 1 .. Ring!count
    BY <1>1
  <2> QED
    BY <2>1, <2>2 DEF Ring!latest, Ring!Queue
<1>6. Ring!count + Ring!free = Capacity - 1
  BY <1>0, <1>1 DEF Ring!free
<1> QED
  BY <1>3, <1>4, <1>5, <1>6 DEF Ring!ViewsAgree

\* Wherever callers have put the pointers, for every capacity: count(), the walk
\* of vector(), the offsets of current() and latest() show the same content.
THEOREM ViewsAreTheSame ==
    ASSUME SortedConstants
    PROVE  Spec => []ViewsAgree
<1>1. TypeOK => ViewsAgree
  BY ViewsLemma
<1> QED
  BY <1>1, TypeCorrect, PTL
============================================================================
